----------------------------- MODULE TxPipeline -----------------------------
(***************************************************************************)
(* The transaction pipeline of the collect daemon: the rows of the table   *)
(* t_transaction_task, the four services that carry a row from Init to     *)
(* Check or End (services/assembly.go, sign.go, broadcast.go, checkTx.go), *)
(* and the node they send transactions to.                                 *)
(*                                                                         *)
(* In a tick of the scheduler every service runs one pass, concurrently    *)
(* with the others: it reads the rows in its own state into memory, then   *)
(* handles them one by one, ending each with an UPDATE of the row in a     *)
(* transaction of its own.  The copies in memory, the position in a pass   *)
(* and the tick are lost when the process dies; the rows and the node's    *)
(* transactions are not.                                                   *)
(*                                                                         *)
(* The content of a row is abstracted to what decides its fate: its kind,  *)
(* the user it is about, its nonce, and what its signature covers.  Every  *)
(* other column (input data, gas price, hashes) is a function of those     *)
(* and is written by the same steps.  The column f_error is not here: it   *)
(* is assigned in memory only (broadcast.go:105) and stays empty in the    *)
(* table, so the queries' test of it holds.                                *)
(***************************************************************************)
EXTENDS Integers

CONSTANTS
  TaskId,     \* row ids of t_transaction_task
  SrcTask,    \* the ids the collect service may give out; Check uses the rest
  NoTask,     \* no row is being handled
  User,       \* the users' deposit addresses
  Gas,        \* config.Gas.Addr, the account that pays for gas
  MaxFaults   \* bound on failed calls and process exits

ASSUME PipelineAssumption ==
  /\ SrcTask \subseteq TaskId
  /\ NoTask \notin TaskId
  /\ User # {}
  /\ Gas \notin User
  /\ MaxFaults \in Nat

Addr == User \cup {Gas}

-----------------------------------------------------------------------------
(* types/enums.go; Absent is the state of an id not inserted yet. *)
Absent           == -1
TxInitState      == 0
TxAssmblyState   == 1
TxSignState      == 2
TxBroadcastState == 3
TxCheckState     == 4
TxEndState       == 5

(* Tx_type: pays gas to a user, or moves a user's tokens to the hot wallet. *)
GasTx     == 0
CollectTx == 1

NoSig == [kind |-> "none", nonce |-> 0]

(* What f_sig holds: nothing, a signature of the transaction with this     *)
(* nonce, or an answer of the sign service that is no signature.           *)
Sig == [kind : {"none", "valid", "invalid"}, nonce : Nat]

Row == [type  : {GasTx, CollectTx},
        user  : User,
        state : Absent..TxEndState,
        nonce : Nat,
        sig   : Sig]

NoRow == [type |-> GasTx, user |-> CHOOSE u \in User : TRUE, state |-> Absent,
          nonce |-> 0, sig |-> NoSig]

NewRow(type, user) ==
  [type |-> type, user |-> user, state |-> TxInitState, nonce |-> 0, sig |-> NoSig]

(* f_from: gas is paid by the gas account, tokens are moved by their owner. *)
From(r) == IF r.type = GasTx THEN Gas ELSE r.user

(* A transaction as the node knows it; the task stands for its content. *)
Tx == [from : Addr, nonce : Nat, task : TaskId]

TxOf(t, r) == [from |-> From(r), nonce |-> r.nonce, task |-> t]

Stage   == {"Assembly", "Sign", "Broadcast", "Check"}
Service == {"Collect"} \cup Stage

VARIABLES
  row,       \* t_transaction_task
  pc,        \* where each service is in its pass; "idle" when it is not running
  todo,      \* the rows each stage has read and not finished with, in memory
  at,        \* the row each stage is handling
  accepted,  \* every transaction the node has ever accepted
  dropped,   \* those of them that another one replaced in its pool
  head,      \* the nonce of the next transaction to be mined, per account
  spawned,   \* collect rows the check service inserted for each gas row
  faults     \* failed calls and process exits so far (only to bound them)

memory == <<pc, todo, at>>
node   == <<accepted, dropped, head>>
vars   == <<row, memory, node, spawned, faults>>

TypeOK ==
  /\ row \in [TaskId -> Row]
  /\ pc \in [Service -> {"idle", "query", "next", "nonce", "pending", "sign",
                         "send", "check", "insert", "commit"}]
  /\ todo \in [Stage -> [TaskId -> Row]]
  /\ at \in [Stage -> TaskId \cup {NoTask}]
  /\ accepted \in SUBSET Tx
  /\ dropped \in SUBSET Tx
  /\ head \in [Addr -> Nat]
  /\ spawned \in [TaskId -> Nat]
  /\ faults \in 0..MaxFaults

(* The process's memory when nothing runs. *)
IdlePc   == [s \in Service |-> "idle"]
IdleTodo == [s \in Stage |-> [t \in TaskId |-> NoRow]]
IdleAt   == [s \in Stage |-> NoTask]

Init ==
  /\ row = [t \in TaskId |-> NoRow]
  /\ pc = IdlePc
  /\ todo = IdleTodo
  /\ at = IdleAt
  /\ accepted = {}
  /\ dropped = {}
  /\ head = [a \in Addr |-> 0]
  /\ spawned = [t \in TaskId |-> 0]
  /\ faults = 0

-----------------------------------------------------------------------------
(* The tick, and what ends the process. *)

Goto(s, label) == pc' = [pc EXCEPT ![s] = label]

Fault == faults < MaxFaults /\ faults' = faults + 1

(* scheduler.go: all services start together, once every earlier Run has   *)
(* returned (wg.Wait).                                                     *)
Tick ==
  /\ \A s \in Service : pc[s] = "idle"
  /\ pc' = [s \in Service |-> "query"]
  /\ UNCHANGED <<row, todo, at, node, spawned, faults>>

(* logrus.Fatal, a panic in a service goroutine or a kill: everything in   *)
(* memory is gone, and the program starts again with the next tick.        *)
Crash ==
  /\ Fault
  /\ \E s \in Service : pc[s] # "idle"
  /\ pc' = IdlePc
  /\ todo' = IdleTodo
  /\ at' = IdleAt
  /\ UNCHANGED <<row, node, spawned>>

(* The collect service inserts a row (InsertCollectSubTx).  Which rows it  *)
(* inserts is the subject of module Collect; here, any.                    *)
Enqueue(t, type, u) ==
  /\ pc["Collect"] = "query"
  /\ row[t].state = Absent
  /\ row' = [row EXCEPT ![t] = NewRow(type, u)]
  /\ UNCHANGED <<memory, node, spawned, faults>>

CollectDone ==
  /\ pc["Collect"] = "query"
  /\ Goto("Collect", "idle")
  /\ UNCHANGED <<row, todo, at, node, spawned, faults>>

-----------------------------------------------------------------------------
(* The frame of a pass, common to the four stages. *)

(* Mutant: the sign service reads the rows that assembly reads. *)
StateOfOverlapping ==
  [s \in Stage |-> CASE s = "Assembly"  -> TxInitState
                     [] s = "Sign"      -> TxInitState
                     [] s = "Broadcast" -> TxSignState
                     [] s = "Check"     -> TxBroadcastState]

(* Mutant: the sign service reads the state it writes. *)
StateOfSignShifted ==
  [s \in Stage |-> CASE s = "Assembly"  -> TxInitState
                     [] s = "Sign"      -> TxSignState
                     [] s = "Broadcast" -> TxSignState
                     [] s = "Check"     -> TxBroadcastState]

(* Mutant: the broadcast service reads the state it writes. *)
StateOfBroadcastShifted ==
  [s \in Stage |-> CASE s = "Assembly"  -> TxInitState
                     [] s = "Sign"      -> TxAssmblyState
                     [] s = "Broadcast" -> TxBroadcastState
                     [] s = "Check"     -> TxCheckState]

(* The state whose rows a stage reads: db/query.go, GetOpened...Tasks. *)
StateOf ==
  [s \in Stage |-> CASE s = "Assembly"  -> TxInitState
                     [] s = "Sign"      -> TxAssmblyState
                     [] s = "Broadcast" -> TxSignState
                     [] s = "Check"     -> TxBroadcastState]

FirstStep ==
  [s \in Stage |-> CASE s = "Assembly"  -> "nonce"
                     [] s = "Sign"      -> "sign"
                     [] s = "Broadcast" -> "send"
                     [] s = "Check"     -> "check"]

(* The row a stage is handling, as it is in memory. *)
Mem(s) == todo[s][at[s]]

Opened(s) == {t \in TaskId : todo[s][t].state # Absent}

(* An empty answer ends the pass. *)
Query(s) ==
  /\ pc[s] = "query"
  /\ todo' = [todo EXCEPT ![s] =
        [t \in TaskId |-> IF row[t].state = StateOf[s] THEN row[t] ELSE NoRow]]
  /\ Goto(s, IF \E t \in TaskId : row[t].state = StateOf[s] THEN "next" ELSE "idle")
  /\ UNCHANGED <<row, at, node, spawned, faults>>

(* The query failed: Run returns its error and the tick goes on. *)
QueryFails(s) ==
  /\ Fault
  /\ pc[s] = "query"
  /\ Goto(s, "idle")
  /\ UNCHANGED <<row, todo, at, node, spawned>>

(* The next row of the slice; the queries state no order. *)
Take(s, t) ==
  /\ pc[s] = "next"
  /\ t \in Opened(s)
  /\ at' = [at EXCEPT ![s] = t]
  /\ Goto(s, FirstStep[s])
  /\ UNCHANGED <<row, todo, node, spawned, faults>>

(* The stage is through with its row, whatever came of it, and goes on to  *)
(* the next one; after the last, Run returns.                              *)
Release(s) ==
  /\ todo' = [todo EXCEPT ![s][at[s]] = NoRow]
  /\ at' = [at EXCEPT ![s] = NoTask]
  /\ Goto(s, IF Opened(s) = {at[s]} THEN "idle" ELSE "next")

(* Mutant: a gas row stays where it was when its collect row is in. *)
NextStateGasStays(s, r) ==
  CASE s = "Assembly"  -> TxAssmblyState
    [] s = "Sign"      -> TxSignState
    [] s = "Broadcast" -> TxBroadcastState
    [] s = "Check"     -> IF r.type = GasTx THEN TxBroadcastState ELSE TxCheckState

(* Mutant: the state of a checked row is counted up, not set. *)
NextStateCounted(s, r) ==
  CASE s = "Assembly"  -> TxAssmblyState
    [] s = "Sign"      -> TxSignState
    [] s = "Broadcast" -> TxBroadcastState
    [] s = "Check"     -> IF r.type = GasTx THEN TxEndState + 1 ELSE TxCheckState

(* The state a stage gives the row it commits. *)
NextState(s, r) ==
  CASE s = "Assembly"  -> TxAssmblyState
    [] s = "Sign"      -> TxSignState
    [] s = "Broadcast" -> TxBroadcastState
    [] s = "Check"     -> IF r.type = GasTx THEN TxEndState ELSE TxCheckState

(* xorm's Update(struct): every column but those whose field is zero. *)
XormUpdate(old, new) ==
  [type  |-> IF new.type = 0 THEN old.type ELSE new.type,
   user  |-> new.user,
   state |-> IF new.state = 0 THEN old.state ELSE new.state,
   nonce |-> IF new.nonce = 0 THEN old.nonce ELSE new.nonce,
   sig   |-> IF new.sig.kind = "none" THEN old.sig ELSE new.sig]

(* CommitWithSession: the whole row, in a transaction of its own. *)
Commit(s) ==
  /\ pc[s] = "commit"
  /\ row' = [row EXCEPT ![at[s]] =
        XormUpdate(@, [Mem(s) EXCEPT !.state = NextState(s, Mem(s))])]
  /\ Release(s)
  /\ UNCHANGED <<node, spawned, faults>>

(* The transaction failed and was rolled back; Run ignores the error. *)
CommitFails(s) ==
  /\ Fault
  /\ pc[s] = "commit"
  /\ Release(s)
  /\ UNCHANGED <<row, node, spawned>>

-----------------------------------------------------------------------------
(* Assembly: handleAssembly gives the row its nonce. *)

(* Mutant: rows that have a nonce and are not sent yet are counted too. *)
SentFromAssembled(a) == {t \in TaskId : row[t].state >= TxAssmblyState /\ From(row[t]) = a}

(* The rows GetTaskNonce selects for an account. *)
SentFrom(a) == {t \in TaskId : row[t].state >= TxBroadcastState /\ From(row[t]) = a}

SetNonce(n) == todo' = [todo EXCEPT !["Assembly"][at["Assembly"]].nonce = n]

(* GetTaskNonce found a row (ORDER BY f_nonce DESC LIMIT 1): one more. *)
NonceFromTable ==
  /\ pc["Assembly"] = "nonce"
  /\ \E t \in SentFrom(From(Mem("Assembly"))) :
        /\ \A u \in SentFrom(From(Mem("Assembly"))) : row[u].nonce <= row[t].nonce
        /\ SetNonce(row[t].nonce + 1)
  /\ Goto("Assembly", "commit")
  /\ UNCHANGED <<row, at, node, spawned, faults>>

(* It found none: the node is asked. *)
NoNonceInTable ==
  /\ pc["Assembly"] = "nonce"
  /\ SentFrom(From(Mem("Assembly"))) = {}
  /\ Goto("Assembly", "pending")
  /\ UNCHANGED <<row, todo, at, node, spawned, faults>>

(* What the node still holds or has mined under an account and a nonce. *)
Slot(a, n) == {x \in accepted \ dropped : x.from = a /\ x.nonce = n}

(* PendingNonceAt: the first nonce, from the last mined one on, that no    *)
(* transaction of the pool uses.                                           *)
IsPendingNonce(a, n) ==
  /\ n >= head[a]
  /\ Slot(a, n) = {}
  /\ \A m \in head[a]..(n - 1) : Slot(a, m) # {}

(* Every number that can be a pending nonce. *)
Candidates(a) == {head[a]} \cup {x.nonce + 1 : x \in accepted}

NonceFromNode ==
  /\ pc["Assembly"] = "pending"
  /\ \E n \in Candidates(From(Mem("Assembly"))) :
        /\ IsPendingNonce(From(Mem("Assembly")), n)
        /\ SetNonce(n)
  /\ Goto("Assembly", "commit")
  /\ UNCHANGED <<row, at, node, spawned, faults>>

-----------------------------------------------------------------------------
(* Sign: SignTx has the sign service sign the hash of the transaction. *)

SetSig(kind) ==
  todo' = [todo EXCEPT !["Sign"][at["Sign"]].sig =
             [kind |-> kind, nonce |-> Mem("Sign").nonce]]

SignTx ==
  /\ pc["Sign"] = "sign"
  /\ SetSig("valid")
  /\ Goto("Sign", "commit")
  /\ UNCHANGED <<row, at, node, spawned, faults>>

(* The sign service answers with JSON that holds no signature: it is       *)
(* stored and committed all the same.  (No answer, or one that is not      *)
(* JSON, is a nil dereference: Crash.)                                     *)
SignRefused ==
  /\ Fault
  /\ pc["Sign"] = "sign"
  /\ SetSig("invalid")
  /\ Goto("Sign", "commit")
  /\ UNCHANGED <<row, at, node, spawned>>

-----------------------------------------------------------------------------
(* Broadcast: handleBroadcastTx rebuilds the transaction, adds the         *)
(* signature and sends it.                                                 *)

BroadcastMem == TxOf(at["Broadcast"], Mem("Broadcast"))

(* WithSignature accepts the signature and it is one of this transaction. *)
SignatureFits(r) == r.sig.kind = "valid" /\ r.sig.nonce = r.nonce

(* The node's rules: a transaction is new, and its nonce is neither mined  *)
(* nor taken.                                                              *)
CanAccept(x) ==
  /\ x.nonce >= head[x.from]
  /\ x \notin accepted
  /\ Slot(x.from, x.nonce) = {}

Sending == pc["Broadcast"] = "send" /\ SignatureFits(Mem("Broadcast"))

SendAccepted ==
  /\ Sending
  /\ CanAccept(BroadcastMem)
  /\ accepted' = accepted \cup {BroadcastMem}
  /\ Goto("Broadcast", "commit")
  /\ UNCHANGED <<row, todo, at, dropped, head, spawned, faults>>

(* The nonce is taken by a transaction still in the pool that pays less:   *)
(* the node takes the new one in its place.                                *)
SendReplaces ==
  /\ Sending
  /\ BroadcastMem \notin accepted
  /\ BroadcastMem.nonce >= head[BroadcastMem.from]
  /\ Slot(BroadcastMem.from, BroadcastMem.nonce) # {}
  /\ dropped' = dropped \cup Slot(BroadcastMem.from, BroadcastMem.nonce)
  /\ accepted' = accepted \cup {BroadcastMem}
  /\ Goto("Broadcast", "commit")
  /\ UNCHANGED <<row, todo, at, head, spawned, faults>>

(* Mutant: the rejection is logged and the row committed as broadcast. *)
SendRejectedCommits ==
  /\ Sending
  /\ ~CanAccept(BroadcastMem)
  /\ Goto("Broadcast", "commit")
  /\ UNCHANGED <<row, todo, at, node, spawned, faults>>

(* Nonce too low, already known or underpriced: the error is put in the    *)
(* row in memory, nothing is committed, and the next pass tries again.     *)
SendRejected ==
  /\ Sending
  /\ ~CanAccept(BroadcastMem)
  /\ Release("Broadcast")
  /\ UNCHANGED <<row, node, spawned, faults>>

(* The node refuses for now what the account cannot pay: a user's transfer *)
(* before the gas that was sent for it is there.  (Check does not wait for *)
(* it; module Daemon has the balances.)                                    *)
SendUnfunded ==
  /\ Sending
  /\ CanAccept(BroadcastMem)
  /\ Release("Broadcast")
  /\ UNCHANGED <<row, node, spawned, faults>>

(* The call fails before the transaction reached the node. *)
SendLost ==
  /\ Fault
  /\ Sending
  /\ Release("Broadcast")
  /\ UNCHANGED <<row, node, spawned>>

(* Mutant: a failed send puts the row back to Init for a fresh nonce. *)
SendAnswerLostReassembles ==
  /\ Fault
  /\ Sending
  /\ CanAccept(BroadcastMem)
  /\ accepted' = accepted \cup {BroadcastMem}
  /\ row' = [row EXCEPT ![at["Broadcast"]].state = TxInitState]
  /\ Release("Broadcast")
  /\ UNCHANGED <<dropped, head, spawned>>

(* The node accepts the transaction and its answer is lost. *)
SendAnswerLost ==
  /\ Fault
  /\ Sending
  /\ CanAccept(BroadcastMem)
  /\ accepted' = accepted \cup {BroadcastMem}
  /\ Release("Broadcast")
  /\ UNCHANGED <<row, dropped, head, spawned>>

(* No signature, or not of this transaction: an error before it is sent. *)
SignatureRejected ==
  /\ pc["Broadcast"] = "send"
  /\ ~SignatureFits(Mem("Broadcast"))
  /\ Release("Broadcast")
  /\ UNCHANGED <<row, node, spawned, faults>>

(* The node mines an account's next transaction. *)
Mine(a) ==
  /\ Slot(a, head[a]) # {}
  /\ head' = [head EXCEPT ![a] = @ + 1]
  /\ UNCHANGED <<row, memory, accepted, dropped, spawned, faults>>

-----------------------------------------------------------------------------
(* Check: a gas row is followed by a collect row and ends, a collect row   *)
(* moves on.  Neither asks the node for a receipt.                         *)

CheckCollectTx ==
  /\ pc["Check"] = "check"
  /\ Mem("Check").type = CollectTx
  /\ Goto("Check", "commit")
  /\ UNCHANGED <<row, todo, at, node, spawned, faults>>

(* GetCollectTask(1) found the source row.  (None is a nil dereference:    *)
(* Crash.)                                                                 *)
CheckGasTx ==
  /\ pc["Check"] = "check"
  /\ Mem("Check").type = GasTx
  /\ Goto("Check", "insert")
  /\ UNCHANGED <<row, todo, at, node, spawned, faults>>

(* GetCollectTask failed: the row is left for the next pass. *)
CheckGasTxFails ==
  /\ Fault
  /\ pc["Check"] = "check"
  /\ Mem("Check").type = GasTx
  /\ Release("Check")
  /\ UNCHANGED <<row, node, spawned>>

(* InsertCollectSubTx, a transaction before and apart from the row's own. *)
InsertCollectSubTx(t) ==
  /\ pc["Check"] = "insert"
  /\ row[t].state = Absent
  /\ row' = [row EXCEPT ![t] = NewRow(CollectTx, Mem("Check").user)]
  /\ spawned' = [spawned EXCEPT ![at["Check"]] = @ + 1]
  /\ Goto("Check", "commit")
  /\ UNCHANGED <<todo, at, node, faults>>

(* Its error is not looked at. *)
InsertCollectSubTxFails ==
  /\ Fault
  /\ pc["Check"] = "insert"
  /\ Goto("Check", "commit")
  /\ UNCHANGED <<row, todo, at, node, spawned>>

-----------------------------------------------------------------------------
AssemblyStep  == NonceFromTable \/ NoNonceInTable \/ NonceFromNode
SignStep      == SignTx \/ SignRefused
BroadcastStep == \/ SendAccepted \/ SendReplaces \/ SendRejected \/ SendUnfunded
                 \/ SendLost \/ SendAnswerLost \/ SignatureRejected
CheckStep     == \/ CheckCollectTx \/ CheckGasTx \/ CheckGasTxFails
                 \/ \E t \in TaskId \ SrcTask : InsertCollectSubTx(t)
                 \/ InsertCollectSubTxFails

PassStep(s) ==
  \/ Query(s)
  \/ QueryFails(s)
  \/ \E t \in TaskId : Take(s, t)
  \/ Commit(s)
  \/ CommitFails(s)

Next ==
  \/ Tick
  \/ Crash
  \/ \E t \in SrcTask, type \in {GasTx, CollectTx}, u \in User : Enqueue(t, type, u)
  \/ CollectDone
  \/ \E s \in Stage : PassStep(s)
  \/ AssemblyStep
  \/ SignStep
  \/ BroadcastStep
  \/ CheckStep
  \/ \E a \in Addr : Mine(a)

Spec == Init /\ [][Next]_vars

(***************************************************************************)
(* Fairness: the scheduler ticks (scheduler.go:56-86), and a service that  *)
(* runs takes its next step, the calls to the database, the node and the   *)
(* sign service returning in the end; an account that is offered for ever  *)
(* to pay is funded some day, which is SendAccepted's strong fairness.     *)
(* Nothing is fair about failures, the collect service's inserts,          *)
(* replacements or mining.                                                 *)
(***************************************************************************)
Fairness ==
  /\ WF_vars(Tick)
  /\ WF_vars(CollectDone)
  /\ \A s \in Stage :
       /\ WF_vars(Query(s))
       /\ WF_vars(\E t \in TaskId : Take(s, t))
       /\ WF_vars(Commit(s))
  /\ WF_vars(AssemblyStep)
  /\ WF_vars(SignStep)
  /\ WF_vars(BroadcastStep)
  /\ SF_vars(SendAccepted)
  /\ WF_vars(CheckStep)

FairSpec == Spec /\ Fairness

-----------------------------------------------------------------------------
(* Safety. *)

(* What a service holds in memory is never stale: while it works on the    *)
(* rows it has read, no other service, and no earlier pass of its own,     *)
(* changes them.  (Nothing locks the rows: it rests on the queries'        *)
(* states being disjoint and on the scheduler's wg.Wait.)                  *)
SnapshotFresh ==
  \A s \in Stage : \A t \in Opened(s) :
    /\ row[t].state = StateOf[s]
    /\ todo[s][t].type = row[t].type
    /\ todo[s][t].user = row[t].user
    /\ t # at[s] => todo[s][t] = row[t]

(* A row never goes on chain twice, whatever crashes, lost answers and     *)
(* failed commits happen between the send and the commit that records it   *)
(* (broadcast.go:36-42): the retry can only offer the same transaction.    *)
NoDoubleSend == \A x, y \in accepted : x.task = y.task => x = y

(* A row the table shows as broadcast was accepted by the node, under the  *)
(* nonce the table shows (broadcast.go:36-48).                             *)
BroadcastWasAccepted ==
  \A t \in TaskId :
    row[t].state >= TxBroadcastState => TxOf(t, row[t]) \in accepted

(* A row never gets a nonce above one that nobody uses, which the node     *)
(* would hold back for ever: whatever rows of the account are assembled,   *)
(* sent and recorded meanwhile, lost or replaced, all lower nonces are     *)
(* mined or in the pool (assembly.go:62-75).                               *)
Fillable(r) == \A n \in 0..(r.nonce - 1) : Slot(From(r), n) # {}

NoNonceGap == \A t \in TaskId : row[t].state >= TxAssmblyState => Fillable(row[t])

(* A gas row brings one collect row, before it ends and not before it is   *)
(* handled; each failure of any kind makes at most one too many (the       *)
(* insert is repeated) or one too few (the insert's error is dropped), and *)
(* without failures there are neither (checkTx.go:65-107).                 *)
Spawning(t) == at["Check"] = t /\ pc["Check"] = "commit" /\ row[t].type = GasTx

Due(t) == IF (row[t].type = GasTx /\ row[t].state = TxEndState) \/ Spawning(t) THEN 1 ELSE 0

GasTxSpawnsOnce ==
  \A t \in TaskId : spawned[t] - Due(t) <= faults /\ Due(t) - spawned[t] <= faults

(* The pipeline implements the life cycle of a row: see TaskLifecycle.     *)
LifeOf == [t \in TaskId |-> [type |-> row[t].type, state |-> row[t].state,
                             nonce |-> row[t].nonce]]
SentOf == {<<x.task, x.nonce>> : x \in accepted}

LC == INSTANCE TaskLifecycle WITH life <- LifeOf, sent <- SentOf

Lifecycle == LC!LSpec

-----------------------------------------------------------------------------
(* Liveness. *)

(* Every row is assembled and signed, whatever fails on the way, as long   *)
(* as failures come to an end: a failed call leaves the row to the next    *)
(* pass (assembly.go:29-45, sign.go:92-187).                               *)
EveryTaskSigned ==
  \A t \in TaskId : row[t].state = TxInitState ~> row[t].state >= TxSignState

(* A signed row whose transaction the node can take is sent and recorded:  *)
(* a lost send is repeated by a later pass (broadcast.go:151-168).  The    *)
(* exceptions are those the code has no way out of: its nonce was taken,   *)
(* mined, or its own transaction went out without being recorded.          *)
SendIsRepeated ==
  \A t \in TaskId :
    (row[t].state = TxSignState /\ SignatureFits(row[t]))
      ~> (row[t].state >= TxBroadcastState \/ ~CanAccept(TxOf(t, row[t])))

(* Every row shown as broadcast is followed up: a gas row ends and a       *)
(* collect row is checked (checkTx.go:148-165).                            *)
EveryBroadcastChecked ==
  \A t \in TaskId :
    row[t].state = TxBroadcastState ~> row[t].state \in {TxCheckState, TxEndState}

-----------------------------------------------------------------------------
(* What comments and documents say and the code does not do: each has a    *)
(* configuration with which TLC finds it violated (README.md, section 6).  *)

(* README.md: Sign is followed by Broadcast.  (Two rows of one account     *)
(* that are assembled in one pass get the same nonce; the node takes one,  *)
(* and the other is sent again for ever.)                                  *)
EverySignedBroadcast ==
  \A t \in TaskId : row[t].state = TxSignState ~> row[t].state >= TxBroadcastState

(* assembly.go:62: the nonce is the larger of the table's and the node's.  *)
NonceCoversNode ==
  [][pc["Assembly"] = "nonce" /\ pc'["Assembly"] = "commit" =>
       \A n \in Candidates(From(Mem("Assembly"))) :
         IsPendingNonce(From(Mem("Assembly")), n) => Mem("Assembly")'.nonce >= n]_vars

(* README.md: a row is done when its receipt shows it on chain. *)
CheckedIsMined ==
  \A t \in TaskId :
    row[t].state \in {TxCheckState, TxEndState} =>
      /\ row[t].nonce < head[From(row[t])]
      /\ TxOf(t, row[t]) \notin dropped

(* README.md, checkTx.go:65: one collect row follows a gas row. *)
SpawnedAtMostOnce == \A t \in TaskId : spawned[t] <= 1

(* README.md, checkTx.go:65: a gas row that has ended has its collect row. *)
EndedHasSpawned ==
  \A t \in TaskId :
    row[t].type = GasTx /\ row[t].state = TxEndState => spawned[t] >= 1

=============================================================================
