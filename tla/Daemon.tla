------------------------------- MODULE Daemon -------------------------------
(***************************************************************************)
(* The whole collect daemon: Collect and TxPipeline over the tables, the   *)
(* node and the failures they share, to follow tokens from t_src_tx to the *)
(* chain.                                                                  *)
(*                                                                         *)
(* An order of Collect and a row of TxPipeline are the same record of      *)
(* t_transaction_task: order i is row i (the ids are AUTO_INCREMENT).  A   *)
(* step of the collect service that inserts is Collect!Handle and          *)
(* TxPipeline!Enqueue at once, a follow-up is Collect!CheckInserts and     *)
(* TxPipeline!InsertCollectSubTx, and so on; a step that only one of them  *)
(* knows leaves the other's variables alone.  What neither has alone is    *)
(* the balance: the node takes a user's transfer only when the gas that    *)
(* was sent for it has been mined, and nobody waits for that.              *)
(***************************************************************************)
EXTENDS Integers, Sequences, FiniteSets

CONSTANTS
  SrcId, User, Token, Threshold, MaxCnt,   \* as in Collect
  TaskId, NoTask, Gas,                     \* as in TxPipeline
  MaxFaults                                \* bound on the failures of both

ASSUME DaemonAssumption ==
  /\ IsFiniteSet(SrcId) /\ SrcId = 1..Cardinality(SrcId)
  /\ IsFiniteSet(TaskId) /\ TaskId = 1..Cardinality(TaskId)
  /\ Threshold \in [Token -> Nat]
  /\ MaxCnt \in Nat \ {0}
  /\ MaxFaults \in Nat
  /\ NoTask \notin TaskId
  /\ User # {}
  /\ Gas \notin User

VARIABLES
  src, orders, funds, cpc, batch, check, held, lost,           \* Collect
  row, pc, todo, at, accepted, dropped, head, spawned,         \* TxPipeline
  faults                                                       \* both

collect  == <<src, orders, funds, cpc, batch, check, held, lost>>
pipeline == <<row, pc, todo, at, accepted, dropped, head, spawned>>
vars     == <<collect, pipeline, faults>>

C == INSTANCE Collect WITH pc <- cpc
P == INSTANCE TxPipeline WITH SrcTask <- TaskId

Init == C!Init /\ P!Init

-----------------------------------------------------------------------------
(* The process. *)

Tick == C!Tick /\ P!Tick

Crash == P!Crash /\ IF C!Crashable THEN C!Crash ELSE UNCHANGED collect

-----------------------------------------------------------------------------
(* The crawler and the collect service. *)

Crawl(r, u, k, c) == C!Crawl(r, u, k, c) /\ UNCHANGED pipeline

(* The pipeline only sees whether the collect service is done. *)
Follows ==
  /\ pc' = [pc EXCEPT !["Collect"] = IF cpc' = "idle" THEN "idle" ELSE "query"]
  /\ UNCHANGED <<row, todo, at, accepted, dropped, head, spawned>>

(* The next AUTO_INCREMENT id. *)
NextId == Len(orders) + 1

Handle ==
  /\ NextId \in TaskId
  /\ C!Handle
  /\ P!Enqueue(NextId, orders'[NextId].type, orders'[NextId].user)

CollectStep ==
  \/ C!Query /\ Follows
  \/ Handle
  \/ C!Mark /\ Follows

CollectFails ==
  (C!QueryFails \/ C!HandleFails \/ C!InsertFails \/ C!MarkFails) /\ Follows

-----------------------------------------------------------------------------
(* The four stages. *)

AssemblyStep == P!AssemblyStep /\ UNCHANGED collect

SignStep == P!SignTx /\ UNCHANGED collect

SignRefused == P!SignRefused /\ UNCHANGED collect

(* The account of the transaction that is being sent has something to pay  *)
(* with; the gas account always has.                                       *)
CanPay == LET r == P!Mem("Broadcast") IN r.type = P!CollectTx => funds[r.user] > 0

SendAccepted == P!SendAccepted /\ CanPay /\ UNCHANGED collect

SendReplaces == P!SendReplaces /\ CanPay /\ UNCHANGED collect

SendUnfunded == P!SendUnfunded /\ ~CanPay /\ UNCHANGED collect

SendAnswerLost == P!SendAnswerLost /\ CanPay /\ UNCHANGED collect

NotSent == (P!SendRejected \/ P!SignatureRejected) /\ UNCHANGED collect

SendLost == P!SendLost /\ UNCHANGED collect

BroadcastStep == SendAccepted \/ SendReplaces \/ SendUnfunded \/ NotSent

CheckCollectTx == P!CheckCollectTx /\ UNCHANGED collect

(* Mutant: while the gas has not arrived, the follow-up is skipped. *)
CheckGasTxSkips ==
  /\ pc["Check"] = "check" /\ P!Mem("Check").type = P!GasTx
  /\ IF orders[at["Check"]].paid
     THEN P!CheckGasTx /\ C!CheckReads(at["Check"])
     ELSE /\ P!Goto("Check", "commit")
          /\ check' = at["Check"]
          /\ UNCHANGED <<src, orders, funds, cpc, batch, held, lost, row, todo, at,
                         accepted, dropped, head, spawned, faults>>

CheckGasTx == P!CheckGasTx /\ C!CheckReads(at["Check"])

CheckGasTxFails == P!CheckGasTxFails /\ UNCHANGED collect

InsertCollectSubTx ==
  /\ NextId \in TaskId
  /\ P!InsertCollectSubTx(NextId)
  /\ C!CheckInserts

InsertCollectSubTxFails == P!InsertCollectSubTxFails /\ C!CheckInsertFails

CheckStep == CheckCollectTx \/ CheckGasTx \/ InsertCollectSubTx

(* A commit, which ends the order when it is Check's of a gas row. *)
Commit(s) ==
  P!Commit(s) /\ IF s = "Check" /\ check # 0 THEN C!CheckEnds ELSE UNCHANGED collect

CommitFails(s) ==
  P!CommitFails(s) /\ IF s = "Check" /\ check # 0 THEN C!CheckEndFails ELSE UNCHANGED collect

Query(s) == P!Query(s) /\ UNCHANGED collect

Take(s, t) == P!Take(s, t) /\ UNCHANGED collect

QueryFails(s) == P!QueryFails(s) /\ UNCHANGED collect

(* The chain mines an account's next transaction, and balances move. *)
Mine(a) ==
  /\ P!Mine(a)
  /\ \E x \in P!Slot(a, head[a]) : C!OrderMined(x.task)

-----------------------------------------------------------------------------
PassStep(s) == Query(s) \/ (\E t \in TaskId : Take(s, t)) \/ Commit(s)

Next ==
  \/ Tick
  \/ Crash
  \/ \E r \in SrcId, u \in User, k \in Token, c \in 1..MaxCnt : Crawl(r, u, k, c)
  \/ CollectStep
  \/ CollectFails
  \/ \E s \in P!Stage : PassStep(s) \/ QueryFails(s) \/ CommitFails(s)
  \/ AssemblyStep
  \/ SignStep
  \/ SignRefused
  \/ BroadcastStep
  \/ SendLost
  \/ SendAnswerLost
  \/ CheckStep
  \/ CheckGasTxFails
  \/ InsertCollectSubTxFails
  \/ \E a \in P!Addr : Mine(a)

Spec == Init /\ [][Next]_vars

(***************************************************************************)
(* Fairness: the scheduler ticks, a service that runs takes its next step, *)
(* and the chain mines what it can.  No failure is fair.                   *)
(***************************************************************************)
Fairness ==
  /\ WF_vars(Tick)
  /\ WF_vars(CollectStep)
  /\ WF_vars(PassStep("Assembly") \/ AssemblyStep)
  /\ WF_vars(PassStep("Sign") \/ SignStep)
  /\ WF_vars(PassStep("Broadcast") \/ BroadcastStep)
  /\ WF_vars(PassStep("Check") \/ CheckStep)
  /\ \A a \in P!Addr : WF_vars(Mine(a))

FairSpec == Spec /\ Fairness

-----------------------------------------------------------------------------
(* Orders and rows are the same records. *)
TypeOK ==
  /\ C!TypeOK
  /\ P!TypeOK
  /\ pc["Collect"] = "idle" <=> cpc = "idle"
  /\ check # 0 => check = at["Check"]
  /\ \A t \in TaskId :
       IF t > Len(orders)
       THEN row[t].state = P!Absent
       ELSE /\ row[t].type = orders[t].type /\ row[t].user = orders[t].user
            /\ orders[t].ended <=> row[t].state = P!TxEndState

(* The orders that move the tokens of a source row. *)
Transfers(r) == {i \in DOMAIN orders : orders[i].type = P!CollectTx /\ r \in orders[i].rows}

(* The gas orders of a source row that have still to bring a transfer. *)
Pending(r) ==
  {i \in DOMAIN orders : orders[i].type = P!GasTx /\ r \in orders[i].rows /\ ~orders[i].ended}

(* Tokens that are shown as being collected have a transfer of them in the *)
(* table, or gas on its way that will bring one, whatever exit or failed   *)
(* commit hits the four transactions in between (collect.go:275-288,       *)
(* checkTx.go:92-98); the exceptions are the inserts whose error is        *)
(* dropped.                                                                *)
NothingStranded ==
  \A r \in SrcId :
    src[r].state = C!TxCollectingState /\ r \notin lost =>
      Transfers(r) \cup Pending(r) # {}

(* The transfers that were made for a row that stands for its group.       *)
TransfersFrom(r) == {i \in DOMAIN orders : orders[i].type = P!CollectTx /\ orders[i].src = r}

(* The node is given one transfer for a source row, and at most two more   *)
(* for each failure: an exit may hit the collect service between order and *)
(* mark and, in the same tick, the check service between follow-up and     *)
(* end, and repeat both; it is not multiplied any further on the way to    *)
(* the node (collect.go:281, checkTx.go:92, broadcast.go:102).             *)
ExtraTransfersNeedFaults ==
  \A r \in SrcId :
    Cardinality({x \in accepted : x.task \in TransfersFrom(r)}) <= 1 + 2 * faults

(* Tokens that reach the threshold reach the collect account in the end,   *)
(* through order, gas, follow-up and transfer (README.md, the states), and *)
(* though nobody waits for the gas to arrive (checkTx.go:94): the transfer *)
(* is offered again until it can be paid (broadcast.go:102).  This is said *)
(* of runs without failures and rows of one nonce each, for some failures  *)
(* leave a row without a way out: see TxPipeline!SendIsRepeated.           *)
TokensMove ==
  \A r \in SrcId :
    (r \in C!Ready /\ src[r].cnt >= Threshold[src[r].token])
      ~> \E i \in Transfers(r) : orders[i].paid

=============================================================================
