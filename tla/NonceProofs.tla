----------------------------- MODULE NonceProofs -----------------------------
(***************************************************************************)
(* The nonces the pipeline gives leave no gap (TxPipeline!NoNonceGap), for *)
(* any rows, users and failures.  What has to be known besides: a nonce    *)
(* that was ever used at the node stays used, by the transaction or by one *)
(* that replaced it, and so do all that are mined; and the nonce Assembly  *)
(* holds in memory has no gap below it either.                             *)
(***************************************************************************)
EXTENDS TxPipelineProofs

USE DEF Absent, TxInitState, TxAssmblyState, TxSignState, TxBroadcastState,
        TxCheckState, TxEndState, GasTx, CollectTx

(* Some transaction, pending or mined, uses the nonce. *)
Used(a, n) == \E x \in accepted \ dropped : x.from = a /\ x.nonce = n

NodeN ==
  /\ dropped \subseteq accepted
  /\ \A x \in accepted : Used(x.from, x.nonce)
  /\ \A a \in Addr : \A n \in 0..(head[a] - 1) : Used(a, n)

NoGap(r) == \A n \in 0..(r.nonce - 1) : Used(From(r), n)

RowN ==
  /\ \A t \in TaskId : row[t].state >= TxAssmblyState => NoGap(row[t])
  /\ \A t \in TaskId : row[t].state < TxAssmblyState => row[t].nonce = 0
  /\ pc["Assembly"] = "commit" => NoGap(Mem("Assembly"))

NInv == NodeN /\ RowN

(* A step after which every nonce that was used still is. *)
UsedStays == \A a \in Addr, n \in Nat : Used(a, n) => Used(a, n)'

(* The copy Assembly is about to commit was there before the step. *)
AssemblyStays ==
  pc'["Assembly"] = "commit" => pc["Assembly"] = "commit" /\ Mem("Assembly")' = Mem("Assembly")

LEMMA SlotIsUsed == \A a, n : Slot(a, n) # {} <=> Used(a, n)
BY DEF Slot, Used

LEMMA GapIsNoGap == NoNonceGap <=> \A t \in TaskId : row[t].state >= TxAssmblyState => NoGap(row[t])
BY SlotIsUsed DEF NoNonceGap, Fillable, NoGap

-----------------------------------------------------------------------------
(* The node. *)

LEMMA NodeUnchanged == NodeN /\ UNCHANGED node => NodeN' /\ UsedStays
BY DEF NodeN, Used, UsedStays, node

(* One more nonce is used; replacing a transaction leaves its nonce used. *)
LEMMA NodeSends ==
  ASSUME IInv, NodeN, SendAccepted \/ SendReplaces \/ SendAnswerLost
  PROVE  NodeN' /\ UsedStays
<1>0. PICK b : b = BroadcastMem
  OBVIOUS
<1>1. /\ accepted' = accepted \cup {b}
      /\ b \notin accepted
      /\ head' = head
      /\ dropped' \in {dropped, dropped \cup Slot(b.from, b.nonce)}
  BY <1>0 DEF SendAccepted, SendReplaces, SendAnswerLost, CanAccept
<1>2. dropped' \subseteq accepted /\ dropped' \subseteq accepted'
  BY <1>1 DEF NodeN, Slot
<1>3. Used(b.from, b.nonce)'
  BY <1>1, <1>2 DEF Used
<1>4. \A a, n : Used(a, n) => Used(a, n)'
  <2> SUFFICES ASSUME NEW a, NEW n, Used(a, n) PROVE Used(a, n)'
    OBVIOUS
  <2>1. PICK x \in accepted \ dropped : x.from = a /\ x.nonce = n
    BY DEF Used
  <2>2. CASE x \in dropped'
    <3>1. x.from = b.from /\ x.nonce = b.nonce
      BY <1>1, <2>1, <2>2 DEF Slot
    <3> QED BY <1>3, <2>1, <3>1 DEF Used
  <2>3. CASE x \notin dropped'
    BY <1>1, <2>1, <2>3 DEF Used
  <2> QED BY <2>2, <2>3
<1>5. \A x \in accepted' : Used(x.from, x.nonce)'
  BY <1>1, <1>3, <1>4 DEF NodeN
<1>6. \A a \in Addr : \A n \in 0..(head'[a] - 1) : Used(a, n)'
  BY <1>1, <1>4 DEF NodeN
<1> QED BY <1>2, <1>4, <1>5, <1>6 DEF NodeN, UsedStays

LEMMA NodeMines ==
  ASSUME IInv, NodeN, NEW a \in Addr, Mine(a)
  PROVE  NodeN' /\ UsedStays
<1>1. Used(a, head[a])
  BY SlotIsUsed DEF Mine
<1>2. /\ accepted' = accepted /\ dropped' = dropped
      /\ head' = [head EXCEPT ![a] = @ + 1]
      /\ head \in [Addr -> Nat]
  BY DEF Mine, IInv, TypeOK
<1>3. \A c, n : Used(c, n) <=> Used(c, n)'
  BY <1>2 DEF Used
<1>4. \A c \in Addr : \A n \in 0..(head'[c] - 1) : Used(c, n)
  BY <1>1, <1>2 DEF NodeN
<1> QED BY <1>2, <1>3, <1>4 DEF NodeN, UsedStays

-----------------------------------------------------------------------------
(* The rows. *)

LEMMA NoGapStays ==
  ASSUME UsedStays, NEW r \in Row, NoGap(r)
  PROVE  \A n \in 0..(r.nonce - 1) : Used(From(r), n)'
<1>1. From(r) \in Addr /\ r.nonce \in Nat
  BY FromType DEF Row
<1> QED BY <1>1 DEF UsedStays, NoGap

(* The rows and Assembly's copy are left alone. *)
LEMMA RowsUnchanged ==
  ASSUME IInv, RowN, UsedStays, UNCHANGED row, AssemblyStays
  PROVE  RowN'
<1>1. ASSUME NEW t \in TaskId, row[t].state >= 1 PROVE NoGap(row[t])'
  <2>1. row[t] \in Row /\ NoGap(row[t])
    BY <1>1 DEF IInv, TypeOK, RowN
  <2> QED BY <2>1, NoGapStays DEF NoGap
<1>2. ASSUME pc'["Assembly"] = "commit" PROVE NoGap(Mem("Assembly"))'
  <2>1. pc["Assembly"] = "commit" /\ Mem("Assembly")' = Mem("Assembly")
    BY <1>2 DEF AssemblyStays
  <2>2. Mem("Assembly") \in Row /\ NoGap(Mem("Assembly"))
    BY <2>1, HandledRow, WorkingValues DEF RowN, Stage
  <2> QED BY <2>1, <2>2, NoGapStays DEF NoGap
<1> QED BY <1>1, <1>2 DEF RowN

LEMMA RowsInsert ==
  ASSUME IInv, RowN, UsedStays, NEW t \in TaskId, NEW type \in {GasTx, CollectTx},
         NEW u \in User, row' = [row EXCEPT ![t] = NewRow(type, u)], AssemblyStays
  PROVE  RowN'
<1>1. NewRow(type, u).state = 0 /\ NewRow(type, u).nonce = 0
  BY NewRowType
<1>2. \A v \in TaskId : row'[v] = IF v = t THEN NewRow(type, u) ELSE row[v]
  BY DEF IInv, TypeOK
<1>3. ASSUME NEW v \in TaskId, row'[v].state >= 1 PROVE NoGap(row[v])'
  <2>1. v # t /\ row'[v] = row[v]
    BY <1>1, <1>2, <1>3
  <2>2. row[v] \in Row /\ NoGap(row[v])
    BY <1>3, <2>1 DEF IInv, TypeOK, RowN
  <2> QED BY <2>1, <2>2, NoGapStays DEF NoGap
<1>4. ASSUME pc'["Assembly"] = "commit" PROVE NoGap(Mem("Assembly"))'
  <2>1. pc["Assembly"] = "commit" /\ Mem("Assembly")' = Mem("Assembly")
    BY <1>4 DEF AssemblyStays
  <2>2. Mem("Assembly") \in Row /\ NoGap(Mem("Assembly"))
    BY <2>1, HandledRow, WorkingValues DEF RowN, Stage
  <2> QED BY <2>1, <2>2, NoGapStays DEF NoGap
<1>5. \A v \in TaskId : row'[v].state < 1 => row'[v].nonce = 0
  BY <1>1, <1>2 DEF RowN
<1> QED BY <1>3, <1>4, <1>5 DEF RowN

(* The end of a pass over a row leaves Assembly's next copy uncommitted. *)
LEMMA ReleaseAssembly ==
  ASSUME IInv, NEW s \in Stage, Release(s)
  PROVE  AssemblyStays
<1>1. pc' = [pc EXCEPT ![s] = pc'[s]] /\ pc'[s] \in {"idle", "next"}
  BY DEF IInv, TypeOK, Release, Goto, Stage, Service
<1>2. CASE s = "Assembly"
  BY <1>1, <1>2 DEF AssemblyStays
<1>3. CASE s # "Assembly"
  <2>1. /\ pc'["Assembly"] = pc["Assembly"]
        /\ at'["Assembly"] = at["Assembly"]
        /\ todo'["Assembly"] = todo["Assembly"]
    BY <1>3 DEF IInv, TypeOK, Release, Goto, Stage, Service
  <2> QED BY <2>1 DEF AssemblyStays, Mem
<1> QED BY <1>2, <1>3

(* A commit stores the nonce Assembly gave, and no other stage changes it. *)
LEMMA RowsCommit ==
  ASSUME IInv, RowN, UsedStays, NEW s \in Stage, Commit(s)
  PROVE  RowN'
<1> DEFINE t   == at[s]
           new == [Mem(s) EXCEPT !.state = NextState(s, Mem(s))]
           x   == XormUpdate(row[t], new)
<1>1. /\ t \in TaskId /\ row[t] \in Row /\ Mem(s) \in Row
      /\ row[t].state = StateOf[s]
      /\ Mem(s).type = row[t].type
      /\ Mem(s).user = row[t].user
      /\ s # "Assembly" => Mem(s).nonce = row[t].nonce
  BY HandledRow, WorkingValues DEF Commit, Stage
<1>2. NextState(s, Mem(s)) \in 1..5
  BY <1>1, NextStateType
<1>3. /\ new \in Row
      /\ new.state = NextState(s, Mem(s))
      /\ new.type = Mem(s).type /\ new.user = Mem(s).user /\ new.nonce = Mem(s).nonce
  BY <1>1, <1>2 DEF Row
<1> HIDE DEF new
<1>4. /\ x \in Row
      /\ x.state \in 1..5
      /\ x.type = row[t].type
      /\ x.user = row[t].user
      /\ s # "Assembly" => x.nonce = row[t].nonce
  BY <1>1, <1>2, <1>3, XormUpdateType
<1>5. From(x) = From(row[t]) /\ From(x) = From(Mem(s))
  BY <1>1, <1>4 DEF From
<1>6. NoGap(x)
  <2>1. CASE s = "Assembly"
    <3>1. row[t].nonce = 0
      BY <1>1, <2>1, StateOfValues DEF RowN
    <3>2. x.nonce = Mem(s).nonce
      BY <1>3, <3>1 DEF XormUpdate
    <3>3. NoGap(Mem(s))
      BY <2>1 DEF RowN, Commit
    <3> QED BY <1>5, <3>2, <3>3 DEF NoGap
  <2>2. CASE s # "Assembly"
    <3>1. NoGap(row[t])
      BY <1>1, <2>2, StateOfValues DEF RowN, Stage
    <3> QED BY <1>4, <1>5, <2>2, <3>1 DEF NoGap
  <2> QED BY <2>1, <2>2
<1>7. row' = [row EXCEPT ![t] = x]
  BY DEF Commit, new
<1> HIDE DEF x
<1>8. \A v \in TaskId : row'[v] = IF v = t THEN x ELSE row[v]
  BY <1>7 DEF IInv, TypeOK
<1>9. ASSUME NEW v \in TaskId, row'[v].state >= 1 PROVE NoGap(row[v])'
  <2>1. row'[v] \in Row /\ NoGap(row'[v])
    BY <1>4, <1>6, <1>8, <1>9 DEF IInv, TypeOK, RowN
  <2> QED BY <2>1, NoGapStays DEF NoGap
<1>10. \A v \in TaskId : row'[v].state < 1 => row'[v].nonce = 0
  BY <1>4, <1>8 DEF RowN
<1>11. AssemblyStays
  BY ReleaseAssembly DEF Commit
<1>12. ASSUME pc'["Assembly"] = "commit" PROVE NoGap(Mem("Assembly"))'
  <2>1. pc["Assembly"] = "commit" /\ Mem("Assembly")' = Mem("Assembly")
    BY <1>11, <1>12 DEF AssemblyStays
  <2>2. Mem("Assembly") \in Row /\ NoGap(Mem("Assembly"))
    BY <2>1, HandledRow, WorkingValues DEF RowN, Stage
  <2> QED BY <2>1, <2>2, NoGapStays DEF NoGap
<1> QED BY <1>9, <1>10, <1>12 DEF RowN

(* Assembly gives its copy a nonce with none free below it. *)
LEMMA RowsNonce ==
  ASSUME IInv, RowN, UsedStays, NEW n \in Nat, SetNonce(n),
         pc["Assembly"] \in {"nonce", "pending"}, UNCHANGED <<row, at>>,
         \A m \in 0..(n - 1) : Used(From(Mem("Assembly")), m)
  PROVE  RowN'
<1>1. at["Assembly"] \in TaskId /\ Mem("Assembly") \in Row
  BY HandledRow, WorkingValues DEF Stage
<1>2. Mem("Assembly")' = [Mem("Assembly") EXCEPT !.nonce = n]
  BY <1>1 DEF IInv, TypeOK, SetNonce, Mem, Stage
<1> DEFINE m == [Mem("Assembly") EXCEPT !.nonce = n]
<1>3. m \in Row /\ m.nonce = n /\ From(m) = From(Mem("Assembly"))
  BY <1>1 DEF Row, From
<1>4. NoGap(m)
  BY <1>3 DEF NoGap
<1>5. NoGap(Mem("Assembly"))'
  BY <1>2, <1>3, <1>4, NoGapStays DEF NoGap
<1>6. ASSUME NEW t \in TaskId, row[t].state >= 1 PROVE NoGap(row[t])'
  <2>1. row[t] \in Row /\ NoGap(row[t])
    BY <1>6 DEF IInv, TypeOK, RowN
  <2> QED BY <2>1, NoGapStays DEF NoGap
<1> QED BY <1>5, <1>6 DEF RowN

LEMMA NonceFromTableN == IInv /\ NInv /\ NonceFromTable => NInv'
<1> SUFFICES ASSUME IInv, NInv, NonceFromTable PROVE NInv'
  OBVIOUS
<1> DEFINE a == From(Mem("Assembly"))
<1>1. PICK t \in SentFrom(a) : SetNonce(row[t].nonce + 1)
  BY DEF NonceFromTable
<1>2. t \in TaskId /\ row[t] \in Row /\ row[t].state >= 3 /\ From(row[t]) = a
  BY <1>1 DEF SentFrom, IInv, TypeOK
<1>3. Used(a, row[t].nonce)
  <2>1. TxOf(t, row[t]) \in accepted
    BY <1>2 DEF IInv, SentOK, BroadcastWasAccepted
  <2> QED BY <1>2, <2>1 DEF NInv, NodeN, TxOf
<1>4. \A n \in 0..(row[t].nonce - 1) : Used(a, n)
  <2>1. row[t].state >= 1
    BY <1>2 DEF Row
  <2>2. NoGap(row[t])
    BY <1>2, <2>1 DEF NInv, RowN
  <2> QED BY <1>2, <2>2 DEF NoGap
<1>5. row[t].nonce \in Nat
  BY <1>2 DEF Row
<1>6. \A n \in 0..((row[t].nonce + 1) - 1) : Used(a, n)
  BY <1>3, <1>4, <1>5
<1>7. NodeN' /\ UsedStays
  BY NodeUnchanged DEF NInv, NonceFromTable
<1>8. RowN'
  BY <1>1, <1>5, <1>6, <1>7, RowsNonce DEF NInv, NonceFromTable
<1> QED BY <1>7, <1>8 DEF NInv

LEMMA NonceFromNodeN == IInv /\ NInv /\ NonceFromNode => NInv'
<1> SUFFICES ASSUME IInv, NInv, NonceFromNode PROVE NInv'
  OBVIOUS
<1> DEFINE a == From(Mem("Assembly"))
<1>1. PICK n \in Candidates(a) : IsPendingNonce(a, n) /\ SetNonce(n)
  BY DEF NonceFromNode
<1>2. a \in Addr
  BY HandledRow, WorkingValues, FromType DEF NonceFromNode, Stage
<1>3. n \in Nat /\ head[a] \in Nat
  BY <1>1, <1>2 DEF Candidates, IInv, TypeOK, Tx
<1>4. \A m \in head[a]..(n - 1) : Used(a, m)
  BY <1>1, SlotIsUsed DEF IsPendingNonce
<1>5. \A m \in 0..(head[a] - 1) : Used(a, m)
  BY <1>2 DEF NInv, NodeN
<1>6. \A m \in 0..(n - 1) : Used(a, m)
  BY <1>3, <1>4, <1>5
<1>7. NodeN' /\ UsedStays
  BY NodeUnchanged DEF NInv, NonceFromNode
<1>8. RowN'
  BY <1>1, <1>3, <1>6, <1>7, RowsNonce DEF NInv, NonceFromNode
<1> QED BY <1>7, <1>8 DEF NInv

-----------------------------------------------------------------------------
(* All actions. *)

LEMMA InitNInv == Init => NInv
<1> SUFFICES ASSUME Init PROVE NInv
  OBVIOUS
<1>1. NoRow.state = -1 /\ NoRow.nonce = 0
  BY DEF NoRow
<1>2. NodeN
  BY DEF Init, NodeN
<1>3. RowN
  BY <1>1 DEF Init, RowN, IdlePc, Service, Stage
<1> QED BY <1>2, <1>3 DEF NInv

(* Every other step of a stage leaves rows, node and the copy about to be  *)
(* committed alone.                                                        *)
LEMMA QuietN ==
  ASSUME IInv, NInv, UNCHANGED <<row, node>>, AssemblyStays
  PROVE  NInv'
BY NodeUnchanged, RowsUnchanged DEF NInv

(* A step of one service that takes it anywhere but Assembly to its commit. *)
LEMMA GotoAssembly ==
  ASSUME IInv, NEW s \in Service, NEW l, Goto(s, l), UNCHANGED at,
         s = "Assembly" => l # "commit",
         s # "Assembly" => todo'["Assembly"] = todo["Assembly"]
  PROVE  AssemblyStays
<1>1. CASE s = "Assembly"
  BY <1>1 DEF AssemblyStays, IInv, TypeOK, Goto
<1>2. CASE s # "Assembly"
  BY <1>2 DEF AssemblyStays, IInv, TypeOK, Goto, Mem, Service, Stage
<1> QED BY <1>1, <1>2

LEMMA PassN == ASSUME NEW s \in Stage PROVE IInv /\ NInv /\ PassStep(s) => NInv'
<1> SUFFICES ASSUME IInv, NInv, PassStep(s) PROVE NInv'
  OBVIOUS
<1>0. s \in Service
  BY DEF Service
<1>1. CASE Query(s)
  <2>1. AssemblyStays
    <3>1. Goto(s, "next") \/ Goto(s, "idle")
      BY <1>1 DEF Query
    <3>2. s # "Assembly" => todo'["Assembly"] = todo["Assembly"]
      BY <1>1 DEF Query, IInv, TypeOK, Stage
    <3> QED BY <1>0, <1>1, <3>1, <3>2, GotoAssembly DEF Query
  <2> QED BY <1>1, <2>1, QuietN DEF Query
<1>2. CASE QueryFails(s)
  <2>1. AssemblyStays
    BY <1>0, <1>2, GotoAssembly DEF QueryFails
  <2> QED BY <1>2, <2>1, QuietN DEF QueryFails
<1>3. CASE \E t \in TaskId : Take(s, t)
  <2>1. PICK t \in TaskId : Take(s, t)
    BY <1>3
  <2>2. AssemblyStays
    <3>1. CASE s = "Assembly"
      BY <2>1, <3>1 DEF AssemblyStays, Take, Goto, FirstStep, IInv, TypeOK, Service, Stage
    <3>2. CASE s # "Assembly"
      BY <2>1, <3>2 DEF AssemblyStays, Take, Goto, IInv, TypeOK, Mem, Service, Stage
    <3> QED BY <3>1, <3>2
  <2> QED BY <2>1, <2>2, QuietN DEF Take
<1>4. CASE Commit(s)
  BY <1>4, NodeUnchanged, RowsCommit DEF NInv, Commit
<1>5. CASE CommitFails(s)
  BY <1>5, ReleaseAssembly, QuietN DEF CommitFails
<1> QED BY <1>1, <1>2, <1>3, <1>4, <1>5 DEF PassStep

LEMMA SignN == IInv /\ NInv /\ SignStep => NInv'
<1> SUFFICES ASSUME IInv, NInv, SignStep PROVE NInv'
  OBVIOUS
<1>1. /\ Goto("Sign", "commit") /\ UNCHANGED <<row, at, node>>
      /\ \E kind : SetSig(kind)
  BY DEF SignStep, SignTx, SignRefused
<1>2. todo'["Assembly"] = todo["Assembly"]
  BY <1>1 DEF SetSig, IInv, TypeOK, Stage
<1>3. AssemblyStays
  BY <1>1, <1>2, GotoAssembly DEF Service, Stage
<1> QED BY <1>1, <1>3, QuietN

LEMMA BroadcastN == IInv /\ NInv /\ BroadcastStep => NInv'
<1> SUFFICES ASSUME IInv, NInv, BroadcastStep PROVE NInv'
  OBVIOUS
<1>0. "Broadcast" \in Stage /\ "Broadcast" \in Service
  BY DEF Service, Stage
<1>1. CASE SendAccepted \/ SendReplaces
  <2>1. AssemblyStays
    BY <1>0, <1>1, GotoAssembly DEF SendAccepted, SendReplaces
  <2> QED BY <1>1, <2>1, NodeSends, RowsUnchanged DEF NInv, SendAccepted, SendReplaces
<1>2. CASE SendAnswerLost
  <2>1. AssemblyStays
    BY <1>0, <1>2, ReleaseAssembly DEF SendAnswerLost
  <2> QED BY <1>2, <2>1, NodeSends, RowsUnchanged DEF NInv, SendAnswerLost
<1>3. CASE SendRejected \/ SendUnfunded \/ SendLost \/ SignatureRejected
  BY <1>0, <1>3, ReleaseAssembly, QuietN
     DEF SendRejected, SendUnfunded, SendLost, SignatureRejected
<1> QED BY <1>1, <1>2, <1>3 DEF BroadcastStep

LEMMA CheckN == IInv /\ NInv /\ CheckStep => NInv'
<1> SUFFICES ASSUME IInv, NInv, CheckStep PROVE NInv'
  OBVIOUS
<1>0. "Check" \in Stage /\ "Check" \in Service
  BY DEF Service, Stage
<1>1. CASE CheckCollectTx \/ CheckGasTx \/ InsertCollectSubTxFails
  <2>1. AssemblyStays
    BY <1>0, <1>1, GotoAssembly DEF CheckCollectTx, CheckGasTx, InsertCollectSubTxFails
  <2> QED BY <1>1, <2>1, QuietN DEF CheckCollectTx, CheckGasTx, InsertCollectSubTxFails
<1>2. CASE CheckGasTxFails
  BY <1>0, <1>2, ReleaseAssembly, QuietN DEF CheckGasTxFails
<1>3. ASSUME NEW t \in TaskId \ SrcTask, InsertCollectSubTx(t)
      PROVE  NInv'
  <2>1. AssemblyStays
    BY <1>0, <1>3, GotoAssembly DEF InsertCollectSubTx
  <2>2. Mem("Check").user \in User
    BY <1>3, HandledRow, WorkingValues DEF InsertCollectSubTx, Row, Stage
  <2>3. NodeN' /\ UsedStays
    BY <1>3, NodeUnchanged DEF NInv, InsertCollectSubTx
  <2> QED BY <1>3, <2>1, <2>2, <2>3, RowsInsert DEF NInv, InsertCollectSubTx
<1> QED BY <1>1, <1>2, <1>3 DEF CheckStep

LEMMA NextNInv == IInv /\ NInv /\ [Next]_vars => NInv'
<1> SUFFICES ASSUME IInv, NInv, [Next]_vars PROVE NInv'
  OBVIOUS
<1>1. CASE Tick \/ Crash
  <2>1. AssemblyStays
    BY <1>1 DEF AssemblyStays, Tick, Crash, IdlePc, Service, Stage
  <2> QED BY <1>1, <2>1, QuietN DEF Tick, Crash
<1>2. ASSUME NEW t \in SrcTask, NEW type \in {GasTx, CollectTx}, NEW u \in User,
             Enqueue(t, type, u)
      PROVE  NInv'
  <2>1. t \in TaskId
    BY PipelineAssumption
  <2>2. AssemblyStays
    BY <1>2 DEF AssemblyStays, Enqueue, memory, Mem
  <2>3. NodeN' /\ UsedStays
    BY <1>2, NodeUnchanged DEF NInv, Enqueue
  <2> QED BY <1>2, <2>1, <2>2, <2>3, RowsInsert DEF NInv, Enqueue
<1>3. CASE CollectDone
  <2>1. AssemblyStays
    BY <1>3, GotoAssembly DEF CollectDone, Service, Stage
  <2> QED BY <1>3, <2>1, QuietN DEF CollectDone
<1>4. ASSUME NEW s \in Stage, PassStep(s) PROVE NInv'
  BY <1>4, PassN
<1>5. CASE AssemblyStep
  <2>1. CASE NonceFromTable \/ NonceFromNode
    BY <2>1, NonceFromTableN, NonceFromNodeN
  <2>2. CASE NoNonceInTable
    <3>1. AssemblyStays
      BY <2>2, GotoAssembly DEF NoNonceInTable, Service, Stage
    <3> QED BY <2>2, <3>1, QuietN DEF NoNonceInTable
  <2> QED BY <1>5, <2>1, <2>2 DEF AssemblyStep
<1>6. CASE SignStep \/ BroadcastStep \/ CheckStep
  BY <1>6, SignN, BroadcastN, CheckN
<1>7. ASSUME NEW a \in Addr, Mine(a) PROVE NInv'
  <2>1. AssemblyStays
    BY <1>7 DEF AssemblyStays, Mine, memory, Mem
  <2>2. NodeN' /\ UsedStays
    BY <1>7, NodeMines DEF NInv
  <2> QED BY <1>7, <2>1, <2>2, RowsUnchanged DEF NInv, Mine
<1>8. CASE UNCHANGED vars
  <2>1. AssemblyStays
    BY <1>8 DEF AssemblyStays, vars, memory, Mem
  <2> QED BY <1>8, <2>1, QuietN DEF vars
<1> QED BY <1>1, <1>2, <1>3, <1>4, <1>5, <1>6, <1>7, <1>8 DEF Next

(* No assembled row waits for a nonce below its own that nobody uses. *)
THEOREM NoncesLeaveNoGap == Spec => []NoNonceGap
<1>1. NInv => NoNonceGap
  BY GapIsNoGap DEF NInv, RowN
<1> QED BY <1>1, InitNInv, NextNInv, Invariance, PTL DEF Spec

=============================================================================
