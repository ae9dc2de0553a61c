------------------------------ MODULE DaemonProofs ------------------------------
(***************************************************************************)
(* Proofs about Daemon, for any number of source rows, orders, users and   *)
(* failures.  The inductive invariant DInv is that of Collect, that of     *)
(* TxPipeline, and what holds the two together: an order and a row with    *)
(* the same number are the same record, and the check service is at the    *)
(* same point of a follow-up in both.                                      *)
(*                                                                         *)
(* CP and PP are Collect and TxPipeline again, with what is proved about   *)
(* them; the first lemmas say that they are the C and P of Daemon.         *)
(***************************************************************************)
EXTENDS Daemon, FiniteSetTheorems, TLAPS

CP == INSTANCE CollectProofs WITH pc <- cpc
PP == INSTANCE TxPipelineProofs WITH SrcTask <- TaskId

-----------------------------------------------------------------------------
(* The two readings of each component. *)

LEMMA SameCollect ==
  /\ C!Init <=> CP!Init
  /\ C!vars = CP!vars
  /\ C!TypeOK <=> CP!TypeOK
BY Zenon DEF
   C!Absent, CP!Absent, C!TxReadyCollectState, CP!TxReadyCollectState,
   C!TxCollectingState, CP!TxCollectingState, C!GasTx, CP!GasTx, C!CollectTx,
   CP!CollectTx, C!MaxTxFee, CP!MaxTxFee, C!SrcRow, CP!SrcRow, C!Merged,
   CP!Merged, C!Order, CP!Order, C!service, CP!service, C!checker, CP!checker,
   C!vars, CP!vars, C!NoRow, CP!NoRow, C!TypeOK, CP!TypeOK, C!Init, CP!Init

LEMMA SameCollectSteps == C!Next <=> CP!Next
BY Zenon DEF
   C!Absent, CP!Absent, C!TxReadyCollectState, CP!TxReadyCollectState,
   C!TxCollectingState, CP!TxCollectingState, C!GasTx, CP!GasTx, C!CollectTx,
   CP!CollectTx, C!TopUp, CP!TopUp, C!MaxTxFee, CP!MaxTxFee, C!service,
   CP!service, C!checker, CP!checker, C!NoRow, CP!NoRow, C!Fault, CP!Fault,
   C!Crawl, CP!Crawl, C!OrderMined, CP!OrderMined, C!Tick, CP!Tick,
   C!Crashable, CP!Crashable, C!Crash, CP!Crash, C!Ready, CP!Ready, C!Load,
   CP!Load, C!SameGroup, CP!SameGroup, C!MergeInto, CP!MergeInto, C!Merge,
   CP!Merge, C!Enough, CP!Enough, C!Due, CP!Due, C!Query, CP!Query,
   C!QueryFails, CP!QueryFails, C!NextOfBatch, CP!NextOfBatch, C!NewOrder,
   CP!NewOrder, C!Handle, CP!Handle, C!HandleFails, CP!HandleFails,
   C!InsertFails, CP!InsertFails, C!Mark, CP!Mark, C!MarkFails, CP!MarkFails,
   C!CheckReads, CP!CheckReads, C!CheckInserts, CP!CheckInserts,
   C!CheckInsertFails, CP!CheckInsertFails, C!CheckEnds, CP!CheckEnds,
   C!CheckEndFails, CP!CheckEndFails, C!Next, CP!Next, C!Max, CP!Max,
   C!MapThenFoldSet, CP!MapThenFoldSet, C!FoldLeft, CP!FoldLeft, C!SetToSeqs,
   CP!SetToSeqs, C!Cardinality, CP!Cardinality, C!IsFiniteSet, CP!IsFiniteSet

LEMMA SamePipeline ==
  /\ P!Init <=> PP!Init
  /\ P!Next <=> PP!Next
  /\ P!vars = PP!vars
  /\ P!TypeOK <=> PP!TypeOK
  /\ \A t : P!InsertCollectSubTx(t) <=> PP!InsertCollectSubTx(t)
BY Zenon DEF
   P!Addr, PP!Addr, P!Absent, PP!Absent, P!TxInitState, PP!TxInitState,
   P!TxAssmblyState, PP!TxAssmblyState, P!TxSignState, PP!TxSignState,
   P!TxBroadcastState, PP!TxBroadcastState, P!TxCheckState, PP!TxCheckState,
   P!TxEndState, PP!TxEndState, P!GasTx, PP!GasTx, P!CollectTx, PP!CollectTx,
   P!NoSig, PP!NoSig, P!Sig, PP!Sig, P!Row, PP!Row, P!NoRow, PP!NoRow,
   P!NewRow, PP!NewRow, P!From, PP!From, P!Tx, PP!Tx, P!TxOf, PP!TxOf, P!Stage,
   PP!Stage, P!Service, PP!Service, P!memory, PP!memory, P!node, PP!node,
   P!vars, PP!vars, P!TypeOK, PP!TypeOK, P!IdlePc, PP!IdlePc, P!IdleTodo,
   PP!IdleTodo, P!IdleAt, PP!IdleAt, P!Init, PP!Init, P!Goto, PP!Goto, P!Fault,
   PP!Fault, P!Tick, PP!Tick, P!Crash, PP!Crash, P!Enqueue, PP!Enqueue,
   P!CollectDone, PP!CollectDone, P!StateOf, PP!StateOf, P!FirstStep,
   PP!FirstStep, P!Mem, PP!Mem, P!Opened, PP!Opened, P!Query, PP!Query,
   P!QueryFails, PP!QueryFails, P!Take, PP!Take, P!Release, PP!Release,
   P!NextState, PP!NextState, P!XormUpdate, PP!XormUpdate, P!Commit, PP!Commit,
   P!CommitFails, PP!CommitFails, P!SentFrom, PP!SentFrom, P!SetNonce,
   PP!SetNonce, P!NonceFromTable, PP!NonceFromTable, P!NoNonceInTable,
   PP!NoNonceInTable, P!Slot, PP!Slot, P!IsPendingNonce, PP!IsPendingNonce,
   P!Candidates, PP!Candidates, P!NonceFromNode, PP!NonceFromNode, P!SetSig,
   PP!SetSig, P!SignTx, PP!SignTx, P!SignRefused, PP!SignRefused,
   P!BroadcastMem, PP!BroadcastMem, P!SignatureFits, PP!SignatureFits,
   P!CanAccept, PP!CanAccept, P!Sending, PP!Sending, P!SendAccepted,
   PP!SendAccepted, P!SendReplaces, PP!SendReplaces, P!SendRejected,
   PP!SendRejected, P!SendUnfunded, PP!SendUnfunded, P!SendLost, PP!SendLost,
   P!SendAnswerLost, PP!SendAnswerLost, P!SignatureRejected,
   PP!SignatureRejected, P!Mine, PP!Mine, P!CheckCollectTx, PP!CheckCollectTx,
   P!CheckGasTx, PP!CheckGasTx, P!CheckGasTxFails, PP!CheckGasTxFails,
   P!InsertCollectSubTx, PP!InsertCollectSubTx, P!InsertCollectSubTxFails,
   PP!InsertCollectSubTxFails, P!AssemblyStep, PP!AssemblyStep, P!SignStep,
   PP!SignStep, P!BroadcastStep, PP!BroadcastStep, P!CheckStep, PP!CheckStep,
   P!PassStep, PP!PassStep, P!Next, PP!Next

(* What the two assume about the constants. *)
LEMMA CollectAssumed ==
  /\ CP!IsFiniteSet(SrcId) /\ SrcId = 1..CP!Cardinality(SrcId)
  /\ Threshold \in [Token -> Nat]
  /\ MaxCnt \in Nat \ {0}
  /\ MaxFaults \in Nat
<1>1. \A S : CP!IsFiniteSet(S) = IsFiniteSet(S)
  BY DEF CP!IsFiniteSet, IsFiniteSet
<1>2. CP!Cardinality(SrcId) = Cardinality(SrcId)
  BY Zenon DEF CP!Cardinality, Cardinality
<1> QED
  BY <1>1, <1>2, DaemonAssumption

LEMMA PipelineAssumed ==
  /\ TaskId \subseteq TaskId
  /\ NoTask \notin TaskId
  /\ User # {}
  /\ Gas \notin User
  /\ MaxFaults \in Nat
BY DaemonAssumption

-----------------------------------------------------------------------------
(* The inductive invariant. *)

USE DEF C!Absent, C!TxReadyCollectState, C!TxCollectingState, C!GasTx, C!CollectTx,
        P!Absent, P!TxInitState, P!TxAssmblyState, P!TxSignState, P!TxBroadcastState,
        P!TxCheckState, P!TxEndState, P!GasTx, P!CollectTx,
        CP!Absent, CP!TxReadyCollectState, CP!TxCollectingState, CP!GasTx, CP!CollectTx,
        PP!Absent, PP!TxInitState, PP!TxAssmblyState, PP!TxSignState, PP!TxBroadcastState,
        PP!TxCheckState, PP!TxEndState, PP!GasTx, PP!CollectTx

(* Order i and row i are the same record of t_transaction_task. *)
RowsMatch ==
  /\ DOMAIN orders \subseteq TaskId
  /\ \A t \in TaskId :
       IF t > Len(orders)
       THEN row[t].state = P!Absent
       ELSE /\ row[t].type = orders[t].type /\ row[t].user = orders[t].user
            /\ orders[t].ended <=> row[t].state = P!TxEndState

(* The two services that both components know are at the same point in     *)
(* both; what Check commits, with an order in hand or without, is of the   *)
(* kind it should be.                                                      *)
PcMatch ==
  /\ pc["Collect"] = "idle" <=> cpc = "idle"
  /\ check # 0 => check = at["Check"] /\ pc["Check"] \in {"insert", "commit"}
  /\ pc["Check"] = "insert" => check # 0 /\ held # C!NoRow
  /\ pc["Check"] = "commit" =>
       IF check = 0
       THEN P!Mem("Check").type = P!CollectTx
       ELSE P!Mem("Check").type = P!GasTx /\ held = C!NoRow

DInv == CP!FInv /\ PP!IInv /\ RowsMatch /\ PcMatch

(* What the components' invariants say, in the terms of Daemon. *)
LEMMA CollectView ==
  ASSUME CP!FInv
  PROVE  /\ C!TypeOK
         /\ check # 0 => orders[check].type = C!GasTx /\ ~orders[check].ended
BY SameCollect DEF CP!FInv, CP!CInv, CP!FollowOK

LEMMA StageValues ==
  /\ P!StateOf["Assembly"] = 0
  /\ P!StateOf["Sign"] = 1
  /\ P!StateOf["Broadcast"] = 2
  /\ P!StateOf["Check"] = 3
BY DEF P!StateOf, P!Stage

LEMMA PipelineView ==
  ASSUME PP!IInv
  PROVE  /\ P!TypeOK
         /\ \A s \in P!Stage :
              pc[s] \in {"check", "insert", "commit"} =>
                /\ at[s] \in TaskId
                /\ row[at[s]].state = P!StateOf[s]
                /\ P!Mem(s) \in P!Row /\ row[at[s]] \in P!Row
                /\ P!Mem(s).type = row[at[s]].type
                /\ P!Mem(s).user = row[at[s]].user
         /\ \A x \in accepted :
              /\ x.task \in TaskId
              /\ row[x.task].state >= P!TxSignState
<1>1. P!TypeOK
  BY SamePipeline DEF PP!IInv
<1>2. ASSUME NEW s \in P!Stage, pc[s] \in {"check", "insert", "commit"}
      PROVE  /\ at[s] \in TaskId
             /\ row[at[s]].state = P!StateOf[s]
             /\ P!Mem(s) \in P!Row /\ row[at[s]] \in P!Row
             /\ P!Mem(s).type = row[at[s]].type
             /\ P!Mem(s).user = row[at[s]].user
  <2>1. s \in PP!Stage
    BY DEF P!Stage, PP!Stage
  <2>2. pc[s] \in PP!Working(s)
    <3>1. pc[s] \in {"idle", "query", "next"} \cup PP!Working(s)
      BY <2>1 DEF PP!IInv, PP!PassOK
    <3> QED
      BY <1>2, <3>1
  <2>3. /\ at[s] \in TaskId
        /\ row[at[s]] \in PP!Row /\ PP!Mem(s) \in PP!Row
        /\ row[at[s]].state = PP!StateOf[s]
        /\ PP!Mem(s).type = row[at[s]].type
        /\ PP!Mem(s).user = row[at[s]].user
    BY <2>1, <2>2, PP!HandledRow, PipelineAssumed
  <2>4. /\ PP!Mem(s) = P!Mem(s)
        /\ PP!StateOf = P!StateOf
        /\ PP!Row = P!Row
    BY Zenon DEF PP!Mem, P!Mem, PP!StateOf, P!StateOf, PP!Stage, P!Stage, PP!Row, P!Row, PP!Sig, P!Sig
  <2> QED
    BY <2>3, <2>4
<1>3. ASSUME NEW x \in accepted
      PROVE  x.task \in TaskId /\ row[x.task].state >= 2
  BY <1>1, <1>3 DEF PP!IInv, PP!NodeOK, P!TypeOK, P!Tx
<1> QED
  BY <1>1, <1>2, <1>3

(* Ids are numbers from 1 on. *)
LEMMA IdsAreNumbered ==
  /\ TaskId = 1..Cardinality(TaskId)
  /\ Cardinality(TaskId) \in Nat
BY DaemonAssumption, FS_CardinalityType

(* The id of an order is that of its row, and a row that is in the table   *)
(* has its order.                                                          *)
LEMMA OrderOfRow ==
  ASSUME DInv, NEW t \in TaskId, row[t].state # P!Absent
  PROVE  /\ t \in DOMAIN orders
         /\ row[t].type = orders[t].type
         /\ row[t].user = orders[t].user
         /\ orders[t].ended <=> row[t].state = P!TxEndState
<1>1. orders \in Seq(C!Order)
  BY CollectView DEF DInv, C!TypeOK
<1>2. t \in 1..Len(orders)
  BY <1>1, IdsAreNumbered DEF DInv, RowsMatch
<1> QED
  BY <1>1, <1>2, IdsAreNumbered DEF DInv, RowsMatch

-----------------------------------------------------------------------------
(* Each step is one of Collect, or none, or a failure elsewhere. *)

LEMMA StepOfCollect ==
  ASSUME DInv, Next
  PROVE  \/ C!Next
         \/ UNCHANGED C!vars
         \/ /\ UNCHANGED <<src, orders, funds, C!service, C!checker, lost>>
            /\ faults < MaxFaults /\ faults' = faults + 1
<1> USE DEF C!vars, C!service, C!checker, collect
<1>1. CASE Tick
  BY <1>1 DEF Tick, C!Next
<1>2. CASE Crash
  BY <1>2 DEF Crash, C!Next, P!Crash, P!Fault
<1>3. ASSUME NEW r \in SrcId, NEW u \in User, NEW k \in Token, NEW c \in 1..MaxCnt,
             Crawl(r, u, k, c)
      PROVE  C!Next
  BY <1>3 DEF Crawl, C!Next
<1>4. CASE CollectStep \/ CollectFails
  BY <1>4 DEF CollectStep, CollectFails, Handle, C!Next
<1>5. ASSUME NEW s \in P!Stage, PassStep(s) \/ QueryFails(s) \/ CommitFails(s)
      PROVE  \/ C!Next
             \/ UNCHANGED C!vars
             \/ /\ UNCHANGED <<src, orders, funds, C!service, C!checker, lost>>
                /\ faults < MaxFaults /\ faults' = faults + 1
  BY <1>5 DEF PassStep, QueryFails, CommitFails, Query, Take, Commit, C!Next, P!Query, P!Take,
              P!Commit, P!QueryFails, P!CommitFails, P!Fault
<1>6. CASE AssemblyStep \/ SignStep \/ SignRefused
  BY <1>6 DEF AssemblyStep, SignStep, SignRefused, P!AssemblyStep, P!NonceFromTable,
              P!NoNonceInTable, P!NonceFromNode, P!SignTx, P!SignRefused, P!Fault
<1>7. CASE BroadcastStep \/ SendLost \/ SendAnswerLost
  BY <1>7 DEF BroadcastStep, SendAccepted, SendReplaces, SendUnfunded, NotSent, SendLost,
              SendAnswerLost, P!SendAccepted, P!SendReplaces, P!SendUnfunded, P!SendRejected,
              P!SignatureRejected, P!SendLost, P!SendAnswerLost, P!Fault
<1>8. CASE CheckGasTx
  <2>1. "Check" \in P!Stage /\ pc["Check"] = "check"
    BY <1>8 DEF CheckGasTx, P!CheckGasTx, P!Stage
  <2>2. at["Check"] \in TaskId /\ row[at["Check"]].state = 3
    BY <2>1, PipelineView, StageValues DEF DInv
  <2>3. at["Check"] \in DOMAIN orders
    BY <2>2, OrderOfRow
  <2> QED
    BY <1>8, <2>3 DEF CheckGasTx, C!Next
<1>9. CASE CheckCollectTx \/ InsertCollectSubTx \/ CheckGasTxFails \/ InsertCollectSubTxFails
  BY <1>9 DEF CheckCollectTx, InsertCollectSubTx, CheckGasTxFails, InsertCollectSubTxFails,
              P!CheckCollectTx, P!CheckGasTxFails, P!Fault, C!Next
<1>10. ASSUME NEW a \in P!Addr, Mine(a)
       PROVE  C!Next
  <2>1. PICK x \in accepted : C!OrderMined(x.task)
    BY <1>10 DEF Mine, P!Slot
  <2>2. x.task \in TaskId /\ row[x.task].state >= 2
    BY PipelineView DEF DInv
  <2>3. x.task \in DOMAIN orders
    BY <2>2, OrderOfRow
  <2> QED
    BY <2>1, <2>3 DEF C!Next
<1> QED
  BY <1>1, <1>2, <1>3, <1>4, <1>5, <1>6, <1>7, <1>8, <1>9, <1>10 DEF Next, CheckStep

LEMMA FInvStep ==
  ASSUME DInv, [Next]_vars
  PROVE  CP!FInv'
<1>1. \/ CP!Next
      \/ UNCHANGED CP!vars
      \/ /\ UNCHANGED <<src, orders, funds, CP!service, CP!checker, lost>>
         /\ faults < MaxFaults /\ faults' = faults + 1
  <2>1. CASE Next
    BY <2>1, StepOfCollect, SameCollect, SameCollectSteps
       DEF C!service, C!checker, CP!service, CP!checker, C!vars, CP!vars
  <2>2. CASE UNCHANGED vars
    BY <2>2 DEF vars, collect, CP!vars, CP!service, CP!checker
  <2> QED
    BY <2>1, <2>2
<1>2. CP!FInv
  BY DEF DInv
<1>3. CASE [CP!Next]_(CP!vars)
  BY <1>2, <1>3, CP!FInvNext, CollectAssumed
<1>4. CASE /\ UNCHANGED <<src, orders, funds, CP!service, CP!checker, lost>>
           /\ faults < MaxFaults /\ faults' = faults + 1
  BY <1>2, <1>4, CP!FailureElsewhere, CollectAssumed
<1> QED
  BY <1>1, <1>3, <1>4

-----------------------------------------------------------------------------
(* Each step is one of TxPipeline, or none, or a step of the collect       *)
(* service of which the pipeline sees at most that it returns.             *)

CollectMoves ==
  /\ \E l \in {"idle", "query"} : P!Goto("Collect", l)
  /\ UNCHANGED <<row, todo, at, P!node, spawned>>
  /\ faults' \in 0..MaxFaults

(* The order the collect service inserts is an order. *)
LEMMA InsertedOrder ==
  ASSUME DInv, Next, NEW o, orders' = Append(orders, o)
  PROVE  /\ orders'[NextId] \in C!Order
         /\ orders'[NextId] = o
         /\ Len(orders') = NextId
         /\ \A i \in DOMAIN orders : orders'[i] = orders[i]
<1>1. orders \in Seq(C!Order)
  BY CollectView DEF DInv, C!TypeOK
<1>2. orders' \in Seq(C!Order)
  <2>1. CP!FInv' => CP!TypeOK'
    BY DEF CP!FInv, CP!CInv
  <2>2. C!Order = CP!Order
    BY Zenon DEF C!Order, CP!Order
  <2> QED
    BY <2>1, <2>2, FInvStep DEF CP!TypeOK
<1> QED
  BY <1>1, <1>2 DEF NextId

LEMMA StepOfPipeline ==
  ASSUME DInv, Next
  PROVE  \/ P!Next
         \/ UNCHANGED P!vars
         \/ CollectMoves
         \/ \E t \in TaskId : P!InsertCollectSubTx(t)
<1>0. /\ faults \in 0..MaxFaults /\ faults \in Nat /\ MaxFaults \in Nat
      /\ P!Fault => faults' \in 0..MaxFaults
      /\ C!Fault => faults' \in 0..MaxFaults
  BY CollectView, DaemonAssumption DEF DInv, C!TypeOK, C!Fault, P!Fault
<1>1. CASE Tick
  BY <1>1 DEF Tick, P!Next
<1>2. CASE Crash
  BY <1>2 DEF Crash, P!Next
<1>3. ASSUME NEW r \in SrcId, NEW u \in User, NEW k \in Token, NEW c \in 1..MaxCnt,
             Crawl(r, u, k, c)
      PROVE  UNCHANGED P!vars
  BY <1>3 DEF Crawl, C!Crawl, pipeline, P!vars, P!memory, P!node
<1>4. CASE (C!Query \/ C!Mark) /\ Follows
  BY <1>0, <1>4 DEF C!Query, C!Mark, Follows, CollectMoves, P!Goto, P!node
<1>5. CASE CollectFails
  BY <1>0, <1>5 DEF CollectFails, C!QueryFails, C!HandleFails, C!InsertFails, C!MarkFails,
                    Follows, CollectMoves, P!Goto, P!node
<1>6. CASE Handle
  <2>1. orders'[NextId] \in C!Order
    BY <1>6, InsertedOrder DEF Handle, C!Handle
  <2>2. orders'[NextId].type \in {P!GasTx, P!CollectTx} /\ orders'[NextId].user \in User
    BY <2>1 DEF C!Order
  <2> QED
    BY <1>6, <2>2 DEF Handle, P!Next
<1>7. ASSUME NEW s \in P!Stage, PassStep(s) \/ QueryFails(s) \/ CommitFails(s)
      PROVE  P!Next
  BY <1>7 DEF PassStep, QueryFails, CommitFails, Query, Take, Commit, P!Next, P!PassStep
<1>8. CASE AssemblyStep \/ SignStep \/ SignRefused
  BY <1>8 DEF AssemblyStep, SignStep, SignRefused, P!Next, P!SignStep
<1>9. CASE BroadcastStep \/ SendLost \/ SendAnswerLost
  BY <1>9 DEF BroadcastStep, SendAccepted, SendReplaces, SendUnfunded, NotSent, SendLost,
              SendAnswerLost, P!Next, P!BroadcastStep
<1>10. CASE \/ CheckCollectTx \/ CheckGasTx \/ CheckGasTxFails \/ InsertCollectSubTxFails
  BY <1>10 DEF CheckCollectTx, CheckGasTx, CheckGasTxFails, InsertCollectSubTxFails, P!Next,
               P!CheckStep
<1>11. CASE InsertCollectSubTx
  BY <1>11 DEF InsertCollectSubTx
<1>12. ASSUME NEW a \in P!Addr, Mine(a)
       PROVE  P!Next
  BY <1>12 DEF Mine, P!Next
<1> QED
  BY <1>1, <1>2, <1>3, <1>4, <1>5, <1>6, <1>7, <1>8, <1>9, <1>10, <1>11, <1>12
     DEF Next, CheckStep, CollectStep

LEMMA IInvStep ==
  ASSUME DInv, [Next]_vars
  PROVE  PP!IInv'
<1>1. PP!IInv
  BY DEF DInv
<1>2. CASE CollectMoves
  <2>1. PICK l \in {"idle", "query"} : P!Goto("Collect", l)
    BY <1>2 DEF CollectMoves
  <2>2. /\ PP!Goto("Collect", l)
        /\ UNCHANGED <<row, todo, at, PP!node, spawned>>
        /\ faults' \in 0..MaxFaults
    BY <1>2, <2>1 DEF CollectMoves, P!Goto, PP!Goto, P!node, PP!node
  <2> QED
    BY <1>1, <2>2, PP!CollectMoveIInv, PipelineAssumed
<1>3. ASSUME NEW t \in TaskId, P!InsertCollectSubTx(t)
      PROVE  PP!IInv'
  BY <1>1, <1>3, SamePipeline, PP!InsertCollectSubTxIInv, PipelineAssumed
<1>4. CASE P!Next \/ UNCHANGED P!vars
  <2>1. [PP!Next]_(PP!vars)
    BY <1>4, SamePipeline DEF P!vars, PP!vars, P!memory, PP!memory, P!node, PP!node
  <2> QED
    BY <1>1, <2>1, PP!NextIInv, PipelineAssumed
<1>5. UNCHANGED vars => UNCHANGED P!vars
  BY DEF vars, pipeline, P!vars, P!memory, P!node
<1> QED
  BY <1>2, <1>3, <1>4, <1>5, StepOfPipeline

-----------------------------------------------------------------------------
(* Each step keeps orders and rows the same records. *)

LEMMA RowsMatchIf ==
  ASSUME DInv, Len(orders') = Len(orders), DOMAIN orders' = DOMAIN orders,
         \A t \in TaskId :
           IF t > Len(orders)
           THEN row'[t].state = P!Absent
           ELSE /\ row'[t].type = orders'[t].type /\ row'[t].user = orders'[t].user
                /\ orders'[t].ended <=> row'[t].state = P!TxEndState
  PROVE  RowsMatch'
BY DEF DInv, RowsMatch

LEMMA RowsMatchInsert ==
  ASSUME DInv, Next, NEW o, orders' = Append(orders, o), ~o.ended, NextId \in TaskId,
         row' = [row EXCEPT ![NextId] = P!NewRow(o.type, o.user)]
  PROVE  RowsMatch'
<1>1. /\ orders' \in Seq(C!Order) /\ orders'[NextId] = o /\ Len(orders') = NextId
      /\ \A i \in DOMAIN orders : orders'[i] = orders[i]
      /\ orders \in Seq(C!Order) /\ row \in [TaskId -> P!Row]
  <2>1. CP!FInv' => CP!TypeOK'
    BY DEF CP!FInv, CP!CInv
  <2>2. C!Order = CP!Order
    BY Zenon DEF C!Order, CP!Order
  <2>3. orders' \in Seq(C!Order)
    BY <2>1, <2>2, FInvStep DEF CP!TypeOK
  <2>4. C!TypeOK /\ P!TypeOK
    BY CollectView, PipelineView DEF DInv
  <2> QED
    BY <2>3, <2>4, InsertedOrder DEF C!TypeOK, P!TypeOK
<1>2. NextId = Len(orders) + 1 /\ Len(orders) \in Nat
  BY <1>1 DEF NextId
<1>3. DOMAIN orders' \subseteq TaskId
  <2>1. DOMAIN orders' = 1..NextId
    BY <1>1
  <2> QED
    BY <1>2, <2>1, IdsAreNumbered
<1>4. ASSUME NEW t \in TaskId
      PROVE  IF t > Len(orders')
             THEN row'[t].state = P!Absent
             ELSE /\ row'[t].type = orders'[t].type /\ row'[t].user = orders'[t].user
                  /\ orders'[t].ended <=> row'[t].state = P!TxEndState
  <2>1. CASE t = NextId
    <3>1. row'[t] = P!NewRow(o.type, o.user)
      BY <1>1, <2>1
    <3>2. row'[t].type = o.type /\ row'[t].user = o.user /\ row'[t].state = 0
      BY <3>1 DEF P!NewRow
    <3> QED
      BY <1>1, <1>2, <2>1, <3>2
  <2>2. CASE t > NextId
    BY <1>1, <1>2, <2>2, IdsAreNumbered DEF DInv, RowsMatch
  <2>3. CASE t < NextId
    <3>1. t \in DOMAIN orders /\ ~(t > Len(orders)) /\ ~(t > Len(orders'))
      BY <1>1, <1>2, <2>3, IdsAreNumbered
    <3>2. row'[t] = row[t] /\ orders'[t] = orders[t]
      BY <1>1, <1>2, <2>3, <3>1
    <3> QED
      BY <3>1, <3>2 DEF DInv, RowsMatch
  <2> QED
    BY <1>2, <2>1, <2>2, <2>3, IdsAreNumbered
<1> QED
  BY <1>3, <1>4 DEF RowsMatch

(* What a stage does to the row it commits, and to nothing else. *)
LEMMA CommittedRow ==
  ASSUME DInv, NEW s \in P!Stage, P!Commit(s)
  PROVE  /\ at[s] \in TaskId
         /\ row[at[s]].state = P!StateOf[s]
         /\ row'[at[s]].type = row[at[s]].type
         /\ row'[at[s]].user = row[at[s]].user
         /\ row'[at[s]].state = P!NextState(s, P!Mem(s))
         /\ P!Mem(s).type = row[at[s]].type
         /\ \A t \in TaskId : t # at[s] => row'[t] = row[t]
<1>1. /\ at[s] \in TaskId
      /\ row[at[s]].state = P!StateOf[s]
      /\ P!Mem(s) \in P!Row /\ row[at[s]] \in P!Row
      /\ P!Mem(s).type = row[at[s]].type
      /\ P!Mem(s).user = row[at[s]].user
      /\ row \in [TaskId -> P!Row]
  BY PipelineView DEF DInv, P!Commit, P!TypeOK
<1> DEFINE new == [P!Mem(s) EXCEPT !.state = P!NextState(s, P!Mem(s))]
<1>2. P!NextState(s, P!Mem(s)) \in 1..5
  BY <1>1 DEF P!NextState, P!Stage
<1>3. /\ new.type = P!Mem(s).type /\ new.user = P!Mem(s).user
      /\ new.state = P!NextState(s, P!Mem(s))
  BY <1>1 DEF P!Row
<1>4. row' = [row EXCEPT ![at[s]] = P!XormUpdate(row[at[s]], new)]
  BY DEF P!Commit
<1> HIDE DEF new
<1>5. row'[at[s]] = P!XormUpdate(row[at[s]], new)
  BY <1>1, <1>4
<1>6. /\ row'[at[s]].type = row[at[s]].type
      /\ row'[at[s]].user = row[at[s]].user
      /\ row'[at[s]].state = P!NextState(s, P!Mem(s))
  BY <1>1, <1>2, <1>3, <1>5 DEF P!XormUpdate
<1> QED
  BY <1>1, <1>4, <1>6

LEMMA RowsMatchCommit ==
  ASSUME DInv, NEW s \in P!Stage, Commit(s)
  PROVE  RowsMatch'
<1> DEFINE t == at[s]
<1>1. /\ t \in TaskId
      /\ row[t].state = P!StateOf[s]
      /\ row'[t].type = row[t].type
      /\ row'[t].user = row[t].user
      /\ row'[t].state = P!NextState(s, P!Mem(s))
      /\ P!Mem(s).type = row[t].type
      /\ \A u \in TaskId : u # t => row'[u] = row[u]
  BY CommittedRow DEF Commit
<1>2. P!StateOf[s] \in 0..3
  BY StageValues DEF P!Stage
<1>3. /\ t \in DOMAIN orders
      /\ row[t].type = orders[t].type /\ row[t].user = orders[t].user
      /\ ~orders[t].ended
  BY <1>1, <1>2, OrderOfRow
<1>4. orders \in Seq(C!Order)
  BY CollectView DEF DInv, C!TypeOK
<1>5. CASE s = "Check" /\ check # 0
  <2>1. /\ check = t /\ P!Mem(s).type = 0
        /\ orders' = [orders EXCEPT ![t].ended = TRUE]
    BY <1>5 DEF DInv, PcMatch, Commit, C!CheckEnds, P!Commit
  <2>2. row'[t].state = 5
    BY <1>1, <1>5, <2>1 DEF P!NextState
  <2>3. /\ orders'[t].ended /\ orders'[t].type = orders[t].type /\ orders'[t].user = orders[t].user
        /\ \A u \in DOMAIN orders : u # t => orders'[u] = orders[u]
        /\ DOMAIN orders' = DOMAIN orders /\ Len(orders') = Len(orders)
    <3>1. orders[t] \in C!Order
      BY <1>3, <1>4
    <3> QED
      BY <1>3, <1>4, <2>1, <3>1 DEF C!Order
  <2>4. ASSUME NEW u \in TaskId
        PROVE  IF u > Len(orders)
               THEN row'[u].state = P!Absent
               ELSE /\ row'[u].type = orders'[u].type /\ row'[u].user = orders'[u].user
                    /\ orders'[u].ended <=> row'[u].state = P!TxEndState
    <3>1. CASE u = t
      <4>1. ~(t > Len(orders))
        BY <1>3, <1>4
      <4> QED
        BY <1>1, <1>3, <2>2, <2>3, <3>1, <4>1
    <3>2. CASE u # t
      <4>1. ~(u > Len(orders)) => u \in DOMAIN orders
        BY <1>4, IdsAreNumbered
      <4> QED
        BY <1>1, <2>3, <3>2, <4>1 DEF DInv, RowsMatch
    <3> QED
      BY <3>1, <3>2
  <2> QED
    BY <2>3, <2>4, RowsMatchIf
<1>6. CASE ~(s = "Check" /\ check # 0)
  <2>1. UNCHANGED orders
    BY <1>6 DEF Commit, collect
  <2>2. row'[t].state \in 1..4
    <3>1. s = "Check" => P!Mem(s).type = 1
      BY <1>6 DEF DInv, PcMatch, Commit, P!Commit
    <3> QED
      BY <1>1, <3>1 DEF P!NextState, P!Stage
  <2>3. ASSUME NEW u \in TaskId
        PROVE  IF u > Len(orders)
               THEN row'[u].state = P!Absent
               ELSE /\ row'[u].type = orders'[u].type /\ row'[u].user = orders'[u].user
                    /\ orders'[u].ended <=> row'[u].state = P!TxEndState
    <3>1. CASE u = t
      <4>1. ~(t > Len(orders))
        BY <1>3, <1>4
      <4> QED
        BY <1>1, <1>3, <2>1, <2>2, <3>1, <4>1
    <3>2. CASE u # t
      BY <1>1, <2>1, <3>2 DEF DInv, RowsMatch
    <3> QED
      BY <3>1, <3>2
  <2> QED
    BY <2>1, <2>3, RowsMatchIf
<1> QED
  BY <1>5, <1>6

LEMMA RowsMatchMined ==
  ASSUME DInv, NEW a \in P!Addr, Mine(a)
  PROVE  RowsMatch'
<1>1. PICK x \in accepted : C!OrderMined(x.task)
  BY DEF Mine, P!Slot
<1>2. UNCHANGED row
  BY DEF Mine, P!Mine
<1>3. orders \in Seq(C!Order)
  BY CollectView DEF DInv, C!TypeOK
<1>4. orders' = [orders EXCEPT ![x.task].paid = TRUE]
  BY <1>1 DEF C!OrderMined
<1>5. /\ DOMAIN orders' = DOMAIN orders /\ Len(orders') = Len(orders)
      /\ \A i \in DOMAIN orders : /\ orders'[i].type = orders[i].type
                                  /\ orders'[i].user = orders[i].user
                                  /\ orders'[i].ended = orders[i].ended
  <2>1. \A i \in DOMAIN orders : orders[i] \in C!Order
    BY <1>3
  <2> QED
    BY <1>3, <1>4, <2>1 DEF C!Order
<1>6. \A t \in TaskId : ~(t > Len(orders)) => t \in DOMAIN orders
  BY <1>3, IdsAreNumbered
<1> QED
  BY <1>2, <1>5, <1>6, RowsMatchIf DEF DInv, RowsMatch

(* Every other step leaves the two tables alone. *)
LEMMA TableSteps ==
  ASSUME Next
  PROVE  \/ UNCHANGED <<orders, row>>
         \/ Handle
         \/ InsertCollectSubTx
         \/ \E s \in P!Stage : Commit(s)
         \/ \E a \in P!Addr : Mine(a)
<1>1. ASSUME NEW s \in P!Stage, PassStep(s) \/ QueryFails(s) \/ CommitFails(s)
      PROVE  UNCHANGED <<orders, row>> \/ Commit(s)
  BY <1>1 DEF PassStep, QueryFails, CommitFails, Query, Take, collect, P!Query, P!Take,
              P!QueryFails, P!CommitFails, C!CheckEndFails
<1>2. CASE \/ Tick \/ Crash
           \/ \E r \in SrcId, u \in User, k \in Token, c \in 1..MaxCnt : Crawl(r, u, k, c)
  BY <1>2 DEF Tick, Crash, Crawl, collect, pipeline, C!Tick, P!Tick, C!Crash, P!Crash, C!Crawl
<1>3. CASE CollectStep \/ CollectFails
  BY <1>3 DEF CollectStep, CollectFails, C!Query, C!Mark, C!QueryFails, C!HandleFails,
              C!InsertFails, C!MarkFails, Follows
<1>4. CASE AssemblyStep \/ SignStep \/ SignRefused
  BY <1>4 DEF AssemblyStep, SignStep, SignRefused, collect, P!AssemblyStep, P!NonceFromTable,
              P!NoNonceInTable, P!NonceFromNode, P!SignTx, P!SignRefused
<1>5. CASE BroadcastStep \/ SendLost \/ SendAnswerLost
  BY <1>5 DEF BroadcastStep, SendAccepted, SendReplaces, SendUnfunded, NotSent, SendLost,
              SendAnswerLost, collect, P!SendAccepted, P!SendReplaces, P!SendUnfunded,
              P!SendRejected, P!SignatureRejected, P!SendLost, P!SendAnswerLost
<1>6. CASE CheckCollectTx \/ CheckGasTx \/ CheckGasTxFails \/ InsertCollectSubTxFails
  BY <1>6 DEF CheckCollectTx, CheckGasTx, CheckGasTxFails, InsertCollectSubTxFails, collect,
              P!CheckCollectTx, P!CheckGasTx, P!CheckGasTxFails, P!InsertCollectSubTxFails,
              C!CheckReads, C!CheckInsertFails
<1> QED
  BY <1>1, <1>2, <1>3, <1>4, <1>5, <1>6 DEF Next, CheckStep

LEMMA RowsMatchStep ==
  ASSUME DInv, [Next]_vars
  PROVE  RowsMatch'
<1>1. CASE UNCHANGED <<orders, row>>
  BY <1>1 DEF DInv, RowsMatch
<1>2. CASE Next /\ Handle
  <2>1. /\ orders' = Append(orders, C!NewOrder(Head(batch)))
        /\ NextId \in TaskId
        /\ row' = [row EXCEPT ![NextId] =
                     P!NewRow(orders'[NextId].type, orders'[NextId].user)]
    BY <1>2 DEF Handle, C!Handle, P!Enqueue
  <2>2. orders'[NextId] = C!NewOrder(Head(batch))
    BY <1>2, <2>1, InsertedOrder
  <2>3. ~C!NewOrder(Head(batch)).ended
    BY DEF C!NewOrder
  <2> QED
    BY <1>2, <2>1, <2>2, <2>3, RowsMatchInsert
<1>3. CASE Next /\ InsertCollectSubTx
  <2> DEFINE o == [type |-> C!CollectTx, by |-> "Check", user |-> orders[check].user,
                   token |-> held.token, amount |-> held.cnt, src |-> orders[check].src,
                   rows |-> orders[check].rows, paid |-> FALSE, ended |-> FALSE]
  <2>1. orders' = Append(orders, o) /\ NextId \in TaskId
    BY <1>3 DEF InsertCollectSubTx, C!CheckInserts
  <2>2. /\ row' = [row EXCEPT ![NextId] = P!NewRow(P!CollectTx, P!Mem("Check").user)]
        /\ pc["Check"] = "insert" /\ "Check" \in P!Stage
    BY <1>3 DEF InsertCollectSubTx, P!InsertCollectSubTx, P!Stage
  <2>3. /\ at["Check"] \in TaskId /\ row[at["Check"]].state = 3
        /\ P!Mem("Check").user = row[at["Check"]].user
    BY <2>2, PipelineView, StageValues DEF DInv
  <2>4. check = at["Check"]
    BY <2>2 DEF DInv, PcMatch
  <2>5. P!Mem("Check").user = orders[check].user
    BY <2>3, <2>4, OrderOfRow
  <2>6. o.type = P!CollectTx /\ o.user = orders[check].user /\ ~o.ended
    OBVIOUS
  <2> HIDE DEF o
  <2> QED
    BY <1>3, <2>1, <2>2, <2>5, <2>6, RowsMatchInsert
<1>4. CASE Next /\ ~UNCHANGED <<orders, row>> /\ ~Handle /\ ~InsertCollectSubTx
  BY <1>4, TableSteps, RowsMatchCommit, RowsMatchMined
<1>5. UNCHANGED vars => UNCHANGED <<orders, row>>
  BY DEF vars, collect, pipeline
<1> QED
  BY <1>1, <1>2, <1>3, <1>4, <1>5

-----------------------------------------------------------------------------
(* Each step keeps the two services at one point. *)

CollectsMatch == pc["Collect"] = "idle" <=> cpc = "idle"

(* Nothing happens to the check service. *)
LEMMA PcMatchElsewhere ==
  ASSUME DInv, CollectsMatch', pc'["Check"] = pc["Check"], at'["Check"] = at["Check"],
         todo'["Check"] = todo["Check"], UNCHANGED <<check, held>>
  PROVE  PcMatch'
BY DEF DInv, PcMatch, CollectsMatch, P!Mem

(* The check service is between two rows, or has just read one. *)
LEMMA PcMatchBetween ==
  ASSUME CollectsMatch', check' = 0, pc'["Check"] \notin {"insert", "commit"}
  PROVE  PcMatch'
BY DEF PcMatch, CollectsMatch

(* The maps of the process's memory. *)
LEMMA MemoryTypes ==
  ASSUME DInv
  PROVE  /\ DOMAIN pc = P!Service
         /\ DOMAIN todo = P!Stage
         /\ DOMAIN at = P!Stage
         /\ pc = [s \in P!Service |-> pc[s]]
         /\ todo = [s \in P!Stage |-> todo[s]]
         /\ at = [s \in P!Stage |-> at[s]]
         /\ pc["Check"] \notin {"insert", "commit"} => check = 0
BY PipelineView DEF DInv, PcMatch, P!TypeOK

LEMMA PcMatchProcess ==
  ASSUME DInv, Tick \/ Crash
  PROVE  PcMatch'
<1>1. CASE Tick
  <2>1. pc["Check"] = "idle" /\ UNCHANGED check /\ cpc' = "query"
    BY <1>1 DEF Tick, C!Tick, C!checker, P!Tick, P!Service, P!Stage
  <2>2. pc'["Check"] = "query" /\ pc'["Collect"] = "query"
    BY <1>1 DEF Tick, P!Tick, P!Service, P!Stage
  <2>3. check' = 0
    BY <2>1, MemoryTypes
  <2> QED
    BY <2>1, <2>2, <2>3, PcMatchBetween DEF CollectsMatch
<1>2. CASE Crash
  <2>1. cpc' = "idle" /\ check' = 0
    BY <1>2 DEF Crash, C!Crashable, C!Crash, collect
  <2>2. pc'["Check"] = "idle" /\ pc'["Collect"] = "idle"
    BY <1>2 DEF Crash, P!Crash, P!IdlePc, P!Service, P!Stage
  <2> QED
    BY <2>1, <2>2, PcMatchBetween DEF CollectsMatch
<1> QED
  BY <1>1, <1>2

LEMMA PcMatchCollect ==
  ASSUME DInv, CollectStep \/ CollectFails
  PROVE  PcMatch'
<1>1. UNCHANGED <<check, held, at, todo>>
  BY DEF CollectStep, CollectFails, Follows, Handle, C!Query, C!Mark, C!QueryFails,
         C!HandleFails, C!InsertFails, C!MarkFails, C!Handle, C!checker, P!Enqueue, P!memory
<1>2. CASE Follows
  <2>1. pc' = [pc EXCEPT !["Collect"] = IF cpc' = "idle" THEN "idle" ELSE "query"]
    BY <1>2 DEF Follows
  <2>2. pc'["Check"] = pc["Check"] /\ CollectsMatch'
    BY <2>1, MemoryTypes DEF CollectsMatch, P!Service, P!Stage
  <2> QED
    BY <1>1, <2>2, PcMatchElsewhere
<1>3. CASE Handle
  <2>1. UNCHANGED pc /\ cpc = "handle" /\ cpc' = "mark"
    BY <1>3 DEF Handle, C!Handle, P!Enqueue, P!memory
  <2>2. CollectsMatch'
    BY <2>1 DEF CollectsMatch, DInv, PcMatch
  <2> QED
    BY <1>1, <2>1, <2>2, PcMatchElsewhere
<1> QED
  BY <1>2, <1>3 DEF CollectStep, CollectFails

(* A step of a stage: it goes on, the collect service does not. *)
LEMMA StageGoes ==
  ASSUME DInv, NEW s \in P!Stage, NEW l, P!Goto(s, l), UNCHANGED cpc
  PROVE  CollectsMatch' /\ pc'[s] = l /\ (s # "Check" => pc'["Check"] = pc["Check"])
BY MemoryTypes DEF P!Goto, CollectsMatch, DInv, PcMatch, P!Service, P!Stage

(* A stage other than Check does something to its own copies. *)
LEMMA PcMatchStage ==
  ASSUME DInv, NEW s \in P!Stage \ {"Check"}, NEW l, P!Goto(s, l),
         UNCHANGED <<cpc, check, held>>,
         UNCHANGED at \/ (\E t : at' = [at EXCEPT ![s] = t]),
         UNCHANGED todo \/ (\E t : todo' = [todo EXCEPT ![s] = t])
  PROVE  PcMatch'
<1>1. CollectsMatch' /\ pc'["Check"] = pc["Check"]
  BY StageGoes
<1>2. at'["Check"] = at["Check"] /\ todo'["Check"] = todo["Check"]
  BY MemoryTypes DEF P!Stage
<1> QED
  BY <1>1, <1>2, PcMatchElsewhere

LEMMA PcMatchRelease ==
  ASSUME DInv, NEW s \in P!Stage, P!Release(s), UNCHANGED cpc,
         IF s = "Check" THEN check' = 0 ELSE UNCHANGED <<check, held>>
  PROVE  PcMatch'
<1>1. PICK l \in {"idle", "next"} : P!Goto(s, l)
  BY DEF P!Release
<1>2. CASE s = "Check"
  BY <1>1, <1>2, StageGoes, PcMatchBetween
<1>3. CASE s # "Check"
  <2>1. \E t : at' = [at EXCEPT ![s] = t]
    BY DEF P!Release
  <2>2. \E t : todo' = [todo EXCEPT ![s] = t]
    <3>1. todo' = [todo EXCEPT ![s] = [todo[s] EXCEPT ![at[s]] = P!NoRow]]
      BY DEF P!Release
    <3> QED
      BY <3>1, Zenon
  <2> QED
    BY <1>1, <1>3, <2>1, <2>2, PcMatchStage
<1> QED
  BY <1>2, <1>3

(* The frame of a pass. *)
LEMMA PcMatchPass ==
  ASSUME DInv, NEW s \in P!Stage, PassStep(s) \/ QueryFails(s) \/ CommitFails(s)
  PROVE  PcMatch'
<1>1. CASE Query(s)
  <2>1. /\ pc[s] = "query" /\ UNCHANGED <<cpc, check, held, at>>
        /\ todo' = [todo EXCEPT ![s] =
              [t \in TaskId |-> IF row[t].state = P!StateOf[s] THEN row[t] ELSE P!NoRow]]
    BY <1>1 DEF Query, P!Query, collect
  <2>2. PICK l \in {"idle", "next"} : P!Goto(s, l)
    BY <1>1 DEF Query, P!Query
  <2>3. \E t : todo' = [todo EXCEPT ![s] = t]
    BY <2>1, Zenon
  <2>4. s = "Check" => PcMatch'
    BY <2>1, <2>2, MemoryTypes, StageGoes, PcMatchBetween
  <2>5. s # "Check" => PcMatch'
    BY <2>1, <2>2, <2>3, PcMatchStage
  <2> QED
    BY <2>4, <2>5
<1>2. CASE QueryFails(s)
  <2>1. pc[s] = "query" /\ P!Goto(s, "idle") /\ UNCHANGED <<cpc, check, held, at, todo>>
    BY <1>2 DEF QueryFails, P!QueryFails, collect
  <2>2. s = "Check" => PcMatch'
    BY <2>1, MemoryTypes, StageGoes, PcMatchBetween
  <2>3. s # "Check" => PcMatch'
    BY <2>1, PcMatchStage
  <2> QED
    BY <2>2, <2>3
<1>3. ASSUME NEW t \in TaskId, Take(s, t)
      PROVE  PcMatch'
  <2>1. /\ pc[s] = "next" /\ P!Goto(s, P!FirstStep[s]) /\ at' = [at EXCEPT ![s] = t]
        /\ UNCHANGED <<cpc, check, held, todo>>
    BY <1>3 DEF Take, P!Take, collect
  <2>2. s = "Check" => P!FirstStep[s] = "check"
    BY DEF P!FirstStep, P!Stage
  <2>3. s = "Check" => PcMatch'
    BY <2>1, <2>2, MemoryTypes, StageGoes, PcMatchBetween
  <2>4. s # "Check" => PcMatch'
    BY <2>1, PcMatchStage
  <2> QED
    BY <2>3, <2>4
<1>4. CASE Commit(s) \/ CommitFails(s)
  <2>1. P!Release(s)
    BY <1>4 DEF Commit, CommitFails, P!Commit, P!CommitFails
  <2>2. UNCHANGED cpc /\ IF s = "Check" THEN check' = 0 ELSE UNCHANGED <<check, held>>
    BY <1>4 DEF Commit, CommitFails, collect, C!CheckEnds, C!CheckEndFails, C!service
  <2> QED
    BY <2>1, <2>2, PcMatchRelease
<1> QED
  BY <1>1, <1>2, <1>3, <1>4 DEF PassStep

LEMMA PcMatchAssembly ==
  ASSUME DInv, AssemblyStep \/ SignStep \/ SignRefused
  PROVE  PcMatch'
<1>1. UNCHANGED <<cpc, check, held, at>>
  BY DEF AssemblyStep, SignStep, SignRefused, collect, P!AssemblyStep, P!NonceFromTable,
         P!NoNonceInTable, P!NonceFromNode, P!SignTx, P!SignRefused
<1>2. CASE AssemblyStep
  <2>1. \E l : P!Goto("Assembly", l)
    BY <1>2 DEF AssemblyStep, P!AssemblyStep, P!NonceFromTable, P!NoNonceInTable, P!NonceFromNode
  <2>2. UNCHANGED todo \/ (\E n : P!SetNonce(n))
    BY <1>2 DEF AssemblyStep, P!AssemblyStep, P!NonceFromTable, P!NoNonceInTable, P!NonceFromNode
  <2>3. ASSUME NEW n, P!SetNonce(n) PROVE \E t : todo' = [todo EXCEPT !["Assembly"] = t]
    <3>1. todo' = [todo EXCEPT !["Assembly"] =
                     [todo["Assembly"] EXCEPT ![at["Assembly"]] =
                        [todo["Assembly"][at["Assembly"]] EXCEPT !.nonce = n]]]
      BY <2>3 DEF P!SetNonce
    <3> QED
      BY <3>1, Zenon
  <2> QED
    BY <1>1, <2>1, <2>2, <2>3, PcMatchStage DEF P!Stage
<1>3. CASE SignStep \/ SignRefused
  <2>1. P!Goto("Sign", "commit") /\ \E kind : P!SetSig(kind)
    BY <1>3 DEF SignStep, SignRefused, P!SignTx, P!SignRefused
  <2>2. ASSUME NEW kind, P!SetSig(kind) PROVE \E t : todo' = [todo EXCEPT !["Sign"] = t]
    <3>1. todo' = [todo EXCEPT !["Sign"] =
                     [todo["Sign"] EXCEPT ![at["Sign"]] =
                        [todo["Sign"][at["Sign"]] EXCEPT !.sig =
                           [kind |-> kind, nonce |-> P!Mem("Sign").nonce]]]]
      BY <2>2 DEF P!SetSig
    <3> QED
      BY <3>1, Zenon
  <2> QED
    BY <1>1, <2>1, <2>2, PcMatchStage DEF P!Stage
<1> QED
  BY <1>2, <1>3

LEMMA PcMatchBroadcast ==
  ASSUME DInv, BroadcastStep \/ SendLost \/ SendAnswerLost
  PROVE  PcMatch'
<1>1. UNCHANGED <<cpc, check, held>> /\ "Broadcast" \in P!Stage
  BY DEF BroadcastStep, SendAccepted, SendReplaces, SendUnfunded, NotSent, SendLost,
         SendAnswerLost, collect, P!Stage
<1>2. CASE SendAccepted \/ SendReplaces
  <2>1. P!Goto("Broadcast", "commit") /\ UNCHANGED <<at, todo>>
    BY <1>2 DEF SendAccepted, SendReplaces, P!SendAccepted, P!SendReplaces
  <2> QED
    BY <1>1, <2>1, PcMatchStage
<1>3. CASE SendUnfunded \/ NotSent \/ SendLost \/ SendAnswerLost
  <2>1. P!Release("Broadcast")
    BY <1>3 DEF SendUnfunded, NotSent, SendLost, SendAnswerLost, P!SendUnfunded, P!SendRejected,
                P!SignatureRejected, P!SendLost, P!SendAnswerLost
  <2> QED
    BY <1>1, <2>1, PcMatchRelease
<1> QED
  BY <1>2, <1>3 DEF BroadcastStep

LEMMA PcMatchCheck ==
  ASSUME DInv, CheckStep \/ CheckGasTxFails \/ InsertCollectSubTxFails
  PROVE  PcMatch'
<1>0. "Check" \in P!Stage
  BY DEF P!Stage
<1>1. CASE CheckCollectTx
  <2>1. /\ pc["Check"] = "check" /\ P!Mem("Check").type = P!CollectTx
        /\ P!Goto("Check", "commit") /\ UNCHANGED <<cpc, check, at, todo>>
    BY <1>1 DEF CheckCollectTx, P!CheckCollectTx, collect
  <2>2. check' = 0
    BY <2>1, MemoryTypes
  <2>3. CollectsMatch' /\ pc'["Check"] = "commit"
    BY <1>0, <2>1, StageGoes
  <2> QED
    BY <2>1, <2>2, <2>3 DEF PcMatch, CollectsMatch, P!Mem
<1>2. CASE CheckGasTx
  <2>1. /\ pc["Check"] = "check" /\ P!Goto("Check", "insert") /\ UNCHANGED <<cpc, at>>
        /\ check' = at["Check"] /\ held' = src[1] /\ src[1].state # -1
    BY <1>2 DEF CheckGasTx, P!CheckGasTx, C!CheckReads, C!service
  <2>2. at["Check"] # 0
    BY <1>0, <2>1, PipelineView, IdsAreNumbered DEF DInv
  <2>3. held' # C!NoRow
    BY <2>1 DEF C!NoRow
  <2>4. CollectsMatch' /\ pc'["Check"] = "insert"
    BY <1>0, <2>1, StageGoes
  <2> QED
    BY <2>1, <2>2, <2>3, <2>4 DEF PcMatch, CollectsMatch
<1>3. CASE InsertCollectSubTx \/ InsertCollectSubTxFails
  <2>1. /\ pc["Check"] = "insert" /\ P!Goto("Check", "commit")
        /\ held' = C!NoRow /\ UNCHANGED <<cpc, check, at, todo>>
    BY <1>3 DEF InsertCollectSubTx, InsertCollectSubTxFails, P!InsertCollectSubTx,
                P!InsertCollectSubTxFails, C!CheckInserts, C!CheckInsertFails, C!service
  <2>2. check # 0 /\ check = at["Check"]
    BY <2>1 DEF DInv, PcMatch
  <2>3. P!Mem("Check").type = P!GasTx
    <3>1. /\ at["Check"] \in TaskId /\ row[at["Check"]].state = 3
          /\ P!Mem("Check").type = row[at["Check"]].type
      BY <1>0, <2>1, PipelineView, StageValues DEF DInv
    <3>2. orders[check].type = 0
      BY <2>2, CollectView DEF DInv
    <3> QED
      BY <2>2, <3>1, <3>2, OrderOfRow
  <2>4. CollectsMatch' /\ pc'["Check"] = "commit"
    BY <1>0, <2>1, StageGoes
  <2> QED
    BY <2>1, <2>2, <2>3, <2>4 DEF PcMatch, CollectsMatch, P!Mem
<1>4. CASE CheckGasTxFails
  <2>1. pc["Check"] = "check" /\ P!Release("Check") /\ UNCHANGED <<cpc, check>>
    BY <1>4 DEF CheckGasTxFails, P!CheckGasTxFails, collect
  <2> QED
    BY <1>0, <2>1, MemoryTypes, PcMatchRelease
<1> QED
  BY <1>1, <1>2, <1>3, <1>4 DEF CheckStep

LEMMA PcMatchStep ==
  ASSUME DInv, [Next]_vars
  PROVE  PcMatch'
<1>1. ASSUME NEW r \in SrcId, NEW u \in User, NEW k \in Token, NEW c \in 1..MaxCnt,
             Crawl(r, u, k, c)
      PROVE  UNCHANGED <<cpc, check, held, pc, at, todo>>
  BY <1>1 DEF Crawl, C!Crawl, C!service, C!checker, pipeline
<1>2. ASSUME NEW a \in P!Addr, Mine(a)
      PROVE  UNCHANGED <<cpc, check, held, pc, at, todo>>
  BY <1>2 DEF Mine, P!Mine, P!memory, C!OrderMined, C!service, C!checker
<1>3. CASE UNCHANGED <<cpc, check, held, pc, at, todo>>
  BY <1>3 DEF DInv, PcMatch, P!Mem
<1>4. UNCHANGED vars => UNCHANGED <<cpc, check, held, pc, at, todo>>
  BY DEF vars, collect, pipeline
<1> QED
  BY <1>1, <1>2, <1>3, <1>4, PcMatchProcess, PcMatchCollect, PcMatchPass, PcMatchAssembly,
     PcMatchBroadcast, PcMatchCheck DEF Next

-----------------------------------------------------------------------------
(* Theorems. *)

LEMMA DInvInit == Init => DInv
<1> SUFFICES ASSUME Init PROVE DInv
  OBVIOUS
<1>1. CP!FInv
  BY CP!FInvInit, CollectAssumed, SameCollect DEF Init
<1>2. PP!IInv
  BY PP!InitIInv, PipelineAssumed, SamePipeline DEF Init
<1>3. RowsMatch
  <2>1. orders = <<>> /\ row = [t \in TaskId |-> P!NoRow]
    BY DEF Init, C!Init, P!Init
  <2>2. \A t \in TaskId : row[t].state = P!Absent /\ t > Len(orders)
    BY <2>1, IdsAreNumbered DEF P!NoRow
  <2> QED
    BY <2>1, <2>2 DEF RowsMatch
<1>4. PcMatch
  BY DEF Init, C!Init, P!Init, P!IdlePc, P!Service, P!Stage, PcMatch
<1> QED
  BY <1>1, <1>2, <1>3, <1>4 DEF DInv

LEMMA DInvNext == DInv /\ [Next]_vars => DInv'
BY FInvStep, IInvStep, RowsMatchStep, PcMatchStep DEF DInv

(* DInv holds in every reachable state of the daemon. *)
THEOREM DInvHolds == Spec => []DInv
BY DInvInit, DInvNext, PTL DEF Spec

(* The two components' states are well formed and fit together: a collect  *)
(* order and a transaction row are one record of t_transaction_task.       *)
THEOREM DaemonTypesHold == Spec => []TypeOK
<1>1. DInv => TypeOK
  BY CollectView, PipelineView DEF DInv, RowsMatch, PcMatch, TypeOK
<1> QED
  BY <1>1, DInvHolds, PTL

(* Tokens that are shown as being collected have a transfer, or gas on its *)
(* way that will bring one, wherever the process stops (collect.go:275-288,*)
(* checkTx.go:92-98).                                                      *)
THEOREM NothingStrandedHolds == Spec => []NothingStranded
<1>1. DInv => NothingStranded
  <2> SUFFICES ASSUME DInv, NEW r \in SrcId, src[r].state = 1, r \notin lost
               PROVE  Transfers(r) \cup Pending(r) # {}
    BY DEF NothingStranded
  <2>1. PICK i \in DOMAIN orders :
          /\ r \in orders[i].rows
          /\ orders[i].type = 1 \/ (orders[i].type = 0 /\ ~orders[i].ended)
    BY CP!CollectingIsCarried, CollectAssumed DEF DInv
  <2> QED
    BY <2>1 DEF Transfers, Pending
<1> QED
  BY <1>1, DInvHolds, PTL

(* What the node is given of a row: at most one transaction for each       *)
(* transfer, and at most two transfers more for each failure than the one  *)
(* there should be (collect.go:281, checkTx.go:92, broadcast.go:102).      *)
THEOREM ExtraTransfersNeedFaultsHolds == Spec => []ExtraTransfersNeedFaults
<1>1. DInv => ExtraTransfersNeedFaults
  <2> SUFFICES ASSUME DInv, NEW r \in SrcId
               PROVE  Cardinality({x \in accepted : x.task \in TransfersFrom(r)})
                        <= 1 + 2 * faults
    BY DEF ExtraTransfersNeedFaults
  <2> DEFINE T == TransfersFrom(r)
             A == {x \in accepted : x.task \in T}
             f == [x \in A |-> x.task]
  <2>1. IsFiniteSet(T) /\ Cardinality(T) <= 1 + 2 * faults
    <3>1. T = {i \in DOMAIN orders : orders[i].type = CP!CollectTx /\ orders[i].src = r}
      BY DEF TransfersFrom
    <3>2. CP!IsFiniteSet(T) /\ CP!Cardinality(T) <= 1 + 2 * faults
      BY <3>1, CP!TransfersAreFew, CollectAssumed DEF DInv
    <3>3. CP!IsFiniteSet(T) = IsFiniteSet(T)
      BY DEF CP!IsFiniteSet, IsFiniteSet
    <3>4. CP!Cardinality(T) = Cardinality(T)
      BY Zenon DEF CP!Cardinality, Cardinality
    <3> QED
      BY <3>2, <3>3, <3>4
  <2>2. f \in Injection(A, T)
    <3>1. \A x, y \in A : x.task = y.task => x = y
      BY DEF DInv, PP!IInv, PP!NodeOK
    <3> QED
      BY <3>1 DEF Injection, IsInjective
  <2>3. Cardinality(A) <= Cardinality(T)
    BY <2>1, <2>2, FS_Injection
  <2>4. IsFiniteSet(A)
    BY <2>1, <2>2, FS_Injection
  <2>5. Cardinality(A) \in Nat /\ Cardinality(T) \in Nat /\ faults \in Nat
    <3>1. faults \in Nat
      BY CollectView, DaemonAssumption DEF DInv, C!TypeOK
    <3> QED
      BY <2>1, <2>4, <3>1, FS_CardinalityType
  <2> HIDE DEF A, T
  <2>6. Cardinality(A) <= 1 + 2 * faults
    BY <2>1, <2>3, <2>5
  <2> QED
    BY <2>6 DEF A, T
<1> QED
  BY <1>1, DInvHolds, PTL

=============================================================================
