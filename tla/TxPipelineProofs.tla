-------------------------- MODULE TxPipelineProofs --------------------------
(***************************************************************************)
(* Proofs about TxPipeline, for any set of rows and users and any number   *)
(* of failures.  The inductive invariant IInv says what every copy of a    *)
(* row in memory has in common with the row, and that every transaction    *)
(* the node has accepted is the one its row describes.                     *)
(***************************************************************************)
EXTENDS TxPipeline, TLAPS

USE DEF Absent, TxInitState, TxAssmblyState, TxSignState, TxBroadcastState,
        TxCheckState, TxEndState, GasTx, CollectTx

-----------------------------------------------------------------------------
(* Operators. *)

(* The states the four stages read, one by one (db/query.go:28-62). *)
LEMMA StateOfValues ==
  /\ StateOf \in [Stage -> 0..3]
  /\ StateOf["Assembly"] = 0
  /\ StateOf["Sign"] = 1
  /\ StateOf["Broadcast"] = 2
  /\ StateOf["Check"] = 3
BY DEF StateOf, Stage

(* No two stages read the same state, so no two ever hold the same row. *)
LEMMA StateOfInjective ==
  \A r, s \in Stage : StateOf[r] = StateOf[s] => r = s
BY StateOfValues DEF Stage

(* The filler row, a new row, and what an account is. *)
LEMMA NoRowType == NoRow \in Row /\ NoRow.state = -1
<1>1. (CHOOSE u \in User : TRUE) \in User
  BY PipelineAssumption
<1>2. NoSig \in Sig
  BY DEF NoSig, Sig
<1> QED BY <1>1, <1>2 DEF NoRow, Row

LEMMA NewRowType ==
  ASSUME NEW type \in {GasTx, CollectTx}, NEW u \in User
  PROVE  /\ NewRow(type, u) \in Row
         /\ NewRow(type, u).state = 0
         /\ NewRow(type, u).type = type
         /\ NewRow(type, u).nonce = 0
<1>1. NoSig \in Sig
  BY DEF NoSig, Sig
<1> QED BY <1>1 DEF NewRow, NoRow, Row

LEMMA FromType ==
  ASSUME NEW r \in Row
  PROVE  From(r) \in Addr
BY DEF From, Row, Addr

LEMMA TxOfType ==
  ASSUME NEW t \in TaskId, NEW r \in Row
  PROVE  TxOf(t, r) \in Tx
BY FromType DEF TxOf, Tx, Row

(* A committed row: what the stage says, over what was there. *)
LEMMA XormUpdateType ==
  ASSUME NEW old \in Row, NEW new \in Row, new.state # 0
  PROVE  /\ XormUpdate(old, new) \in Row
         /\ XormUpdate(old, new).state = new.state
         /\ XormUpdate(old, new).user = new.user
         /\ new.type = old.type => XormUpdate(old, new).type = old.type
         /\ new.nonce = old.nonce => XormUpdate(old, new).nonce = old.nonce
<1>1. XormUpdate(old, new) \in Row
  BY DEF XormUpdate, Row
<1>2. /\ XormUpdate(old, new).state = new.state
      /\ XormUpdate(old, new).user = new.user
      /\ new.type = old.type => XormUpdate(old, new).type = old.type
      /\ new.nonce = old.nonce => XormUpdate(old, new).nonce = old.nonce
  BY DEF XormUpdate
<1> QED BY <1>1, <1>2

LEMMA NextStateType ==
  ASSUME NEW s \in Stage, NEW r \in Row
  PROVE  /\ NextState(s, r) \in 1..5
         /\ s = "Assembly" => NextState(s, r) = 1
         /\ s = "Sign" => NextState(s, r) = 2
         /\ s = "Broadcast" => NextState(s, r) = 3
         /\ s = "Check" => NextState(s, r) = IF r.type = 0 THEN 5 ELSE 4
BY DEF NextState, Stage

-----------------------------------------------------------------------------
(* The inductive invariant. *)

(* The program points between taking a row and being through with it. *)
Working(s) ==
  CASE s = "Assembly"  -> {"nonce", "pending", "commit"}
    [] s = "Sign"      -> {"sign", "commit"}
    [] s = "Broadcast" -> {"send", "commit"}
    [] s = "Check"     -> {"check", "insert", "commit"}

(* Each service is at one of its own program points, and a stage holds a   *)
(* row exactly while it handles one.                                       *)
PassOK ==
  \A s \in Stage :
    /\ pc[s] \in {"idle", "query", "next"} \cup Working(s)
    /\ pc[s] \in Working(s) => at[s] \in TaskId /\ todo[s][at[s]].state # Absent
    /\ pc[s] \notin Working(s) => at[s] = NoTask

(* SnapshotFresh, and what of the row being handled is still as it was. *)
CopyOK ==
  \A s \in Stage, t \in TaskId :
    todo[s][t].state # Absent =>
      /\ row[t].state = StateOf[s]
      /\ todo[s][t].type = row[t].type
      /\ todo[s][t].user = row[t].user
      /\ s # "Assembly" => todo[s][t].nonce = row[t].nonce
      /\ t # at[s] => todo[s][t] = row[t]

(* The node knows a row only as the row describes itself, once signed. *)
NodeOK ==
  \A x \in accepted :
    /\ x = TxOf(x.task, row[x.task])
    /\ row[x.task].state >= TxSignState

(* What is recorded, or about to be recorded, as broadcast is known there. *)
SentOK ==
  /\ BroadcastWasAccepted
  /\ pc["Broadcast"] = "commit" =>
       TxOf(at["Broadcast"], row[at["Broadcast"]]) \in accepted

IInv == TypeOK /\ PassOK /\ CopyOK /\ NodeOK /\ SentOK

LEMMA WorkingValues ==
  /\ Working("Assembly") = {"nonce", "pending", "commit"}
  /\ Working("Sign") = {"sign", "commit"}
  /\ Working("Broadcast") = {"send", "commit"}
  /\ Working("Check") = {"check", "insert", "commit"}
BY DEF Working

(* The invariant holds initially. *)
LEMMA InitIInv == Init => IInv
<1> SUFFICES ASSUME Init PROVE IInv
  OBVIOUS
<1> USE NoRowType DEF Init, IdlePc, IdleTodo, IdleAt
<1>1. TypeOK
  BY PipelineAssumption DEF TypeOK
<1>2. PassOK
  BY WorkingValues DEF PassOK, Stage, Service
<1>3. CopyOK
  BY DEF CopyOK
<1>4. NodeOK
  BY DEF NodeOK
<1>5. SentOK
  BY DEF SentOK, BroadcastWasAccepted, Service, Stage
<1> QED BY <1>1, <1>2, <1>3, <1>4, <1>5 DEF IInv

(* A stage that is through with its row, the tables left alone. *)
LEMMA ReleaseIInv ==
  ASSUME IInv, NEW s \in Stage, pc[s] \in Working(s), Release(s),
         UNCHANGED <<row, node, spawned>>, faults' \in 0..MaxFaults
  PROVE  IInv'
<1> USE NoRowType DEF Release, Goto
<1>0. at[s] \in TaskId /\ at[s] # NoTask
  BY PipelineAssumption DEF IInv, PassOK
<1>1. TypeOK'
  BY <1>0 DEF IInv, TypeOK, node
<1>2. PassOK'
  <2> SUFFICES ASSUME NEW r \in Stage
               PROVE  /\ pc'[r] \in {"idle", "query", "next"} \cup Working(r)
                      /\ pc'[r] \in Working(r) => at'[r] \in TaskId /\ todo'[r][at'[r]].state # Absent
                      /\ pc'[r] \notin Working(r) => at'[r] = NoTask
    BY DEF PassOK
  <2>1. CASE r = s
    BY <2>1, WorkingValues DEF IInv, TypeOK, Stage, Service
  <2>2. CASE r # s
    BY <2>2 DEF IInv, TypeOK, PassOK, Stage, Service
  <2> QED BY <2>1, <2>2
<1>3. CopyOK'
  BY <1>0 DEF IInv, TypeOK, CopyOK
<1>4. NodeOK'
  BY DEF IInv, NodeOK, node
<1>5. SentOK'
  BY DEF IInv, TypeOK, SentOK, BroadcastWasAccepted, node, Stage, Service
<1> QED BY <1>1, <1>2, <1>3, <1>4, <1>5 DEF IInv

(* A stage that goes from one of its program points to another, all data   *)
(* left alone.                                                             *)
LEMMA MoveIInv ==
  ASSUME IInv, NEW s \in Stage, NEW l \in Working(s), pc[s] \in Working(s), Goto(s, l),
         s = "Broadcast" => l # "commit",
         UNCHANGED <<row, todo, at, node, spawned>>, faults' \in 0..MaxFaults
  PROVE  IInv'
<1> USE DEF Goto, node
<1>1. TypeOK'
  BY WorkingValues DEF IInv, TypeOK, Stage
<1>2. PassOK'
  BY WorkingValues DEF IInv, TypeOK, PassOK, Stage, Service
<1>3. CopyOK'
  BY DEF IInv, CopyOK
<1>4. NodeOK'
  BY DEF IInv, NodeOK
<1>5. SentOK'
  BY DEF IInv, TypeOK, SentOK, BroadcastWasAccepted, Stage, Service
<1> QED BY <1>1, <1>2, <1>3, <1>4, <1>5 DEF IInv

(* An id gets its row: nobody holds a copy of it, and the node knows       *)
(* nothing of it.                                                          *)
LEMMA InsertIInv ==
  ASSUME IInv, NEW t \in TaskId, NEW type \in {GasTx, CollectTx}, NEW u \in User,
         row[t].state = Absent, row' = [row EXCEPT ![t] = NewRow(type, u)],
         UNCHANGED <<pc, todo, at, node>>,
         spawned' \in [TaskId -> Nat], faults' \in 0..MaxFaults
  PROVE  IInv'
<1> USE DEF node
<1>1. NewRow(type, u) \in Row /\ NewRow(type, u).state = 0
  BY NewRowType
<1>2. TypeOK'
  BY <1>1 DEF IInv, TypeOK
<1>3. PassOK'
  BY DEF IInv, PassOK
<1>4. CopyOK'
  <2>1. ASSUME NEW s \in Stage, NEW r \in TaskId, todo[s][r].state # Absent
        PROVE  r # t
    <3>1. row[r].state = StateOf[s]
      BY <2>1 DEF IInv, CopyOK
    <3>2. StateOf[s] # -1
      BY StateOfValues
    <3> QED BY <3>1, <3>2
  <2>2. \A r \in TaskId : r # t => row'[r] = row[r]
    BY DEF IInv, TypeOK
  <2> QED BY <2>1, <2>2 DEF IInv, CopyOK
<1>5. NodeOK'
  BY <1>1 DEF IInv, TypeOK, NodeOK, Tx
<1>6. SentOK'
  <2>1. BroadcastWasAccepted'
    BY <1>1 DEF IInv, TypeOK, SentOK, BroadcastWasAccepted
  <2>2. ASSUME pc["Broadcast"] = "commit"
        PROVE  at["Broadcast"] \in TaskId /\ at["Broadcast"] # t
    BY <2>2, StateOfValues, WorkingValues DEF IInv, PassOK, CopyOK, Stage
  <2> QED BY <2>1, <2>2 DEF IInv, TypeOK, SentOK
<1> QED BY <1>2, <1>3, <1>4, <1>5, <1>6 DEF IInv

(* The node takes the transaction the broadcast service offers. *)
LEMMA AcceptKeepsNodeOK ==
  ASSUME IInv, Sending, accepted' = accepted \cup {BroadcastMem}, UNCHANGED row
  PROVE  /\ accepted' \in SUBSET Tx
         /\ NodeOK'
         /\ BroadcastMem = TxOf(at["Broadcast"], row[at["Broadcast"]])
<1> DEFINE t == at["Broadcast"]
<1>1. t \in TaskId /\ todo["Broadcast"][t].state # Absent
  BY WorkingValues DEF IInv, PassOK, Sending, Stage
<1>2. row[t] \in Row /\ Mem("Broadcast") \in Row
  BY <1>1 DEF IInv, TypeOK, Mem, Stage
<1>3. /\ row[t].state = 2
      /\ Mem("Broadcast").type = row[t].type
      /\ Mem("Broadcast").user = row[t].user
      /\ Mem("Broadcast").nonce = row[t].nonce
  BY <1>1, StateOfValues DEF IInv, CopyOK, Mem, Stage
<1>4. BroadcastMem = TxOf(t, row[t]) /\ BroadcastMem.task = t
  BY <1>3 DEF BroadcastMem, TxOf, From
<1>5. BroadcastMem \in Tx
  BY <1>1, <1>2, <1>4, TxOfType
<1>6. accepted' \in SUBSET Tx
  BY <1>5 DEF IInv, TypeOK
<1>7. NodeOK'
  BY <1>3, <1>4 DEF IInv, NodeOK
<1> QED BY <1>4, <1>6, <1>7

-----------------------------------------------------------------------------
(* Each action keeps the invariant. *)

(* A failure is counted within its bound. *)
LEMMA FaultBound == TypeOK /\ Fault => faults' \in 0..MaxFaults
BY PipelineAssumption DEF TypeOK, Fault

(* The tick starts and the process dies with the tables left alone. *)
LEMMA TickIInv == IInv /\ Tick => IInv'
<1> SUFFICES ASSUME IInv, Tick PROVE IInv'
  OBVIOUS
<1> USE DEF Tick, node
<1>1. TypeOK'
  BY DEF IInv, TypeOK
<1>2. PassOK'
  BY WorkingValues DEF IInv, PassOK, Stage, Service
<1>3. CopyOK' /\ NodeOK'
  BY DEF IInv, CopyOK, NodeOK
<1>4. SentOK'
  BY DEF IInv, SentOK, BroadcastWasAccepted, Stage, Service
<1> QED BY <1>1, <1>2, <1>3, <1>4 DEF IInv

LEMMA CrashIInv == IInv /\ Crash => IInv'
<1> SUFFICES ASSUME IInv, Crash PROVE IInv'
  OBVIOUS
<1> USE NoRowType DEF Crash, IdlePc, IdleTodo, IdleAt, node
<1>1. TypeOK'
  BY PipelineAssumption DEF IInv, TypeOK, Fault
<1>2. PassOK'
  BY WorkingValues DEF PassOK, Stage, Service
<1>3. CopyOK'
  BY DEF CopyOK
<1>4. NodeOK'
  BY DEF IInv, NodeOK
<1>5. SentOK'
  BY DEF IInv, SentOK, BroadcastWasAccepted, Stage, Service
<1> QED BY <1>1, <1>2, <1>3, <1>4, <1>5 DEF IInv

(* The collect service goes on or returns, the pipeline left alone. *)
LEMMA CollectMoveIInv ==
  ASSUME IInv, NEW l \in {"idle", "query"}, Goto("Collect", l),
         UNCHANGED <<row, todo, at, node, spawned>>, faults' \in 0..MaxFaults
  PROVE  IInv'
<1> USE DEF Goto, node
<1>1. TypeOK'
  BY DEF IInv, TypeOK
<1>2. PassOK'
  BY DEF IInv, TypeOK, PassOK, Stage, Service
<1>3. CopyOK' /\ NodeOK'
  BY DEF IInv, CopyOK, NodeOK
<1>4. SentOK'
  BY DEF IInv, TypeOK, SentOK, BroadcastWasAccepted, Stage, Service
<1> QED BY <1>1, <1>2, <1>3, <1>4 DEF IInv

LEMMA CollectDoneIInv == IInv /\ CollectDone => IInv'
BY CollectMoveIInv DEF CollectDone, IInv, TypeOK

(* A pass begins: the copies are the rows. *)
LEMMA QueryIInv == ASSUME NEW s \in Stage PROVE IInv /\ Query(s) => IInv'
<1> SUFFICES ASSUME IInv, Query(s) PROVE IInv'
  OBVIOUS
<1> USE NoRowType DEF Query, Goto, node
<1>1. TypeOK'
  BY DEF IInv, TypeOK
<1>2. PassOK'
  <2> SUFFICES ASSUME NEW r \in Stage
               PROVE  /\ pc'[r] \in {"idle", "query", "next"} \cup Working(r)
                      /\ pc'[r] \in Working(r) => at'[r] \in TaskId /\ todo'[r][at'[r]].state # Absent
                      /\ pc'[r] \notin Working(r) => at'[r] = NoTask
    BY DEF PassOK
  <2>1. CASE r = s
    BY <2>1, WorkingValues DEF IInv, TypeOK, PassOK, Stage, Service
  <2>2. CASE r # s
    BY <2>2 DEF IInv, TypeOK, PassOK, Stage, Service
  <2> QED BY <2>1, <2>2
<1>3. CopyOK'
  BY DEF IInv, TypeOK, CopyOK
<1>4. NodeOK'
  BY DEF IInv, NodeOK
<1>5. SentOK'
  BY DEF IInv, TypeOK, SentOK, BroadcastWasAccepted, Stage, Service
<1> QED BY <1>1, <1>2, <1>3, <1>4, <1>5 DEF IInv

LEMMA QueryFailsIInv == ASSUME NEW s \in Stage PROVE IInv /\ QueryFails(s) => IInv'
<1> SUFFICES ASSUME IInv, QueryFails(s) PROVE IInv'
  OBVIOUS
<1> USE DEF QueryFails, Goto, node
<1>1. TypeOK'
  <2>1. faults' \in 0..MaxFaults
    BY FaultBound DEF IInv
  <2> QED BY <2>1 DEF IInv, TypeOK
<1>2. PassOK'
  BY WorkingValues DEF IInv, TypeOK, PassOK, Stage, Service
<1>3. CopyOK' /\ NodeOK'
  BY DEF IInv, CopyOK, NodeOK
<1>4. SentOK'
  BY DEF IInv, TypeOK, SentOK, BroadcastWasAccepted, Stage, Service
<1> QED BY <1>1, <1>2, <1>3, <1>4 DEF IInv

(* The next row is taken up. *)
LEMMA TakeIInv ==
  ASSUME NEW s \in Stage, NEW t \in TaskId PROVE IInv /\ Take(s, t) => IInv'
<1> SUFFICES ASSUME IInv, Take(s, t) PROVE IInv'
  OBVIOUS
<1> USE DEF Take, Goto, node
<1>0. FirstStep[s] \in Working(s) /\ FirstStep[s] # "commit"
  BY WorkingValues DEF FirstStep, Stage
<1>1. TypeOK'
  BY DEF IInv, TypeOK, FirstStep, Stage
<1>2. PassOK'
  BY <1>0 DEF IInv, TypeOK, PassOK, Opened, Stage, Service
<1>3. CopyOK'
  <2>1. at[s] = NoTask
    BY WorkingValues DEF IInv, PassOK, Stage
  <2> QED BY <2>1, PipelineAssumption DEF IInv, TypeOK, CopyOK
<1>4. NodeOK'
  BY DEF IInv, NodeOK
<1>5. SentOK'
  BY <1>0 DEF IInv, TypeOK, SentOK, BroadcastWasAccepted, Stage, Service
<1> QED BY <1>1, <1>2, <1>3, <1>4, <1>5 DEF IInv

(* The row a stage handles, in the table and in memory. *)
LEMMA HandledRow ==
  ASSUME IInv, NEW s \in Stage, pc[s] \in Working(s)
  PROVE  /\ at[s] \in TaskId
         /\ row[at[s]] \in Row /\ Mem(s) \in Row
         /\ row[at[s]].state = StateOf[s]
         /\ Mem(s).type = row[at[s]].type
         /\ Mem(s).user = row[at[s]].user
         /\ s # "Assembly" => Mem(s).nonce = row[at[s]].nonce
<1>1. at[s] \in TaskId /\ todo[s][at[s]].state # Absent
  BY DEF IInv, PassOK
<1> QED BY <1>1 DEF IInv, TypeOK, CopyOK, Mem

(* A commit advances the row that only this stage holds. *)
LEMMA CommitIInv == ASSUME NEW s \in Stage PROVE IInv /\ Commit(s) => IInv'
<1> SUFFICES ASSUME IInv, Commit(s) PROVE IInv'
  OBVIOUS
<1> DEFINE t   == at[s]
           new == [Mem(s) EXCEPT !.state = NextState(s, Mem(s))]
           x   == XormUpdate(row[t], new)
<1>1. pc[s] \in Working(s)
  BY WorkingValues DEF Commit, Stage
<1>2. /\ t \in TaskId /\ row[t] \in Row /\ Mem(s) \in Row
      /\ row[t].state = StateOf[s]
      /\ Mem(s).type = row[t].type
      /\ Mem(s).user = row[t].user
      /\ s # "Assembly" => Mem(s).nonce = row[t].nonce
  BY <1>1, HandledRow
<1>3. NextState(s, Mem(s)) \in 1..5
  BY <1>2, NextStateType
<1>4. /\ new \in Row
      /\ new.state = NextState(s, Mem(s))
      /\ new.type = Mem(s).type /\ new.user = Mem(s).user /\ new.nonce = Mem(s).nonce
  BY <1>2, <1>3 DEF Row
<1> HIDE DEF new
<1>5. /\ x \in Row
      /\ x.state = NextState(s, Mem(s))
      /\ x.type = row[t].type
      /\ x.user = row[t].user
      /\ s # "Assembly" => x.nonce = row[t].nonce
  BY <1>2, <1>3, <1>4, XormUpdateType
<1>6. s # "Assembly" => TxOf(t, x) = TxOf(t, row[t])
  BY <1>5 DEF TxOf, From
<1>7. row' = [row EXCEPT ![t] = x]
  BY DEF Commit, new
<1> HIDE DEF x
<1>8. /\ row'[t] = x
      /\ \A u \in TaskId : u # t => row'[u] = row[u]
  BY <1>2, <1>7 DEF IInv, TypeOK
<1>9. Release(s) /\ UNCHANGED <<node, spawned, faults>>
  BY DEF Commit
<1> USE NoRowType DEF node
<1>10. TypeOK'
  <2>1. row' \in [TaskId -> Row]
    BY <1>5, <1>7 DEF IInv, TypeOK
  <2>2. /\ todo' \in [Stage -> [TaskId -> Row]]
        /\ at' \in [Stage -> TaskId \cup {NoTask}]
        /\ pc' \in [Service -> {"idle", "query", "next", "nonce", "pending", "sign",
                                "send", "check", "insert", "commit"}]
    BY <1>2, <1>9 DEF IInv, TypeOK, Release, Goto
  <2> QED BY <1>9, <2>1, <2>2 DEF IInv, TypeOK
<1>11. PassOK'
  <2> SUFFICES ASSUME NEW r \in Stage
               PROVE  /\ pc'[r] \in {"idle", "query", "next"} \cup Working(r)
                      /\ pc'[r] \in Working(r) => at'[r] \in TaskId /\ todo'[r][at'[r]].state # Absent
                      /\ pc'[r] \notin Working(r) => at'[r] = NoTask
    BY DEF PassOK
  <2>1. CASE r = s
    BY <1>9, <2>1, WorkingValues DEF IInv, TypeOK, Release, Goto, Stage, Service
  <2>2. CASE r # s
    BY <1>9, <2>2 DEF IInv, TypeOK, PassOK, Release, Goto, Stage, Service
  <2> QED BY <2>1, <2>2
<1>12. CopyOK'
  <2> SUFFICES ASSUME NEW r \in Stage, NEW u \in TaskId, todo'[r][u].state # Absent
               PROVE  /\ row'[u].state = StateOf[r]
                      /\ todo'[r][u].type = row'[u].type
                      /\ todo'[r][u].user = row'[u].user
                      /\ r # "Assembly" => todo'[r][u].nonce = row'[u].nonce
                      /\ u # at'[r] => todo'[r][u] = row'[u]
    BY DEF CopyOK
  <2>1. todo'[r][u] = todo[r][u] /\ ~(r = s /\ u = t)
    BY <1>2, <1>9 DEF IInv, TypeOK, Release
  <2>2. row[u].state = StateOf[r]
    BY <2>1 DEF IInv, CopyOK
  <2>3. u # t
    BY <1>2, <2>1, <2>2, StateOfInjective
  <2>4. row'[u] = row[u]
    BY <1>8, <2>3
  <2>5. r # s => at'[r] = at[r]
    BY <1>9 DEF IInv, TypeOK, Release
  <2> QED BY <2>1, <2>3, <2>4, <2>5 DEF IInv, CopyOK
<1>13. NodeOK'
  <2> SUFFICES ASSUME NEW y \in accepted
               PROVE  y = TxOf(y.task, row'[y.task]) /\ row'[y.task].state >= TxSignState
    BY <1>9 DEF NodeOK
  <2>1. y.task \in TaskId /\ y = TxOf(y.task, row[y.task]) /\ row[y.task].state >= 2
    BY DEF IInv, TypeOK, NodeOK, Tx
  <2>2. CASE y.task = t
    <3>1. s \in {"Broadcast", "Check"}
      BY <1>2, <2>1, <2>2, StateOfValues DEF Stage
    <3>2. x.state \in 3..5
      BY <1>2, <1>5, <3>1, NextStateType
    <3>3. row'[y.task] = x
      BY <1>8, <2>2
    <3>4. TxOf(y.task, x) = y
      BY <1>6, <2>1, <2>2, <3>1
    <3> QED BY <3>2, <3>3, <3>4
  <2>3. CASE y.task # t
    BY <1>8, <2>1, <2>3
  <2> QED BY <2>2, <2>3
<1>14. SentOK'
  <2>1. ASSUME NEW u \in TaskId, row'[u].state >= 3
        PROVE  TxOf(u, row'[u]) \in accepted
    <3>1. CASE u # t
      BY <1>8, <2>1, <3>1 DEF IInv, SentOK, BroadcastWasAccepted
    <3>2. CASE u = t /\ s = "Broadcast"
      BY <1>6, <1>8, <3>2 DEF IInv, SentOK, Commit
    <3>3. CASE u = t /\ s = "Check"
      <4>1. row[t].state = 3
        BY <1>2, <3>3, StateOfValues
      <4> QED BY <1>2, <1>6, <1>8, <3>3, <4>1 DEF IInv, SentOK, BroadcastWasAccepted
    <3>4. CASE u = t /\ s \in {"Assembly", "Sign"}
      <4>1. x.state <= 2
        BY <1>2, <1>5, <3>4, NextStateType
      <4> QED BY <1>5, <1>8, <2>1, <3>4, <4>1 DEF Row
    <3> QED BY <3>1, <3>2, <3>3, <3>4 DEF Stage
  <2>2. ASSUME pc'["Broadcast"] = "commit"
        PROVE  TxOf(at'["Broadcast"], row'[at'["Broadcast"]]) \in accepted
    <3>1. s # "Broadcast"
      BY <1>9, <2>2 DEF IInv, TypeOK, Release, Goto, Stage, Service
    <3>2. pc["Broadcast"] = "commit" /\ at'["Broadcast"] = at["Broadcast"]
      BY <1>9, <2>2, <3>1 DEF IInv, TypeOK, Release, Goto, Stage, Service
    <3>3. at["Broadcast"] \in TaskId /\ row[at["Broadcast"]].state = StateOf["Broadcast"]
      BY <3>2, HandledRow, WorkingValues DEF Stage
    <3>4. at["Broadcast"] # t
      BY <1>2, <3>1, <3>3, StateOfInjective DEF Stage
    <3> QED BY <1>8, <3>2, <3>3, <3>4 DEF IInv, SentOK
  <2> QED BY <1>9, <2>1, <2>2 DEF SentOK, BroadcastWasAccepted
<1> QED BY <1>10, <1>11, <1>12, <1>13, <1>14 DEF IInv

LEMMA CommitFailsIInv == ASSUME NEW s \in Stage PROVE IInv /\ CommitFails(s) => IInv'
<1> SUFFICES ASSUME IInv, CommitFails(s) PROVE IInv'
  OBVIOUS
<1>1. pc[s] \in Working(s)
  BY WorkingValues DEF CommitFails, Stage
<1>2. faults' \in 0..MaxFaults
  BY FaultBound DEF IInv, CommitFails
<1> QED BY <1>1, <1>2, ReleaseIInv DEF CommitFails

(* Assembly gives its copy a nonce. *)
LEMMA SetNonceIInv ==
  ASSUME IInv, pc["Assembly"] \in {"nonce", "pending"}, NEW n \in Nat, SetNonce(n),
         Goto("Assembly", "commit"), UNCHANGED <<row, at, node, spawned, faults>>
  PROVE  IInv'
<1> DEFINE t == at["Assembly"]
<1> USE DEF Goto, node
<1>1. /\ "Assembly" \in Stage /\ pc["Assembly"] \in Working("Assembly")
      /\ t \in TaskId /\ Mem("Assembly") \in Row
  BY HandledRow, WorkingValues DEF Stage
<1> DEFINE m == [Mem("Assembly") EXCEPT !.nonce = n]
<1>10. m \in Row
  BY <1>1 DEF Row
<1>11. todo' = [todo EXCEPT !["Assembly"] = [todo["Assembly"] EXCEPT ![t] = m]]
  BY <1>1 DEF IInv, TypeOK, SetNonce, Mem
<1> HIDE DEF m
<1>2. todo'["Assembly"][t] = m
  BY <1>1, <1>11 DEF IInv, TypeOK
<1>3. /\ \A s \in Stage, u \in TaskId :
           s # "Assembly" \/ u # t => todo'[s][u] = todo[s][u]
      /\ todo' \in [Stage -> [TaskId -> Row]]
  BY <1>1, <1>10, <1>11 DEF IInv, TypeOK
<1>4. /\ todo'["Assembly"][t].state = todo["Assembly"][t].state
      /\ todo'["Assembly"][t].type = todo["Assembly"][t].type
      /\ todo'["Assembly"][t].user = todo["Assembly"][t].user
  BY <1>1, <1>2 DEF Mem, Row, m
<1>5. TypeOK'
  BY <1>3 DEF IInv, TypeOK
<1>6. PassOK'
  BY <1>1, <1>3, <1>4, WorkingValues DEF IInv, TypeOK, PassOK, Stage, Service
<1>7. CopyOK'
  BY <1>3, <1>4 DEF IInv, CopyOK
<1>8. NodeOK'
  BY DEF IInv, NodeOK
<1>9. SentOK'
  BY DEF IInv, TypeOK, SentOK, BroadcastWasAccepted, Stage, Service
<1> QED BY <1>5, <1>6, <1>7, <1>8, <1>9 DEF IInv

LEMMA AssemblyIInv == IInv /\ AssemblyStep => IInv'
<1> SUFFICES ASSUME IInv, AssemblyStep PROVE IInv'
  OBVIOUS
<1>1. CASE NonceFromTable
  <2>1. PICK t \in TaskId : SetNonce(row[t].nonce + 1)
    BY <1>1 DEF NonceFromTable, SentFrom
  <2>2. row[t].nonce + 1 \in Nat
    BY DEF IInv, TypeOK, Row
  <2> QED BY <1>1, <2>1, <2>2, SetNonceIInv DEF NonceFromTable
<1>2. CASE NoNonceInTable
  <2>1. "Assembly" \in Stage /\ pc["Assembly"] \in Working("Assembly")
        /\ "pending" \in Working("Assembly")
    BY <1>2, WorkingValues DEF NoNonceInTable, Stage
  <2> QED BY <1>2, <2>1, MoveIInv DEF NoNonceInTable, IInv, TypeOK
<1>3. CASE NonceFromNode
  <2>1. From(Mem("Assembly")) \in Addr
    BY <1>3, HandledRow, FromType, WorkingValues DEF NonceFromNode, Stage
  <2>2. PICK n \in Candidates(From(Mem("Assembly"))) : SetNonce(n)
    BY <1>3 DEF NonceFromNode
  <2>3. n \in Nat
    BY <2>1 DEF IInv, TypeOK, Candidates, Tx
  <2> QED BY <1>3, <2>2, <2>3, SetNonceIInv DEF NonceFromNode
<1> QED BY <1>1, <1>2, <1>3 DEF AssemblyStep

(* The sign service's answer goes into its copy. *)
LEMMA SetSigIInv ==
  ASSUME IInv, pc["Sign"] = "sign", NEW kind \in {"valid", "invalid"}, SetSig(kind),
         Goto("Sign", "commit"), UNCHANGED <<row, at, node, spawned>>,
         faults' \in 0..MaxFaults
  PROVE  IInv'
<1> DEFINE t == at["Sign"]
           m == [Mem("Sign") EXCEPT !.sig = [kind |-> kind, nonce |-> Mem("Sign").nonce]]
<1> USE DEF Goto, node
<1>1. /\ "Sign" \in Stage /\ pc["Sign"] \in Working("Sign")
      /\ t \in TaskId /\ Mem("Sign") \in Row
  BY HandledRow, WorkingValues DEF Stage
<1>2. m \in Row
  BY <1>1 DEF Row, Sig
<1>3. todo' = [todo EXCEPT !["Sign"] = [todo["Sign"] EXCEPT ![t] = m]]
  BY <1>1 DEF IInv, TypeOK, SetSig, Mem
<1> HIDE DEF m
<1>4. todo'["Sign"][t] = m
  BY <1>1, <1>3 DEF IInv, TypeOK
<1>5. /\ \A s \in Stage, u \in TaskId :
           s # "Sign" \/ u # t => todo'[s][u] = todo[s][u]
      /\ todo' \in [Stage -> [TaskId -> Row]]
  BY <1>1, <1>2, <1>3 DEF IInv, TypeOK
<1>6. /\ todo'["Sign"][t].state = todo["Sign"][t].state
      /\ todo'["Sign"][t].type = todo["Sign"][t].type
      /\ todo'["Sign"][t].user = todo["Sign"][t].user
      /\ todo'["Sign"][t].nonce = todo["Sign"][t].nonce
  BY <1>1, <1>4 DEF Mem, Row, m
<1>7. TypeOK'
  BY <1>5 DEF IInv, TypeOK
<1>8. PassOK'
  BY <1>1, <1>5, <1>6, WorkingValues DEF IInv, TypeOK, PassOK, Stage, Service
<1>9. CopyOK'
  BY <1>5, <1>6 DEF IInv, CopyOK
<1>10. NodeOK'
  BY DEF IInv, NodeOK
<1>11. SentOK'
  BY DEF IInv, TypeOK, SentOK, BroadcastWasAccepted, Stage, Service
<1> QED BY <1>7, <1>8, <1>9, <1>10, <1>11 DEF IInv

LEMMA SignIInv == IInv /\ SignStep => IInv'
<1>1. IInv /\ SignTx => IInv'
  BY SetSigIInv DEF SignTx, IInv, TypeOK
<1>2. IInv /\ SignRefused => IInv'
  BY SetSigIInv, FaultBound DEF SignRefused, IInv
<1> QED BY <1>1, <1>2 DEF SignStep

(* The node accepts, in a free slot or in another one's place; then the    *)
(* service goes on to its commit, or never hears of it.                    *)
LEMMA SendIInv ==
  ASSUME IInv, Sending, accepted' = accepted \cup {BroadcastMem},
         dropped' \in SUBSET Tx, UNCHANGED <<row, head, spawned>>,
         faults' \in 0..MaxFaults,
         \/ Goto("Broadcast", "commit") /\ UNCHANGED <<todo, at>>
         \/ Release("Broadcast")
  PROVE  IInv'
<1> DEFINE t == at["Broadcast"]
<1>1. /\ "Broadcast" \in Stage /\ pc["Broadcast"] \in Working("Broadcast")
      /\ t \in TaskId
  BY HandledRow, WorkingValues DEF Stage, Sending
<1>2. /\ accepted' \in SUBSET Tx
      /\ NodeOK'
      /\ BroadcastMem = TxOf(t, row[t])
  BY AcceptKeepsNodeOK
<1>3. CASE Goto("Broadcast", "commit") /\ UNCHANGED <<todo, at>>
  <2> USE <1>3 DEF Goto
  <2>1. TypeOK'
    BY <1>2 DEF IInv, TypeOK
  <2>2. PassOK'
    BY <1>1, WorkingValues DEF IInv, TypeOK, PassOK, Stage, Service
  <2>3. CopyOK'
    BY DEF IInv, CopyOK
  <2>4. SentOK'
    BY <1>1, <1>2 DEF IInv, TypeOK, SentOK, BroadcastWasAccepted
  <2> QED BY <1>2, <2>1, <2>2, <2>3, <2>4 DEF IInv
<1>4. CASE Release("Broadcast")
  <2> USE <1>4, NoRowType DEF Release, Goto
  <2>1. TypeOK'
    BY <1>1, <1>2 DEF IInv, TypeOK
  <2>2. PassOK'
    <3> SUFFICES ASSUME NEW r \in Stage
                 PROVE  /\ pc'[r] \in {"idle", "query", "next"} \cup Working(r)
                        /\ pc'[r] \in Working(r) => at'[r] \in TaskId /\ todo'[r][at'[r]].state # Absent
                        /\ pc'[r] \notin Working(r) => at'[r] = NoTask
      BY DEF PassOK
    <3>1. CASE r = "Broadcast"
      BY <3>1, WorkingValues DEF IInv, TypeOK, Stage, Service
    <3>2. CASE r # "Broadcast"
      BY <3>2 DEF IInv, TypeOK, PassOK, Stage, Service
    <3> QED BY <3>1, <3>2
  <2>3. CopyOK'
    BY <1>1 DEF IInv, TypeOK, CopyOK
  <2>4. SentOK'
    BY DEF IInv, TypeOK, SentOK, BroadcastWasAccepted, Stage, Service
  <2> QED BY <1>2, <2>1, <2>2, <2>3, <2>4 DEF IInv
<1> QED BY <1>3, <1>4

(* The service gives the row up, with or without a failure. *)
LEMMA BroadcastReleaseIInv ==
  ASSUME IInv, pc["Broadcast"] = "send", Release("Broadcast"),
         UNCHANGED <<row, node, spawned>>, faults' \in 0..MaxFaults
  PROVE  IInv'
<1>1. "Broadcast" \in Stage /\ pc["Broadcast"] \in Working("Broadcast")
  BY WorkingValues DEF Stage
<1> QED BY <1>1, ReleaseIInv

LEMMA BroadcastIInv == IInv /\ BroadcastStep => IInv'
<1>1. IInv /\ SendAccepted => IInv'
  BY SendIInv DEF SendAccepted, IInv, TypeOK
<1>2. IInv /\ SendReplaces => IInv'
  <2> SUFFICES ASSUME IInv, SendReplaces PROVE IInv'
    OBVIOUS
  <2>1. dropped' \in SUBSET Tx
    BY DEF IInv, TypeOK, SendReplaces, Slot
  <2> QED BY <2>1, SendIInv DEF SendReplaces, IInv, TypeOK
<1>3. IInv /\ (SendRejected \/ SendUnfunded) => IInv'
  BY BroadcastReleaseIInv DEF SendRejected, SendUnfunded, Sending, IInv, TypeOK
<1>4. IInv /\ SendLost => IInv'
  BY BroadcastReleaseIInv, FaultBound DEF SendLost, Sending, IInv
<1>5. IInv /\ SendAnswerLost => IInv'
  <2> SUFFICES ASSUME IInv, SendAnswerLost PROVE IInv'
    OBVIOUS
  <2>1. faults' \in 0..MaxFaults /\ dropped' \in SUBSET Tx
    BY FaultBound DEF SendAnswerLost, IInv, TypeOK
  <2> QED BY <2>1, SendIInv DEF SendAnswerLost
<1>6. IInv /\ SignatureRejected => IInv'
  BY BroadcastReleaseIInv DEF SignatureRejected, IInv, TypeOK
<1> QED BY <1>1, <1>2, <1>3, <1>4, <1>5, <1>6 DEF BroadcastStep

LEMMA CheckIsStage == "Check" \in Stage /\ Working("Check") = {"check", "insert", "commit"}
BY WorkingValues DEF Stage

(* The follow-up of a gas row, under whatever id is free. *)
LEMMA InsertCollectSubTxIInv ==
  ASSUME NEW t \in TaskId
  PROVE  IInv /\ InsertCollectSubTx(t) => IInv'
<1> SUFFICES ASSUME IInv, InsertCollectSubTx(t) PROVE IInv'
  OBVIOUS
<1>1. /\ pc["Check"] \in Working("Check")
      /\ at["Check"] \in TaskId /\ Mem("Check").user \in User
  BY CheckIsStage, HandledRow DEF InsertCollectSubTx, Row
<1>2. row[t].state = Absent /\ t \in TaskId
  BY DEF InsertCollectSubTx
<1>3. TypeOK'
  <2>1. NewRow(CollectTx, Mem("Check").user) \in Row
    BY <1>1, NewRowType
  <2>2. spawned' \in [TaskId -> Nat]
    BY <1>1 DEF InsertCollectSubTx, IInv, TypeOK
  <2> QED BY <2>1, <2>2 DEF InsertCollectSubTx, IInv, TypeOK, Goto, node
<1>4. PassOK'
  BY CheckIsStage, WorkingValues DEF InsertCollectSubTx, IInv, TypeOK, PassOK, Goto, Stage, Service
<1>5. NewRow(CollectTx, Mem("Check").user).state = 0
  BY <1>1, NewRowType
<1>6. CopyOK' /\ NodeOK' /\ SentOK'
  <2>1. ASSUME NEW s \in Stage, NEW r \in TaskId, todo[s][r].state # Absent
        PROVE  r # t
    <3>1. row[r].state = StateOf[s]
      BY <2>1 DEF IInv, CopyOK
    <3>2. StateOf[s] # -1
      BY StateOfValues
    <3> QED BY <1>2, <3>1, <3>2
  <2>2. /\ \A r \in TaskId : r # t => row'[r] = row[r]
        /\ row'[t].state = 0
    BY <1>2, <1>5 DEF InsertCollectSubTx, IInv, TypeOK
  <2>3. CopyOK'
    BY <2>1, <2>2 DEF InsertCollectSubTx, IInv, CopyOK
  <2>4. NodeOK'
    BY <1>2, <2>2 DEF InsertCollectSubTx, IInv, TypeOK, NodeOK, Tx, node
  <2>5. BroadcastWasAccepted'
    BY <2>2 DEF InsertCollectSubTx, IInv, SentOK, BroadcastWasAccepted, node
  <2>6. ASSUME pc["Broadcast"] = "commit"
        PROVE  at["Broadcast"] \in TaskId /\ at["Broadcast"] # t
    BY <2>1, <2>6, WorkingValues DEF IInv, PassOK, Stage
  <2>7. pc'["Broadcast"] = pc["Broadcast"]
    BY DEF InsertCollectSubTx, IInv, TypeOK, Goto, Service, Stage
  <2>8. SentOK'
    BY <2>2, <2>5, <2>6, <2>7 DEF InsertCollectSubTx, IInv, SentOK, node
  <2> QED BY <2>3, <2>4, <2>8
<1> QED BY <1>3, <1>4, <1>6 DEF IInv

LEMMA CheckIInv == IInv /\ CheckStep => IInv'
<1> SUFFICES ASSUME IInv, CheckStep PROVE IInv'
  OBVIOUS
<1>0. "Check" \in Stage /\ Working("Check") = {"check", "insert", "commit"}
  BY WorkingValues DEF Stage
<1>1. CASE CheckCollectTx
  BY <1>0, <1>1, MoveIInv DEF CheckCollectTx, IInv, TypeOK
<1>2. CASE CheckGasTx
  BY <1>0, <1>2, MoveIInv DEF CheckGasTx, IInv, TypeOK
<1>3. CASE CheckGasTxFails
  BY <1>0, <1>3, ReleaseIInv, FaultBound DEF CheckGasTxFails, IInv
<1>4. CASE InsertCollectSubTxFails
  BY <1>0, <1>4, MoveIInv, FaultBound DEF InsertCollectSubTxFails, IInv
<1>5. ASSUME NEW t \in TaskId \ SrcTask, InsertCollectSubTx(t)
      PROVE  IInv'
  BY <1>5, InsertCollectSubTxIInv
<1> QED BY <1>1, <1>2, <1>3, <1>4, <1>5 DEF CheckStep

LEMMA EnqueueIInv ==
  ASSUME NEW t \in SrcTask, NEW type \in {GasTx, CollectTx}, NEW u \in User
  PROVE  IInv /\ Enqueue(t, type, u) => IInv'
<1>1. t \in TaskId
  BY PipelineAssumption
<1> QED BY <1>1, InsertIInv DEF Enqueue, memory, IInv, TypeOK

LEMMA MineIInv == ASSUME NEW a \in Addr PROVE IInv /\ Mine(a) => IInv'
<1> SUFFICES ASSUME IInv, Mine(a) PROVE IInv'
  OBVIOUS
<1> USE DEF Mine, memory
<1>1. TypeOK'
  BY DEF IInv, TypeOK
<1>2. PassOK' /\ CopyOK' /\ NodeOK' /\ SentOK'
  BY DEF IInv, PassOK, CopyOK, NodeOK, SentOK, BroadcastWasAccepted
<1> QED BY <1>1, <1>2 DEF IInv

LEMMA StutterIInv == IInv /\ UNCHANGED vars => IInv'
BY DEF IInv, TypeOK, PassOK, CopyOK, NodeOK, SentOK, BroadcastWasAccepted,
       vars, memory, node

(* Every step keeps the invariant. *)
LEMMA NextIInv == IInv /\ [Next]_vars => IInv'
<1> SUFFICES ASSUME IInv, [Next]_vars PROVE IInv'
  OBVIOUS
<1>1. ASSUME NEW s \in Stage, PassStep(s)
      PROVE  IInv'
  BY <1>1, QueryIInv, QueryFailsIInv, TakeIInv, CommitIInv, CommitFailsIInv DEF PassStep
<1> QED BY <1>1, TickIInv, CrashIInv, EnqueueIInv, CollectDoneIInv, AssemblyIInv,
           SignIInv, BroadcastIInv, CheckIInv, MineIInv, StutterIInv DEF Next

-----------------------------------------------------------------------------
(* Theorems. *)

(* IInv holds in every reachable state. *)
THEOREM Invariance == Spec => []IInv
<1> QED BY InitIInv, NextIInv, PTL DEF Spec

(* The state of the pipeline is always well formed. *)
THEOREM TypeCorrect == Spec => []TypeOK
<1>1. IInv => TypeOK
  BY DEF IInv
<1> QED BY <1>1, Invariance, PTL

(* The services' copies of rows are never stale (SnapshotFresh). *)
THEOREM SnapshotsStayFresh == Spec => []SnapshotFresh
<1>1. IInv => SnapshotFresh
  BY DEF IInv, CopyOK, SnapshotFresh, Opened
<1> QED BY <1>1, Invariance, PTL

(* No row goes on chain twice, whatever fails (NoDoubleSend). *)
THEOREM SentAtMostOnce == Spec => []NoDoubleSend
<1>1. IInv => NoDoubleSend
  BY DEF IInv, NodeOK, NoDoubleSend
<1> QED BY <1>1, Invariance, PTL

(* What the table shows as broadcast was accepted (BroadcastWasAccepted). *)
THEOREM BroadcastIsAccepted == Spec => []BroadcastWasAccepted
<1>1. IInv => BroadcastWasAccepted
  BY DEF IInv, SentOK
<1> QED BY <1>1, Invariance, PTL

-----------------------------------------------------------------------------
(* The pipeline implements TaskLifecycle. *)

(* One row changes: the abstract rows follow. *)
LEMMA LifeOfChange ==
  ASSUME TypeOK, NEW t \in TaskId, NEW x \in Row, row' = [row EXCEPT ![t] = x]
  PROVE  /\ LifeOf' = [LifeOf EXCEPT ![t] =
                        [type |-> x.type, state |-> x.state, nonce |-> x.nonce]]
         /\ LifeOf'[t] = [type |-> x.type, state |-> x.state, nonce |-> x.nonce]
         /\ LifeOf[t] = [type |-> row[t].type, state |-> row[t].state,
                         nonce |-> row[t].nonce]
BY DEF LifeOf, TypeOK

(* Steps that change neither the table nor what the node accepted. *)
LEMMA LifeStutter ==
  ASSUME UNCHANGED <<row, accepted>>
  PROVE  UNCHANGED LC!lifeVars
BY DEF LC!lifeVars, LifeOf, SentOf

LEMMA LifeInsert ==
  ASSUME TypeOK, NEW t \in TaskId, NEW type \in {GasTx, CollectTx}, NEW u \in User,
         row[t].state = Absent, row' = [row EXCEPT ![t] = NewRow(type, u)],
         UNCHANGED accepted
  PROVE  LC!LInsert(t)
<1> DEFINE x == NewRow(type, u)
<1>1. x \in Row /\ x.state = 0 /\ x.type = type /\ x.nonce = 0
  BY NewRowType
<1>2. row' = [row EXCEPT ![t] = x]
  OBVIOUS
<1> HIDE DEF x
<1>3. /\ LifeOf' = [LifeOf EXCEPT ![t] =
                      [type |-> x.type, state |-> x.state, nonce |-> x.nonce]]
      /\ LifeOf[t] = [type |-> row[t].type, state |-> row[t].state, nonce |-> row[t].nonce]
  BY <1>1, <1>2, LifeOfChange
<1>4. SentOf' = SentOf
  BY DEF SentOf
<1>5. type \in {0, 1}
  BY DEF GasTx, CollectTx
<1>6. LifeOf[t].state = -1
  BY <1>3 DEF Absent
<1>7. LifeOf' = [LifeOf EXCEPT ![t] = [type |-> type, state |-> 0, nonce |-> 0]]
  BY <1>1, <1>3
<1> QED BY <1>4, <1>5, <1>6, <1>7 DEF LC!LInsert

(* A commit is the abstract step of its stage. *)
LEMMA LifeCommit ==
  ASSUME IInv, NEW s \in Stage, Commit(s)
  PROVE  LC!LNext
<1> DEFINE t   == at[s]
           new == [Mem(s) EXCEPT !.state = NextState(s, Mem(s))]
           x   == XormUpdate(row[t], new)
<1>1. /\ t \in TaskId /\ row[t] \in Row /\ Mem(s) \in Row
      /\ row[t].state = StateOf[s]
      /\ Mem(s).type = row[t].type
      /\ Mem(s).user = row[t].user
      /\ s # "Assembly" => Mem(s).nonce = row[t].nonce
  BY HandledRow, WorkingValues DEF Commit, Stage
<1>2. NextState(s, Mem(s)) \in 1..5
  BY <1>1, NextStateType
<1>3. /\ new \in Row
      /\ new.state = NextState(s, Mem(s))
      /\ new.type = Mem(s).type /\ new.user = Mem(s).user /\ new.nonce = Mem(s).nonce
  BY <1>1, <1>2 DEF Row
<1> HIDE DEF new
<1>4. /\ x \in Row
      /\ x.state = NextState(s, Mem(s))
      /\ x.type = row[t].type
      /\ s # "Assembly" => x.nonce = row[t].nonce
  BY <1>1, <1>2, <1>3, XormUpdateType
<1>5. row' = [row EXCEPT ![t] = x]
  BY DEF Commit, new
<1> HIDE DEF x
<1>6. TypeOK
  BY DEF IInv
<1>7. /\ LifeOf' = [LifeOf EXCEPT ![t] =
                      [type |-> x.type, state |-> x.state, nonce |-> x.nonce]]
      /\ LifeOf'[t] = [type |-> x.type, state |-> x.state, nonce |-> x.nonce]
      /\ LifeOf[t] = [type |-> row[t].type, state |-> row[t].state, nonce |-> row[t].nonce]
  BY <1>1, <1>4, <1>5, <1>6, LifeOfChange
<1>8. SentOf' = SentOf
  BY DEF SentOf, Commit, node
<1>9. x.nonce \in Nat
  BY <1>4 DEF Row
<1>10. CASE s = "Assembly"
  <2>1. row[t].state = 0 /\ x.state = 1
    BY <1>1, <1>4, <1>10, StateOfValues, NextStateType
  <2>2. LifeOf[t].state = 0 /\ LifeOf'[t].nonce = x.nonce
    BY <1>7, <2>1
  <2>3. [type |-> LifeOf[t].type, state |-> 1, nonce |-> LifeOf'[t].nonce]
          = [type |-> x.type, state |-> x.state, nonce |-> x.nonce]
    BY <1>4, <1>7, <2>1, <2>2
  <2>4. LC!LAssemble(t)
    BY <1>7, <1>8, <1>9, <2>2, <2>3 DEF LC!LAssemble
  <2> QED BY <1>1, <2>4 DEF LC!LNext
<1>11. CASE s = "Sign"
  <2>1. row[t].state = 1 /\ x.state = 2 /\ x.nonce = row[t].nonce
    BY <1>1, <1>4, <1>11, StateOfValues, NextStateType
  <2>2. LC!LSign(t)
    BY <1>4, <1>7, <1>8, <2>1 DEF LC!LSign
  <2> QED BY <1>1, <2>2 DEF LC!LNext
<1>12. CASE s = "Broadcast"
  <2>1. row[t].state = 2 /\ x.state = 3 /\ x.nonce = row[t].nonce
    BY <1>1, <1>4, <1>12, StateOfValues, NextStateType
  <2>2. TxOf(t, row[t]) \in accepted
    BY <1>12 DEF IInv, SentOK, Commit
  <2>3. <<t, row[t].nonce>> \in SentOf
    BY <2>2 DEF SentOf, TxOf
  <2>4. LC!LBroadcast(t)
    BY <1>4, <1>7, <1>8, <2>1, <2>3 DEF LC!LBroadcast
  <2> QED BY <1>1, <2>4 DEF LC!LNext
<1>13. CASE s = "Check"
  <2>1. /\ row[t].state = 3 /\ x.nonce = row[t].nonce
        /\ x.state = IF row[t].type = 0 THEN 5 ELSE 4
    BY <1>1, <1>4, <1>13, StateOfValues, NextStateType
  <2>2. LC!LCheck(t)
    BY <1>4, <1>7, <1>8, <2>1 DEF LC!LCheck
  <2> QED BY <1>1, <2>2 DEF LC!LNext
<1> QED BY <1>10, <1>11, <1>12, <1>13 DEF Stage

(* The node taking the offered transaction is the abstract send: nothing   *)
(* of this row was there before, and the row is signed.                    *)
LEMMA LifeSend ==
  ASSUME IInv, Sending, BroadcastMem \notin accepted,
         accepted' = accepted \cup {BroadcastMem}, UNCHANGED row
  PROVE  LC!LNext
<1> DEFINE t == at["Broadcast"]
<1>1. /\ t \in TaskId /\ row[t] \in Row /\ row[t].state = 2
  BY HandledRow, WorkingValues, StateOfValues DEF Sending, Stage
<1>2. BroadcastMem = TxOf(t, row[t])
  BY AcceptKeepsNodeOK
<1>3. BroadcastMem.task = t /\ BroadcastMem.nonce = row[t].nonce
  BY <1>2 DEF TxOf
<1>4. \A x \in accepted : x.task # t
  BY <1>2 DEF IInv, NodeOK
<1>5. \A x \in SentOf : x[1] # t
  BY <1>4 DEF SentOf
<1>6. SentOf' = SentOf \cup {<<t, row[t].nonce>>}
  BY <1>3 DEF SentOf
<1>7. LifeOf' = LifeOf /\ LifeOf[t].state = 2 /\ LifeOf[t].nonce = row[t].nonce
  BY <1>1 DEF LifeOf
<1> QED BY <1>1, <1>5, <1>6, <1>7 DEF LC!LNext, LC!LSend

LEMMA LifeInit == Init => LC!LInit
<1> SUFFICES ASSUME Init PROVE LC!LInit
  OBVIOUS
<1>1. LifeOf \in [TaskId -> [type : {0, 1}, state : {-1}, nonce : {0}]]
  <2>1. NoRow.type = 0 /\ NoRow.state = -1 /\ NoRow.nonce = 0
    BY DEF NoRow
  <2> QED BY <2>1 DEF Init, LifeOf
<1>2. SentOf = {}
  BY DEF Init, SentOf
<1> QED BY <1>1, <1>2 DEF LC!LInit

(* Every step is an abstract step or leaves the abstract state alone. *)
LEMMA LifeNext == IInv /\ [Next]_vars => [LC!LNext]_(LC!lifeVars)
<1> SUFFICES ASSUME IInv, [Next]_vars PROVE LC!LNext \/ UNCHANGED LC!lifeVars
  OBVIOUS
<1> USE DEF node, memory
<1>0. TypeOK
  BY DEF IInv
<1>1. CASE Tick \/ Crash \/ CollectDone \/ UNCHANGED vars
  BY <1>1, LifeStutter DEF Tick, Crash, CollectDone, vars
<1>2. ASSUME NEW t \in SrcTask, NEW type \in {GasTx, CollectTx}, NEW u \in User,
             Enqueue(t, type, u)
      PROVE  LC!LNext
  <2>1. t \in TaskId
    BY PipelineAssumption
  <2> QED BY <1>0, <1>2, <2>1, LifeInsert DEF Enqueue, LC!LNext
<1>3. ASSUME NEW s \in Stage, PassStep(s)
      PROVE  LC!LNext \/ UNCHANGED LC!lifeVars
  <2>1. CASE Commit(s)
    BY <2>1, LifeCommit
  <2>2. CASE ~Commit(s)
    BY <1>3, <2>2, LifeStutter DEF PassStep, Query, QueryFails, Take, CommitFails
  <2> QED BY <2>1, <2>2
<1>4. CASE AssemblyStep \/ SignStep
  BY <1>4, LifeStutter DEF AssemblyStep, SignStep, NonceFromTable, NoNonceInTable,
     NonceFromNode, SignTx, SignRefused
<1>5. CASE BroadcastStep
  <2>1. CASE SendAccepted \/ SendReplaces \/ SendAnswerLost
    BY <2>1, LifeSend DEF SendAccepted, SendReplaces, SendAnswerLost, CanAccept
  <2>2. CASE SendRejected \/ SendUnfunded \/ SendLost \/ SignatureRejected
    BY <2>2, LifeStutter DEF SendRejected, SendUnfunded, SendLost, SignatureRejected
  <2> QED BY <1>5, <2>1, <2>2 DEF BroadcastStep
<1>6. CASE CheckStep
  <2>1. ASSUME NEW t \in TaskId \ SrcTask, InsertCollectSubTx(t)
        PROVE  LC!LNext
    <3>1. Mem("Check").user \in User
      BY <2>1, HandledRow, WorkingValues DEF InsertCollectSubTx, Row, Stage
    <3> QED BY <1>0, <2>1, <3>1, LifeInsert DEF InsertCollectSubTx, LC!LNext
  <2>2. CASE CheckCollectTx \/ CheckGasTx \/ CheckGasTxFails \/ InsertCollectSubTxFails
    BY <2>2, LifeStutter DEF CheckCollectTx, CheckGasTx, CheckGasTxFails,
       InsertCollectSubTxFails
  <2> QED BY <1>6, <2>1, <2>2 DEF CheckStep
<1>7. ASSUME NEW a \in Addr, Mine(a)
      PROVE  UNCHANGED LC!lifeVars
  BY <1>7, LifeStutter DEF Mine
<1> QED BY <1>1, <1>2, <1>3, <1>4, <1>5, <1>6, <1>7 DEF Next

(* The pipeline implements the abstract life cycle (Lifecycle). *)
THEOREM ImplementsLifecycle == Spec => Lifecycle
<1> QED BY LifeInit, LifeNext, Invariance, PTL DEF Spec, Lifecycle, LC!LSpec

=============================================================================
