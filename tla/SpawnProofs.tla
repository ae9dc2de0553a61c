----------------------------- MODULE SpawnProofs -----------------------------
(***************************************************************************)
(* Every gas row brings one collect row, up to one more or less for each   *)
(* failure (TxPipeline!GasTxSpawnsOnce), for any rows, users and failures. *)
(* Whether a gas row is due one changes in three places only: when Check   *)
(* reaches the commit that ends it, when that commit fails, and when the   *)
(* process exits before it.                                                *)
(***************************************************************************)
EXTENDS TxPipelineProofs

USE DEF Absent, TxInitState, TxAssmblyState, TxSignState, TxBroadcastState,
        TxCheckState, TxEndState, GasTx, CollectTx

Ended(t) == row[t].type = GasTx /\ row[t].state = TxEndState

(* Only a gas row is handed to the insert. *)
InsertsForGas == pc["Check"] = "insert" => row[at["Check"]].type = GasTx

SInv == GasTxSpawnsOnce /\ InsertsForGas

LEMMA DueValues ==
  \A t : /\ Due(t) \in {0, 1}
         /\ Due(t) = 1 <=> Ended(t) \/ Spawning(t)
BY DEF Due, Ended

(* Nothing is due or inserted that was not before. *)
LEMMA SpawnQuiet ==
  ASSUME IInv, SInv, IInv', InsertsForGas', UNCHANGED spawned, faults' >= faults,
         \A t \in TaskId : (Ended(t) \/ Spawning(t)) <=> (Ended(t)' \/ Spawning(t)')
  PROVE  SInv'
<1> SUFFICES ASSUME NEW t \in TaskId
             PROVE  (spawned[t] - Due(t) <= faults /\ Due(t) - spawned[t] <= faults)'
  BY DEF SInv, GasTxSpawnsOnce
<1>1. Due(t)' = Due(t)
  BY DEF Due, Ended
<1>2. spawned[t] - Due(t) <= faults /\ Due(t) - spawned[t] <= faults
  BY DEF SInv, GasTxSpawnsOnce
<1>3. spawned[t] \in Nat /\ faults \in Nat /\ faults' \in Nat /\ Due(t) \in {0, 1}
  BY DueValues DEF IInv, TypeOK
<1> QED BY <1>1, <1>2, <1>3

(* A failure while the row was being committed: it may be repeated. *)
LEMMA SpawnFault ==
  ASSUME IInv, SInv, IInv', InsertsForGas', UNCHANGED spawned, faults' = faults + 1
  PROVE  SInv'
<1> SUFFICES ASSUME NEW t \in TaskId
             PROVE  (spawned[t] - Due(t) <= faults /\ Due(t) - spawned[t] <= faults)'
  BY DEF SInv, GasTxSpawnsOnce
<1>1. Due(t) \in {0, 1} /\ Due(t)' \in {0, 1}
  BY DEF Due
<1>2. spawned[t] - Due(t) <= faults /\ Due(t) - spawned[t] <= faults
  BY DEF SInv, GasTxSpawnsOnce
<1>3. spawned[t] \in Nat /\ faults \in Nat
  BY DEF IInv, TypeOK
<1> QED BY <1>1, <1>2, <1>3

-----------------------------------------------------------------------------
(* The row Check handles is neither ended nor forgotten. *)
LEMMA CheckedRow ==
  ASSUME IInv, pc["Check"] \in Working("Check")
  PROVE  /\ at["Check"] \in TaskId
         /\ row[at["Check"]].state = 3
         /\ Mem("Check").type = row[at["Check"]].type
BY HandledRow, StateOfValues DEF Stage

(* The rows and Check's place are left alone. *)
LEMMA SpawnElsewhere ==
  ASSUME IInv, SInv, IInv', UNCHANGED <<row, spawned>>, faults' >= faults,
         pc'["Check"] = pc["Check"], at'["Check"] = at["Check"]
  PROVE  SInv'
<1>1. \A t \in TaskId : (Ended(t) \/ Spawning(t)) <=> (Ended(t)' \/ Spawning(t)')
  BY DEF Ended, Spawning
<1>2. InsertsForGas'
  BY DEF SInv, InsertsForGas
<1> QED BY <1>1, <1>2, SpawnQuiet

(* A step of another stage than Check, and a failure of one. *)
LEMMA OtherStage ==
  ASSUME IInv, NEW s \in Service, s # "Check", NEW l, Goto(s, l)
  PROVE  pc'["Check"] = pc["Check"]
BY DEF Goto, IInv, TypeOK

LEMMA OtherRelease ==
  ASSUME IInv, NEW s \in Stage, s # "Check", Release(s)
  PROVE  pc'["Check"] = pc["Check"] /\ at'["Check"] = at["Check"]
BY DEF Release, Goto, IInv, TypeOK, Stage, Service

LEMMA FaultsGrow == TypeOK /\ Fault => faults' = faults + 1 /\ faults' >= faults
BY PipelineAssumption DEF TypeOK, Fault

(* Check is nowhere near its insert and commit, before and after. *)
LEMMA SpawnOutside ==
  ASSUME IInv, SInv, IInv', UNCHANGED <<row, spawned>>, faults' >= faults,
         pc["Check"] # "commit", pc'["Check"] \notin {"insert", "commit"}
  PROVE  SInv'
<1>1. \A t \in TaskId : (Ended(t) \/ Spawning(t)) <=> (Ended(t)' \/ Spawning(t)')
  BY DEF Ended, Spawning
<1>2. InsertsForGas'
  BY DEF InsertsForGas
<1> QED BY <1>1, <1>2, SpawnQuiet

-----------------------------------------------------------------------------
(* The actions. *)

LEMMA InitSInv == Init => SInv
<1> SUFFICES ASSUME Init PROVE SInv
  OBVIOUS
<1>1. InsertsForGas
  BY DEF Init, IdlePc, InsertsForGas, Service, Stage
<1>2. ASSUME NEW t \in TaskId
      PROVE  spawned[t] = 0 /\ Due(t) = 0 /\ faults = 0
  <2>1. NoRow.state = -1
    BY NoRowType
  <2> QED BY <2>1 DEF Init, Due, Spawning, IdlePc, Service, Stage
<1> QED BY <1>1, <1>2 DEF SInv, GasTxSpawnsOnce

(* A new row is due nothing, and Check does not hold it. *)
LEMMA SpawnInsert ==
  ASSUME IInv, NEW t \in TaskId, NEW type \in {GasTx, CollectTx}, NEW u \in User,
         row[t].state = Absent, row' = [row EXCEPT ![t] = NewRow(type, u)]
  PROVE  /\ \A v \in TaskId : v # t => row'[v] = row[v]
         /\ ~Ended(t) /\ ~Ended(t)'
         /\ pc["Check"] \in Working("Check") => at["Check"] # t
<1>1. NewRow(type, u).state = 0
  BY NewRowType
<1>2. row'[t] = NewRow(type, u) /\ \A v \in TaskId : v # t => row'[v] = row[v]
  BY DEF IInv, TypeOK
<1>3. pc["Check"] \in Working("Check") => at["Check"] # t
  BY CheckedRow
<1> QED BY <1>1, <1>2, <1>3 DEF Ended

LEMMA EnqueueSInv ==
  ASSUME IInv, SInv, IInv', NEW t \in TaskId, NEW type \in {GasTx, CollectTx}, NEW u \in User,
         Enqueue(t, type, u)
  PROVE  SInv'
<1> USE DEF Enqueue, memory
<1>1. /\ \A v \in TaskId : v # t => row'[v] = row[v]
      /\ ~Ended(t) /\ ~Ended(t)'
      /\ pc["Check"] \in Working("Check") => at["Check"] # t
  BY SpawnInsert
<1>2. ASSUME NEW v \in TaskId
      PROVE  (Ended(v) \/ Spawning(v)) <=> (Ended(v)' \/ Spawning(v)')
  BY <1>1, WorkingValues DEF Ended, Spawning
<1>3. InsertsForGas'
  BY <1>1, CheckedRow, WorkingValues DEF SInv, InsertsForGas
<1>4. faults' >= faults
  BY DEF IInv, TypeOK
<1> QED BY <1>2, <1>3, <1>4, SpawnQuiet

(* The commit that ends a gas row; no other commit ends one. *)
LEMMA CommitSInv ==
  ASSUME IInv, SInv, IInv', NEW s \in Stage, Commit(s)
  PROVE  SInv'
<1>0. PICK t : t = at[s]
  OBVIOUS
<1> DEFINE new == [Mem(s) EXCEPT !.state = NextState(s, Mem(s))]
           x   == XormUpdate(row[t], new)
<1>1. /\ t \in TaskId /\ row[t] \in Row /\ Mem(s) \in Row
      /\ row[t].state = StateOf[s]
      /\ Mem(s).type = row[t].type
  BY <1>0, HandledRow, WorkingValues DEF Commit, Stage
<1>2. NextState(s, Mem(s)) \in 1..5
  BY <1>1, NextStateType
<1>3. /\ new \in Row
      /\ new.state = NextState(s, Mem(s))
      /\ new.type = Mem(s).type
  BY <1>1, <1>2 DEF Row
<1> HIDE DEF new
<1>4. x.state = NextState(s, Mem(s)) /\ x.type = row[t].type
  BY <1>1, <1>2, <1>3, XormUpdateType
<1>5. row' = [row EXCEPT ![t] = x]
  BY <1>0 DEF Commit, new
<1> HIDE DEF x
<1>6. \A v \in TaskId : row'[v] = IF v = t THEN x ELSE row[v]
  BY <1>5 DEF IInv, TypeOK
<1>7. ~Ended(t)
  BY <1>1, StateOfValues DEF Ended
<1>8. faults' >= faults
  BY DEF IInv, TypeOK, Commit
<1>9. CASE s = "Check"
  <2>1. pc'["Check"] \notin {"insert", "commit"}
    BY <1>9 DEF Commit, Release, Goto, IInv, TypeOK, Stage, Service
  <2>2. Ended(t)' <=> row[t].type = GasTx
    BY <1>1, <1>4, <1>6, <1>9, NextStateType DEF Ended
  <2>3. ASSUME NEW v \in TaskId
        PROVE  (Ended(v) \/ Spawning(v)) <=> (Ended(v)' \/ Spawning(v)')
    BY <1>0, <1>6, <1>7, <1>9, <2>1, <2>2 DEF Ended, Spawning, Commit
  <2>4. InsertsForGas'
    BY <2>1 DEF InsertsForGas
  <2> QED BY <1>8, <2>3, <2>4, SpawnQuiet DEF Commit
<1>10. CASE s # "Check"
  <2>1. pc'["Check"] = pc["Check"] /\ at'["Check"] = at["Check"]
    BY <1>10, OtherRelease DEF Commit
  <2>2. ~Ended(t)'
    BY <1>1, <1>4, <1>6, <1>10, NextStateType DEF Ended, Stage
  <2>3. pc["Check"] \in Working("Check") => at["Check"] # t
    BY <1>0, <1>1, <1>10, CheckedRow, StateOfValues, StateOfInjective DEF Stage
  <2>4. ASSUME NEW v \in TaskId
        PROVE  (Ended(v) \/ Spawning(v)) <=> (Ended(v)' \/ Spawning(v)')
    BY <1>6, <1>7, <2>1, <2>2, <2>3, WorkingValues DEF Ended, Spawning
  <2>5. InsertsForGas'
    BY <1>6, <2>1, <2>3, CheckedRow, WorkingValues DEF SInv, InsertsForGas
  <2> QED BY <1>8, <2>4, <2>5, SpawnQuiet DEF Commit
<1> QED BY <1>9, <1>10

LEMMA PassSInv ==
  ASSUME IInv, SInv, IInv', NEW s \in Stage, PassStep(s)
  PROVE  SInv'
<1>0. s \in Service /\ faults \in Nat
  BY DEF Service, IInv, TypeOK
<1>1. CASE Query(s) \/ QueryFails(s)
  <2>1. /\ pc[s] = "query" /\ \E l \in {"next", "idle"} : Goto(s, l)
        /\ UNCHANGED <<row, at, spawned>> /\ faults' >= faults
    BY <1>0, <1>1, FaultsGrow DEF Query, QueryFails, IInv, TypeOK
  <2>2. CASE s = "Check"
    BY <2>1, <2>2, SpawnOutside DEF Goto, IInv, TypeOK, Service, Stage
  <2>3. CASE s # "Check"
    BY <1>0, <2>1, <2>3, OtherStage, SpawnElsewhere
  <2> QED BY <2>2, <2>3
<1>2. ASSUME NEW t \in TaskId, Take(s, t) PROVE SInv'
  <2>1. CASE s = "Check"
    <3>1. pc["Check"] = "next" /\ pc'["Check"] = "check" /\ faults' >= faults
      BY <1>0, <1>2, <2>1 DEF Take, Goto, FirstStep, IInv, TypeOK, Service, Stage
    <3> QED BY <1>2, <3>1, SpawnOutside DEF Take
  <2>2. CASE s # "Check"
    <3>1. /\ pc'["Check"] = pc["Check"] /\ at'["Check"] = at["Check"]
          /\ faults' >= faults
      BY <1>0, <1>2, <2>2 DEF Take, Goto, IInv, TypeOK, Service, Stage
    <3> QED BY <1>2, <3>1, SpawnElsewhere DEF Take
  <2> QED BY <2>1, <2>2
<1>3. CASE Commit(s)
  BY <1>3, CommitSInv
<1>4. CASE CommitFails(s)
  <2>1. faults' = faults + 1
    BY <1>4 DEF CommitFails, Fault
  <2>2. InsertsForGas'
    <3>1. CASE s = "Check"
      BY <1>4, <3>1 DEF CommitFails, Release, Goto, InsertsForGas, IInv, TypeOK, Service, Stage
    <3>2. CASE s # "Check"
      BY <1>4, <3>2, OtherRelease DEF CommitFails, SInv, InsertsForGas
    <3> QED BY <3>1, <3>2
  <2> QED BY <1>4, <2>1, <2>2, SpawnFault DEF CommitFails
<1> QED BY <1>1, <1>2, <1>3, <1>4, Zenon DEF PassStep

LEMMA CheckSInv ==
  ASSUME IInv, SInv, IInv', CheckStep
  PROVE  SInv'
<1>0. "Check" \in Stage /\ "Check" \in Service /\ faults \in Nat
  BY DEF Service, Stage, IInv, TypeOK
<1>1. CASE CheckCollectTx
  <2>1. /\ pc["Check"] = "check" /\ pc'["Check"] = "commit" /\ at' = at
        /\ row[at["Check"]].type = CollectTx
    BY <1>1, CheckedRow, WorkingValues DEF CheckCollectTx, Goto, IInv, TypeOK, Service, Stage
  <2>2. \A v \in TaskId : (Ended(v) \/ Spawning(v)) <=> (Ended(v)' \/ Spawning(v)')
    BY <1>1, <2>1 DEF Ended, Spawning, CheckCollectTx
  <2>3. InsertsForGas'
    BY <2>1 DEF InsertsForGas
  <2> QED BY <1>0, <1>1, <2>2, <2>3, SpawnQuiet DEF CheckCollectTx
<1>2. CASE CheckGasTx
  <2>1. /\ pc["Check"] = "check" /\ pc'["Check"] = "insert" /\ at' = at
        /\ row[at["Check"]].type = GasTx
    BY <1>2, CheckedRow, WorkingValues DEF CheckGasTx, Goto, IInv, TypeOK, Service, Stage
  <2>2. \A v \in TaskId : (Ended(v) \/ Spawning(v)) <=> (Ended(v)' \/ Spawning(v)')
    BY <1>2, <2>1 DEF Ended, Spawning, CheckGasTx
  <2>3. InsertsForGas'
    BY <1>2, <2>1 DEF InsertsForGas, CheckGasTx
  <2> QED BY <1>0, <1>2, <2>2, <2>3, SpawnQuiet DEF CheckGasTx
<1>3. CASE CheckGasTxFails
  <2>1. pc["Check"] = "check" /\ pc'["Check"] \notin {"insert", "commit"}
    BY <1>3 DEF CheckGasTxFails, Release, Goto, IInv, TypeOK, Service, Stage
  <2>2. faults' >= faults
    BY <1>3, FaultsGrow DEF CheckGasTxFails, IInv
  <2> QED BY <1>3, <2>1, <2>2, SpawnOutside DEF CheckGasTxFails
<1>4. CASE InsertCollectSubTxFails
  <2>1. pc'["Check"] = "commit"
    BY <1>4 DEF InsertCollectSubTxFails, Goto, IInv, TypeOK, Service, Stage
  <2>2. InsertsForGas' /\ faults' = faults + 1
    BY <1>4, <2>1 DEF InsertsForGas, InsertCollectSubTxFails, Fault
  <2> QED BY <1>4, <2>2, SpawnFault DEF InsertCollectSubTxFails
<1>5. ASSUME NEW t \in TaskId \ SrcTask, InsertCollectSubTx(t)
      PROVE  SInv'
  <2> DEFINE g == at["Check"]
  <2>1. /\ pc["Check"] = "insert" /\ pc'["Check"] = "commit" /\ at' = at /\ faults' = faults
        /\ spawned' = [spawned EXCEPT ![g] = @ + 1]
    BY <1>5 DEF InsertCollectSubTx, Goto, IInv, TypeOK, Service, Stage
  <2>2. /\ g \in TaskId
        /\ row[g].type = GasTx /\ row[g].state = 3
        /\ Mem("Check").user \in User
    BY <2>1, CheckedRow, HandledRow, WorkingValues DEF SInv, InsertsForGas, Row, Stage
  <2>3. /\ \A v \in TaskId : v # t => row'[v] = row[v]
        /\ ~Ended(t) /\ ~Ended(t)'
        /\ g # t
    BY <1>5, <2>1, <2>2, SpawnInsert, WorkingValues DEF InsertCollectSubTx
  <2>4. Due(g) = 0 /\ Due(g)' = 1
    BY <2>1, <2>2, <2>3 DEF Due, Spawning
  <2>5. ASSUME NEW v \in TaskId, v # g
        PROVE  Due(v)' = Due(v) /\ spawned'[v] = spawned[v]
    BY <2>1, <2>3, <2>5 DEF Due, Spawning, Ended, IInv, TypeOK
  <2>6. spawned'[g] = spawned[g] + 1 /\ spawned[g] \in Nat
    BY <2>1, <2>2 DEF IInv, TypeOK
  <2>7. ASSUME NEW v \in TaskId
        PROVE  (spawned[v] - Due(v) <= faults /\ Due(v) - spawned[v] <= faults)'
    <3>1. CASE v = g
      <4>1. spawned[g] - Due(g) <= faults /\ Due(g) - spawned[g] <= faults
        BY <2>2 DEF SInv, GasTxSpawnsOnce
      <4> QED BY <1>0, <2>1, <2>4, <2>6, <3>1, <4>1
    <3>2. CASE v # g
      BY <2>1, <2>5, <3>2 DEF SInv, GasTxSpawnsOnce
    <3> QED BY <3>1, <3>2
  <2> QED BY <2>1, <2>7 DEF SInv, GasTxSpawnsOnce, InsertsForGas
<1> QED BY <1>1, <1>2, <1>3, <1>4, <1>5 DEF CheckStep

LEMMA NextSInv == IInv /\ SInv /\ IInv' /\ [Next]_vars => SInv'
<1> SUFFICES ASSUME IInv, SInv, IInv', [Next]_vars PROVE SInv'
  OBVIOUS
<1>0. faults \in Nat
  BY DEF IInv, TypeOK
<1>1. CASE Tick
  BY <1>0, <1>1, SpawnOutside DEF Tick, Service, Stage
<1>2. CASE Crash
  <2>1. InsertsForGas'
    BY <1>2 DEF Crash, IdlePc, InsertsForGas, Service, Stage
  <2> QED BY <1>2, <2>1, SpawnFault DEF Crash, Fault
<1>3. ASSUME NEW t \in SrcTask, NEW type \in {GasTx, CollectTx}, NEW u \in User,
             Enqueue(t, type, u)
      PROVE  SInv'
  <2>1. t \in TaskId
    BY PipelineAssumption
  <2> QED BY <1>3, <2>1, EnqueueSInv
<1>4. CASE CollectDone
  <2>1. pc'["Check"] = pc["Check"]
    BY <1>4, OtherStage DEF CollectDone, Service, Stage
  <2> QED BY <1>0, <1>4, <2>1, SpawnElsewhere DEF CollectDone
<1>5. ASSUME NEW s \in Stage, PassStep(s) PROVE SInv'
  BY <1>5, PassSInv
<1>6. CASE AssemblyStep \/ SignStep
  <2>1. /\ UNCHANGED <<row, at, spawned>>
        /\ \E s \in Service \ {"Check"} : \E l : Goto(s, l)
    BY <1>6 DEF AssemblyStep, NonceFromTable, NoNonceInTable, NonceFromNode,
       SignStep, SignTx, SignRefused, Service, Stage
  <2>2. faults' >= faults
    BY <1>0, <1>6, FaultsGrow DEF AssemblyStep, NonceFromTable, NoNonceInTable, NonceFromNode,
       SignStep, SignTx, SignRefused, IInv
  <2>3. pc'["Check"] = pc["Check"]
    BY <2>1, OtherStage
  <2> QED BY <2>1, <2>2, <2>3, SpawnElsewhere
<1>7. CASE BroadcastStep
  <2>0. "Broadcast" \in Service /\ "Broadcast" \in Stage
    BY DEF Service, Stage
  <2>1. CASE SendAccepted \/ SendReplaces
    BY <1>0, <2>0, <2>1, OtherStage, SpawnElsewhere DEF SendAccepted, SendReplaces
  <2>2. CASE SendRejected \/ SendUnfunded \/ SendLost \/ SendAnswerLost \/ SignatureRejected
    <3>1. /\ Release("Broadcast") /\ UNCHANGED <<row, spawned>>
          /\ faults' >= faults
      BY <1>0, <2>2, FaultsGrow DEF SendRejected, SendUnfunded, SendLost, SendAnswerLost,
         SignatureRejected, IInv
    <3> QED BY <2>0, <3>1, OtherRelease, SpawnElsewhere
  <2> QED BY <1>7, <2>1, <2>2 DEF BroadcastStep
<1>8. CASE CheckStep
  BY <1>8, CheckSInv
<1>9. ASSUME NEW a \in Addr, Mine(a) PROVE SInv'
  BY <1>0, <1>9, SpawnElsewhere DEF Mine, memory
<1>10. CASE UNCHANGED vars
  BY <1>0, <1>10, SpawnElsewhere DEF vars, memory
<1> QED BY <1>1, <1>2, <1>3, <1>4, <1>5, <1>6, <1>7, <1>8, <1>9, <1>10 DEF Next

(* One collect row for each gas row, up to one per failure. *)
THEOREM GasRowsSpawnOnce == Spec => []GasTxSpawnsOnce
<1>1. SInv => GasTxSpawnsOnce
  BY DEF SInv
<1> QED BY <1>1, InitSInv, NextSInv, Invariance, PTL DEF Spec

=============================================================================
