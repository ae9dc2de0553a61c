--------------------------- MODULE SchedulerProofs ---------------------------
(***************************************************************************)
(* The safety of Scheduler for any services and any number of exits.  The  *)
(* type invariant is inductive: its last conjunct, that services run in a  *)
(* tick only, is what wg.Wait is for, and both action properties rest on   *)
(* it.                                                                     *)
(***************************************************************************)
EXTENDS Scheduler, TLAPS

LEMMA InitType == Init => TypeOK
<1> SUFFICES ASSUME Init PROVE TypeOK
  OBVIOUS
<1>1. MaxCrashes \in Nat
  BY SchedulerAssumption
<1>2. crashes \in 0..MaxCrashes
  BY <1>1 DEF Init
<1> QED BY <1>2 DEF Init, TypeOK

LEMMA NextType == TypeOK /\ [Next]_schedVars => TypeOK'
<1> SUFFICES ASSUME TypeOK, [Next]_schedVars PROVE TypeOK'
  OBVIOUS
<1> USE DEF TypeOK
<1>1. CASE TimerFires \/ Signal \/ Close
  BY <1>1 DEF TimerFires, Signal, Close
<1>2. CASE Tick
  BY <1>2 DEF Tick
<1>3. ASSUME NEW s \in Service, Done(s) PROVE TypeOK'
  BY <1>3 DEF Done
<1>4. ASSUME NEW s \in Service, Hang(s) PROVE TypeOK'
  BY <1>4 DEF Hang
<1>5. CASE Rearm \/ Restart
  BY <1>5 DEF Rearm, Restart
<1>6. CASE Crash
  <2>1. MaxCrashes \in Nat
    BY SchedulerAssumption
  <2>2. crashes' \in 0..MaxCrashes
    BY <1>6, <2>1 DEF Crash
  <2> QED BY <1>6, <2>2 DEF Crash
<1>7. CASE UNCHANGED schedVars
  BY <1>7 DEF schedVars
<1> QED BY <1>1, <1>2, <1>3, <1>4, <1>5, <1>6, <1>7 DEF Next

(* The type invariant (TypeOK). *)
THEOREM SchedulerType == Spec => []TypeOK
BY InitType, NextType, PTL DEF Spec

(* A tick finds no service running (NoOverlap). *)
THEOREM TicksDoNotOverlap == Spec => NoOverlap
<1>1. TypeOK /\ [Next]_schedVars => [Tick => active = {}]_schedVars
  BY DEF TypeOK, Tick
<1> QED BY <1>1, SchedulerType, PTL DEF Spec, NoOverlap

(* Only an exit stops the program while a service runs (GracefulStop). *)
THEOREM StopsBetweenTicks == Spec => GracefulStop
<1> DEFINE Stop == proc # "stopped" /\ proc' = "stopped" /\ crashes' = crashes => active = {}
<1>1. TypeOK /\ [Next]_schedVars => [Stop]_schedVars
  <2> SUFFICES ASSUME TypeOK, Next, proc # "stopped", proc' = "stopped", crashes' = crashes
               PROVE  active = {}
    OBVIOUS
  <2>1. CASE Close
    BY <2>1 DEF TypeOK, Close
  <2>2. CASE Crash
    BY <2>2 DEF TypeOK, Crash
  <2>3. CASE TimerFires \/ Signal \/ Tick \/ Rearm \/ Restart
    BY <2>3 DEF TimerFires, Signal, Tick, Rearm, Restart
  <2>4. ASSUME NEW s \in Service, Done(s) \/ Hang(s) PROVE active = {}
    BY <2>4 DEF Done, Hang
  <2> QED BY <2>1, <2>2, <2>3, <2>4 DEF Next
<1> QED BY <1>1, SchedulerType, PTL DEF Spec, GracefulStop

=============================================================================
