----------------------------- MODULE Scheduler -----------------------------
(***************************************************************************)
(* The scheduler of the collect daemon (services/scheduler.go) and the     *)
(* part of main.go that feeds it.                                          *)
(*                                                                         *)
(* One goroutine loops on a select between the signal channel and a timer. *)
(* A timer event starts one goroutine per service, waits for all of them   *)
(* on a WaitGroup, and only then re-arms the timer.  A service's Run may   *)
(* end normally or with an error (both reach wg.Done), and logrus.Fatal or *)
(* a panic inside any of them ends the whole process.  Or Run never        *)
(* returns: its remote calls have no timeout (context.Background()).       *)
(***************************************************************************)
EXTENDS Naturals

CONSTANTS
  Service,     \* the services handed to the scheduler
  MaxCrashes   \* bound on the process exits that happen inside a tick

ASSUME SchedulerAssumption == Service # {} /\ MaxCrashes \in Nat

VARIABLES
  proc,     \* the scheduling goroutine: "select", "tick" or "stopped"
  timer,    \* "armed", "fired" (its event is in timer.C) or "spent"
  closeCh,  \* TRUE when the signal channel (capacity 1) holds a signal
  active,   \* the services whose goroutine has not called wg.Done
  hung,     \* those of them whose remote call will never return
  crashes   \* process exits so far (only to bound them)

schedVars == <<proc, timer, closeCh, active, hung, crashes>>

TypeOK ==
  /\ proc \in {"select", "tick", "stopped"}
  /\ timer \in {"armed", "fired", "spent"}
  /\ closeCh \in BOOLEAN
  /\ active \in SUBSET Service
  /\ hung \in SUBSET active
  /\ crashes \in 0..MaxCrashes
  /\ proc # "tick" => active = {}

(* NewTimer: armed, nobody running. *)
Init ==
  /\ proc = "select"
  /\ timer = "armed"
  /\ closeCh = FALSE
  /\ active = {}
  /\ hung = {}
  /\ crashes = 0

(* QueryInterval elapses. *)
TimerFires ==
  /\ proc = "select" /\ timer = "armed"
  /\ timer' = "fired"
  /\ UNCHANGED <<proc, closeCh, active, hung, crashes>>

(* The operator sends a signal; signal.Notify never blocks, so a signal    *)
(* that finds the one-slot channel full is dropped.                        *)
Signal ==
  /\ proc # "stopped"
  /\ closeCh' = TRUE
  /\ UNCHANGED <<proc, timer, active, hung, crashes>>

(* Mutant: the case breaks out of the select instead of returning. *)
CloseBreaks ==
  /\ proc = "select" /\ closeCh
  /\ closeCh' = FALSE
  /\ UNCHANGED <<proc, timer, active, hung, crashes>>

(* Mutant: the signal is honoured while services run. *)
CloseAtOnce ==
  /\ proc # "stopped" /\ closeCh
  /\ proc' = "stopped"
  /\ closeCh' = FALSE
  /\ active' = {}
  /\ hung' = {}
  /\ UNCHANGED <<timer, crashes>>

(* case <-t.closeCh: Start returns, and main with it. *)
Close ==
  /\ proc = "select" /\ closeCh
  /\ proc' = "stopped"
  /\ closeCh' = FALSE
  /\ UNCHANGED <<timer, active, hung, crashes>>

(* case <-timer.C: all services are started together. *)
Tick ==
  /\ proc = "select" /\ timer = "fired"
  /\ proc' = "tick"
  /\ timer' = "spent"
  /\ active' = Service
  /\ UNCHANGED <<closeCh, hung, crashes>>

(* A service's Run returned, with or without an error. *)
Done(s) ==
  /\ proc = "tick" /\ s \in active \ hung
  /\ active' = active \ {s}
  /\ UNCHANGED <<proc, timer, closeCh, hung, crashes>>

(* The node, the database or the sign service keeps a call for ever. *)
Hang(s) ==
  /\ proc = "tick" /\ s \in active
  /\ hung' = hung \cup {s}
  /\ UNCHANGED <<proc, timer, closeCh, active, crashes>>

(* Mutant: the loop does not wait for the WaitGroup. *)
RearmWithoutWait ==
  /\ proc = "tick"
  /\ proc' = "select"
  /\ timer' = "armed"
  /\ UNCHANGED <<closeCh, active, hung, crashes>>

(* Mutant: the timer is not reset after a pass. *)
RearmWithoutReset ==
  /\ proc = "tick" /\ active = {}
  /\ proc' = "select"
  /\ UNCHANGED <<timer, closeCh, active, hung, crashes>>

(* wg.Wait returns, the timer is re-armed and the loop selects again. *)
Rearm ==
  /\ proc = "tick" /\ active = {}
  /\ proc' = "select"
  /\ timer' = "armed"
  /\ UNCHANGED <<closeCh, active, hung, crashes>>

(* A Fatal or a panic in a service goroutine takes the process with it. *)
Crash ==
  /\ proc = "tick" /\ active # {} /\ crashes < MaxCrashes
  /\ crashes' = crashes + 1
  /\ proc' = "stopped"
  /\ active' = {}
  /\ hung' = {}
  /\ closeCh' = FALSE
  /\ UNCHANGED timer

(* The supervisor starts the program again: main and Start from the top. *)
Restart ==
  /\ proc = "stopped"
  /\ proc' = "select"
  /\ timer' = "armed"
  /\ UNCHANGED <<closeCh, active, hung, crashes>>

Next ==
  \/ TimerFires
  \/ Signal
  \/ Close
  \/ Tick
  \/ \E s \in Service : Done(s) \/ Hang(s)
  \/ Rearm
  \/ Crash
  \/ Restart

Spec == Init /\ [][Next]_schedVars

(***************************************************************************)
(* Fairness.  The runtime runs the scheduling goroutine and fires the      *)
(* timer, and a Run returns unless one of its remote calls never does.     *)
(* When both channels are ready Go's select picks one uniformly at random, *)
(* so a signal that is offered at every select is taken in the end: strong *)
(* fairness of Close.                                                      *)
(***************************************************************************)
Fairness ==
  /\ WF_schedVars(TimerFires)
  /\ WF_schedVars(Tick)
  /\ \A s \in Service : WF_schedVars(Done(s))
  /\ WF_schedVars(Rearm)
  /\ SF_schedVars(Close)

FairSpec == Spec /\ Fairness

-----------------------------------------------------------------------------

(* No service is started while a service of an earlier tick still runs:    *)
(* the passes of one service never overlap, which every service relies on  *)
(* when it rewrites the rows it has read (wg.Wait, scheduler.go:79).       *)
NoOverlap == [][Tick => active = {}]_schedVars

(* A signal never interrupts a pass: unless the process dies by Fatal or   *)
(* panic, it stops only when no service is running (the select is reached  *)
(* only between ticks, scheduler.go:57-60).                                *)
GracefulStop ==
  [][proc # "stopped" /\ proc' = "stopped" /\ crashes' = crashes
       => active = {}]_schedVars

(* A signal that has been delivered ends the program, however it races     *)
(* with the timer (scheduler.go:58-60), unless a remote call never         *)
(* returns: wg.Wait then keeps the loop from looking at the signal again.  *)
SignalStops == closeCh ~> (proc = "stopped" \/ hung # {})

(* Between two ticks the scheduler never sleeps forever: the timer that a  *)
(* tick consumed is re-armed after it (scheduler.go:81-84).                *)
TicksGoOn == (proc = "select") ~> (proc \in {"tick", "stopped"})

=============================================================================
