---------------------------- MODULE MCScheduler ----------------------------
(* The scheduler with the five services Start creates. *)
EXTENDS Scheduler

MCService == {"Collect", "Assembly", "Sign", "Broadcast", "Check"}

=============================================================================
