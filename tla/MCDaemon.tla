------------------------------ MODULE MCDaemon ------------------------------
(* An instance of Daemon for TLC: one source row, five ids for its orders. *)
EXTENDS Daemon

CONSTANTS u1, k1

OneRow     == 1..1
ThreeTasks == 1..3
FiveTasks  == 1..5
Thresholds == [k \in Token |-> 1]

=============================================================================
