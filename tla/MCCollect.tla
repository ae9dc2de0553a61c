----------------------------- MODULE MCCollect -----------------------------
(* Instances of Collect for TLC: two source rows of one unit each, due at  *)
(* once in the token k1 and only together in the token k2.                 *)
EXTENDS Collect

CONSTANTS u1, u2, k1, k2

TwoRows    == 1..2
Thresholds == [k \in Token |-> IF k = k2 THEN 2 ELSE 1]

=============================================================================
