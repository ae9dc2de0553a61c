------------------------------- MODULE MCKyc -------------------------------
(* Instances of Kyc for TLC: two ticks a second, and a service whose clock *)
(* is up to a second off the operator's, or so far behind that it is out   *)
(* of the window on that side; a limit below the least, one that is used   *)
(* as it is, and one above the most.                                       *)
EXTENDS Kyc

FullAndShort  == {MaxSharedKeyLength(Curve) - 1, MaxSharedKeyLength(Curve)}
NearAndBehind == {-9} \cup -1..2
ThreeLimits   == {5, 12, 151}

=============================================================================
