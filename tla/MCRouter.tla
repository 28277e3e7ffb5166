------------------------------- MODULE MCRouter -------------------------------
(* Instances of Router for TLC.                                              *)
EXTENDS Router

CONSTANTS r1, r2, k1, k2

TwoChannels == [r \in {r1, r2} |-> IF r = r1 THEN k1 ELSE k2]

TwoOnFirst == [r \in {r1, r2} |-> IF r = r1 THEN 2 ELSE 0]
=============================================================================
