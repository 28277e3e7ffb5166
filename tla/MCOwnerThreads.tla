---------------------------- MODULE MCOwnerThreads ----------------------------
(* Instances of OwnerThreads for TLC: one receiver and a via to it.          *)
EXTENDS OwnerThreads, TLC

CONSTANTS B, toB, t1, t2

MCAt == toB :> B

ThreadSymmetry == Permutations({t1, t2})
=============================================================================
