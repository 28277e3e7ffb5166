----------------------------- MODULE MCSenderIds ------------------------------
(* Instances of SenderIds for TLC.                                           *)
EXTENDS SenderIds, TLC

CONSTANTS t1, t2, e1, e2

\* Nothing tells the embeddable subsenders apart.
EmbeddableSymmetry == Permutations({e1, e2})
=============================================================================
