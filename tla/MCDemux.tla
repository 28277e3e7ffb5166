------------------------------- MODULE MCDemux -------------------------------
(* Instances of Demux for TLC: two subchannels and a guest on the second.    *)
EXTENDS Demux, TLC

CONSTANTS a, b, g

MCOn == g :> b
=============================================================================
