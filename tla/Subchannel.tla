----------------------------- MODULE Subchannel ------------------------------
(***************************************************************************)
(* What the README promises of a subchannel whose subsenders move between  *)
(* processes: like a Rust channel, it disconnects when no subsender is     *)
(* left, not before, and not before what they sent has been delivered.     *)
(***************************************************************************)
VARIABLES
  connected,   \* the subreceiver has not been told of the disconnection
  usable,      \* a subsender exists, in a process or on its way to one
  undelivered  \* messages sent and not yet delivered exist

vars == <<connected, usable, undelivered>>

TypeOK == {connected, usable, undelivered} \subseteq BOOLEAN

Init == connected = TRUE /\ usable = TRUE /\ undelivered = FALSE

Send ==
  /\ usable
  /\ undelivered' = TRUE
  /\ UNCHANGED <<connected, usable>>

\* Delivers one message, which may or may not be the last one waiting.
Deliver ==
  /\ connected /\ undelivered
  /\ undelivered' \in BOOLEAN
  /\ UNCHANGED <<connected, usable>>

LoseLastSubSender ==
  /\ usable
  /\ usable' = FALSE
  /\ UNCHANGED <<connected, undelivered>>

Disconnect ==
  /\ connected /\ ~usable /\ ~undelivered
  /\ connected' = FALSE
  /\ UNCHANGED <<usable, undelivered>>

Next == Send \/ Deliver \/ LoseLastSubSender \/ Disconnect

SafeSpec == Init /\ [][Next]_vars

Spec == SafeSpec /\ WF_vars(~usable /\ Deliver) /\ WF_vars(Disconnect)
=============================================================================
