------------------------ MODULE SubSenderStateMachine ------------------------
(***************************************************************************)
(* The state machine of subchannel_lifecycle.rs that decides when a        *)
(* subchannel has no subsender left.  It is a value, and each method is an *)
(* operator from the value before the call to the value after it.  A call  *)
(* is taken here as one step; OwnerThreads takes the methods apart into    *)
(* their lock acquisitions.                                                *)
(*                                                                         *)
(*   maybe     whether the sender of the local queue is still there        *)
(*             (Option<T>): it is taken once, to deliver the Disconnect    *)
(*   sources   the sources that hold a copy of the subsender               *)
(*   inFlight  a bag: for each via, the copies sent on it, not yet received*)
(*   probes    for each via, the probe that tells whether it is alive      *)
(*                                                                         *)
(* Only a router calls switch_sender: the subchannel then delivers to the  *)
(* queue of the router in place of its own.                                *)
(*                                                                         *)
(* The disconnect, receive_failed and poll methods return the sender they  *)
(* take; here the caller compares maybe before and after.                  *)
(***************************************************************************)
EXTENDS Naturals

CONSTANTS Sources,  \* identities a copy can be held under (ORIGIN, a receiver's UUID, ...)
          Vias,     \* keys of the in-flight bag
          NoProbe   \* the value of probes for a key that is not in the map

StateMachines(Probes) ==
  [maybe    : BOOLEAN,
   sources  : SUBSET Sources,
   inFlight : [Vias -> Nat],
   probes   : [Vias -> Probes \cup {NoProbe}]]

New(initialSource) ==
  [maybe    |-> TRUE,
   sources  |-> {initialSource},
   inFlight |-> [v \in Vias |-> 0],
   probes   |-> [v \in Vias |-> NoProbe]]

-----------------------------------------------------------------------------
(* Faulty variants, one for each property they must break (README, Mutants). *)

WithoutOneUnguarded(bag, via) == [bag EXCEPT ![via] = @ - 1]

WithOneAsSet(bag, via) == [bag EXCEPT ![via] = 1]

VacantIfNoSources(sm) == sm.sources = {}

DisconnectIgnoringInFlight(sm, source) ==
  LET left == sm.sources \ {source}
  IN  [sm EXCEPT !.sources = left, !.maybe = @ /\ left # {}]

PollWithoutTaking(sm, failing) ==
  [sm EXCEPT
     !.inFlight = [v \in Vias |-> IF sm.probes[v] \in failing THEN 0 ELSE @[v]]]

ReceivedWithoutSource(sm, via, source) ==
  [sm EXCEPT !.inFlight[via] = IF @ = 0 THEN 0 ELSE @ - 1, !.probes[via] = NoProbe]

ReceivedKeepingEntry(sm, via, source) ==
  [sm EXCEPT !.sources = @ \cup {source}, !.probes[via] = NoProbe]

-----------------------------------------------------------------------------
NoneInFlight(sm) == \A v \in Vias : sm.inFlight[v] = 0

\* No copy is known to exist, neither at a source nor on its way.
Vacant(sm) == sm.sources = {} /\ NoneInFlight(sm)

TakeIfVacant(sm) == [sm EXCEPT !.maybe = @ /\ ~Vacant(sm)]

WithOne(bag, via) == [bag EXCEPT ![via] = @ + 1]

\* HashBag::remove: removing an absent element leaves the bag as it is.
WithoutOne(bag, via) == [bag EXCEPT ![via] = IF @ = 0 THEN 0 ELSE @ - 1]

-----------------------------------------------------------------------------
\* switch_sender puts a sender in whether or not there still is one.
SwitchSender(sm) == [sm EXCEPT !.maybe = TRUE]

ToBeSent(sm, via, probe) ==
  [sm EXCEPT !.inFlight = WithOne(sm.inFlight, via),
             !.probes   = [sm.probes EXCEPT ![via] = probe]]

\* received drops the probe of the via even when more copies are on it.
Received(sm, via, source) ==
  [sm EXCEPT !.inFlight = WithoutOne(sm.inFlight, via),
             !.sources  = sm.sources \cup {source},
             !.probes   = [sm.probes EXCEPT ![via] = NoProbe]]

Disconnect(sm, source) ==
  TakeIfVacant([sm EXCEPT !.sources = sm.sources \ {source}])

ReceiveFailed(sm, via) ==
  TakeIfVacant([sm EXCEPT !.inFlight = WithoutOne(sm.inFlight, via)])

\* The vias with copies in flight whose probe is one of those that now fail.
LostVias(sm, failing) ==
  {v \in Vias : sm.probes[v] \in failing /\ sm.inFlight[v] > 0}

\* Forgets the copies in flight on these vias, and their probes.
WriteOff(sm, lost) ==
  [sm EXCEPT
     !.inFlight = [v \in Vias |-> IF v \in lost THEN 0 ELSE sm.inFlight[v]],
     !.probes   = [v \in Vias |-> IF v \in lost THEN NoProbe ELSE sm.probes[v]]]

\* Polling stops once the sender has been taken.
Poll(sm, failing) ==
  IF sm.maybe THEN TakeIfVacant(WriteOff(sm, LostVias(sm, failing))) ELSE sm
=============================================================================
