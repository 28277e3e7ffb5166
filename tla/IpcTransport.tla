---------------------------- MODULE IpcTransport -----------------------------
(***************************************************************************)
(* Subsenders carried by raw IPC channels (IpcChannelSubSender).           *)
(*                                                                         *)
(* Wrapping a subsender sends SendingViaIpcChannel to the owner, with the  *)
(* receiving end of a new keepalive channel; the sending end goes into the *)
(* wrapper.  A wrapper is turned back into a subsender where it arrives,   *)
(* under a source of its own, and the tracker of that source then holds    *)
(* the keepalive.  There is no via: all the transports of a subchannel     *)
(* share one key of the in-flight bag, EMPTY_SUBCHANNEL_ID, and its probe. *)
(*                                                                         *)
(* The owner's IPC channel stays open, and its subreceiver is not dropped. *)
(***************************************************************************)
EXTENDS Naturals, Sequences, FiniteSets

CONSTANTS
  Origin,      \* the source of the copies the subchannel was created with
  Transports,  \* transports: each has a keepalive, and a source if it arrives
  Empty,       \* EMPTY_SUBCHANNEL_ID, their common key
  NoProbe,
  OneAtATime,  \* scenario: a transport starts after the owner saw the last one's end
  MayCrash,    \* transports whose process may die once it has the subsender
  MaxSent,     \* bound: payloads sent, over a behaviour
  MaxHeld      \* bound: copies that cloning makes at one source

ASSUME IpcTransportAssumption ==
  /\ Origin \notin Transports
  /\ NoProbe \notin Transports
  /\ OneAtATime \in BOOLEAN
  /\ MayCrash \subseteq Transports
  /\ MaxSent \in Nat /\ MaxHeld \in Nat

Sources == Transports \cup {Origin}

VARIABLES
  sm,        \* the owner's state machine for the subchannel
  queue,     \* messages about the subchannel in the owner's IPC channel
  polling,   \* the owner's receive timed out and it is about to run probes
  wrapper,   \* wrapper[k]: how far transport k is
  held,      \* held[s]: copies at source s
  dropping,  \* sources whose tracker is gone, Disconnect not yet sent
  sent       \* payloads sent so far

vars == <<sm, queue, polling, wrapper, held, dropping, sent>>

SM == INSTANCE SubSenderStateMachine WITH Vias <- {Empty}

Messages ==
       [type : {"Data"}]
  \cup [type : {"SendingViaIpcChannel", "Received"}, transport : Transports]
  \cup [type : {"Disconnect"}, source : Sources]

Data                    == [type |-> "Data"]
SendingViaIpcChannel(k) == [type |-> "SendingViaIpcChannel", transport |-> k]
Received(k)             == [type |-> "Received", transport |-> k]
Disconnect(s)           == [type |-> "Disconnect", source |-> s]

TypeOK ==
  /\ sm \in SM!StateMachines(Transports)
  /\ queue \in Seq(Messages)
  /\ polling \in BOOLEAN
  /\ wrapper \in [Transports -> {"unused", "wrapped", "unwrapped", "lost", "crashed"}]
  /\ held \in [Sources -> Nat]
  /\ dropping \subseteq Sources
  /\ sent \in Nat

Init ==
  /\ sm = SM!New(Origin)
  /\ queue = <<>>
  /\ polling = FALSE
  /\ wrapper = [k \in Transports |-> "unused"]
  /\ held = [s \in Sources |-> IF s = Origin THEN 1 ELSE 0]
  /\ dropping = {}
  /\ sent = 0

-----------------------------------------------------------------------------
(* The processes that hold copies or wrappers.                             *)

ToOwner(m) == queue' = Append(queue, m)

\* A copy at s is given up; the last one takes the tracker along.
GiveUp(s) ==
  /\ held' = [held EXCEPT ![s] = @ - 1]
  /\ dropping' = IF held[s] = 1 THEN dropping \cup {s} ELSE dropping

SendData(s) ==
  /\ held[s] > 0 /\ sent < MaxSent
  /\ sent' = sent + 1
  /\ ToOwner(Data)
  /\ UNCHANGED <<sm, polling, wrapper, held, dropping>>

Clone(s) ==
  /\ held[s] \in 1 .. MaxHeld - 1
  /\ held' = [held EXCEPT ![s] = @ + 1]
  /\ UNCHANGED <<sm, queue, polling, wrapper, dropping, sent>>

DropCopy(s) ==
  /\ held[s] > 0
  /\ GiveUp(s)
  /\ UNCHANGED <<sm, queue, polling, wrapper, sent>>

\* The tracker's drop sends Disconnect, then lets its keepalive go.
FinishDrop(s) ==
  /\ s \in dropping
  /\ dropping' = dropping \ {s}
  /\ ToOwner(Disconnect(s))
  /\ UNCHANGED <<sm, polling, wrapper, held, sent>>

\* As far as the owner can tell, no transport is under way.  No code waits for
\* this: it is what a program has to see to, to be in the scenario OneAtATime.
NoneUnderWay ==
  /\ sm.inFlight[Empty] = 0
  /\ \A i \in DOMAIN queue : queue[i].type \in {"Data", "Disconnect"}

\* Faulty variant (README, Mutants): the copy goes before it is counted.
WrapDropsFirst(s, k) ==
  /\ held[s] > 0 /\ wrapper[k] = "unused"
  /\ OneAtATime => NoneUnderWay
  /\ wrapper' = [wrapper EXCEPT ![k] = "wrapped"]
  /\ held' = [held EXCEPT ![s] = @ - 1]
  /\ queue' = queue \o (IF held[s] = 1 THEN <<Disconnect(s)>> ELSE <<>>)
                    \o <<SendingViaIpcChannel(k)>>
  /\ UNCHANGED <<sm, polling, dropping, sent>>

\* The wrapped copy is consumed, after the owner was told.
Wrap(s, k) ==
  /\ held[s] > 0 /\ wrapper[k] = "unused"
  /\ OneAtATime => NoneUnderWay
  /\ wrapper' = [wrapper EXCEPT ![k] = "wrapped"]
  /\ ToOwner(SendingViaIpcChannel(k))
  /\ GiveUp(s)
  /\ UNCHANGED <<sm, polling, sent>>

\* into_sub_sender (its Connect message has no part in the lifecycle)
Unwrap(k) ==
  /\ wrapper[k] = "wrapped"
  /\ wrapper' = [wrapper EXCEPT ![k] = "unwrapped"]
  /\ held' = [held EXCEPT ![k] = 1]
  /\ ToOwner(Received(k))
  /\ UNCHANGED <<sm, polling, dropping, sent>>

\* The wrapper is dropped, or the process or IPC channel it is in goes.
LoseWrapper(k) ==
  /\ wrapper[k] = "wrapped"
  /\ wrapper' = [wrapper EXCEPT ![k] = "lost"]
  /\ UNCHANGED <<sm, queue, polling, held, dropping, sent>>

\* The process that has unwrapped the subsender dies.
Crash(k) ==
  /\ k \in MayCrash
  /\ held[k] > 0 \/ k \in dropping
  /\ wrapper' = [wrapper EXCEPT ![k] = "crashed"]
  /\ held' = [held EXCEPT ![k] = 0]
  /\ dropping' = dropping \ {k}
  /\ UNCHANGED <<sm, queue, polling, sent>>

-----------------------------------------------------------------------------
(* The owner, as in Lifecycle.                                             *)

KeepaliveOpen(k) == wrapper[k] = "wrapped" \/ held[k] > 0 \/ k \in dropping

Handle(type) ==
  /\ ~polling
  /\ queue # <<>> /\ Head(queue).type = type
  /\ queue' = Tail(queue)
  /\ UNCHANGED <<polling, wrapper, held, dropping, sent>>

HandleData == Handle("Data") /\ UNCHANGED sm

\* Faulty variant (README, Mutants): the probe of an earlier transport stays.
HandleSendingKeepingProbe ==
  /\ Handle("SendingViaIpcChannel")
  /\ sm' = [sm EXCEPT !.inFlight[Empty] = @ + 1]

HandleSendingViaIpcChannel ==
  /\ Handle("SendingViaIpcChannel")
  /\ sm' = SM!ToBeSent(sm, Empty, Head(queue).transport)

HandleReceived ==
  /\ Handle("Received")
  /\ sm' = SM!Received(sm, Empty, Head(queue).transport)

HandleDisconnect ==
  /\ Handle("Disconnect")
  /\ sm' = SM!Disconnect(sm, Head(queue).source)

TimeOut ==
  /\ ~polling /\ queue = <<>>
  /\ polling' = TRUE
  /\ UNCHANGED <<sm, queue, wrapper, held, dropping, sent>>

\* Faulty variant (README, Mutants): a closed keepalive passes for an empty one.
FailingProbesBlind == {}

\* A probe fails when its keepalive is closed; an empty one is a good sign.
FailingProbes == {k \in Transports : ~KeepaliveOpen(k)}

Poll ==
  /\ polling
  /\ polling' = FALSE
  /\ sm' = SM!Poll(sm, FailingProbes)
  /\ UNCHANGED <<queue, wrapper, held, dropping, sent>>

\* Transports the owner knows of, and for whose receipt it has yet to wait.
UnderWay ==
  {k \in Transports :
     /\ ~\E i \in DOMAIN queue : queue[i] = SendingViaIpcChannel(k)
     /\ wrapper[k] = "wrapped" \/ \E i \in DOMAIN queue : queue[i] = Received(k)}

\* A failing probe takes the entry of a transport under way, its own or another's.
WritesOffUnderWay ==
  /\ Poll
  /\ SM!LostVias(sm, FailingProbes) # {}
  /\ UnderWay # {}

-----------------------------------------------------------------------------
HolderStep(s) ==
  \/ SendData(s)
  \/ Clone(s)
  \/ DropCopy(s)
  \/ FinishDrop(s)
  \/ \E k \in Transports : Wrap(s, k)

TransportStep(k) == Unwrap(k) \/ LoseWrapper(k) \/ Crash(k)

OwnerStep ==
  \/ HandleData
  \/ HandleSendingViaIpcChannel
  \/ HandleReceived
  \/ HandleDisconnect
  \/ TimeOut
  \/ Poll

Next ==
  \/ \E s \in Sources : HolderStep(s)
  \/ \E k \in Transports : TransportStep(k)
  \/ OwnerStep

Spec == Init /\ [][Next]_vars

\* The owner keeps receiving, and a drop that has begun runs to its end.
FairSpec ==
  Spec /\ WF_vars(OwnerStep) /\ \A s \in Sources : WF_vars(FinishDrop(s))

\* Transports may overlap.  Left out are the polls that go wrong, as the one of
\* IpcTransportShared does (README, Known disagreements).
TrueLossesSpec == Init /\ [][Next /\ ~WritesOffUnderWay]_vars
-----------------------------------------------------------------------------
(* Properties.                                                             *)

\* A subsender, or a wrapper that can still become one.
Usable ==
  \/ \E s \in Sources : held[s] > 0
  \/ \E k \in Transports : wrapper[k] = "wrapped"

\* The subchannel is not disconnected while a subsender or a wrapper of one
\* exists, wherever it is (README, Subsender lifecycle).
NoPrematureDisconnect == Usable => sm.maybe

\* While a wrapper the owner has been told of is in transit, the subchannel is not
\* disconnected for want of its entry (ipc_channel_sub_sender.rs: the notification
\* is sent "so the subchannel state machine does not signal premature
\* disconnection while the transport is in transit").  Its own probe cannot fail,
\* so that with a key for each transport this would hold.
NoDisconnectInTransit ==
  (\E k \in UnderWay : wrapper[k] = "wrapped") => sm.maybe \/ sm.inFlight[Empty] > 0

\* What was sent before the last subsender went is received (SubReceiver::recv:
\* "messages sent before the SubSenders disconnect can still be properly
\* received").
NoDataLost == (\E i \in DOMAIN queue : queue[i].type = "Data") => sm.maybe

\* The owner is told when no subsender and no wrapper is left, whatever became
\* of them (protocol.rs, SendingViaIpcChannel: the keepalive is there to detect
\* the crash of the process that has the wrapper "or the SubSender reconstructed
\* from it").
EventuallyDisconnected == ~Usable ~> ~sm.maybe

NoneCrashed == \A k \in Transports : wrapper[k] # "crashed"

\* The same, when the subsenders that were unwrapped have been dropped.  The
\* wrappers may have been lost on their way.
EventuallyDisconnectedUnlessCrashed == ~Usable ~> (~sm.maybe \/ ~NoneCrashed)

\* A wrapper the owner has been told of is counted once, and the probe under
\* the shared key is that of its own keepalive.
WrapperWatched ==
  \A k \in Transports :
    wrapper[k] = "wrapped" =>
      \/ \E i \in DOMAIN queue : queue[i] = SendingViaIpcChannel(k)
      \/ sm.inFlight[Empty] = 1 /\ sm.probes[Empty] = k
=============================================================================
