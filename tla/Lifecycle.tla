------------------------------ MODULE Lifecycle ------------------------------
(***************************************************************************)
(* The life of the subsenders of one subchannel.                           *)
(*                                                                         *)
(* The owner holds the subreceiver and the state machine.  Everyone else   *)
(* reaches it through one FIFO: the IPC channel the owner demultiplexes.   *)
(* That channel stays open, its Channel being kept, say: recv also returns *)
(* when all senders to the IPC channel are gone, whatever became of them.  *)
(* Copies of the subsender are held under a source: ORIGIN where the       *)
(* subsender was created, the UUID of the IPC receiver it was received     *)
(* from elsewhere.  All the copies held under one source share a tracker,  *)
(* whose drop sends Disconnect.  A copy travels inside a Data message on   *)
(* another subchannel, its via, which ends at the IPC receiver At[via].    *)
(*                                                                         *)
(* A holder is a process with one thread using the subsender, unless it is *)
(* in Threaded: then a tracker may be on its way out in one thread while   *)
(* another receives a new copy.                                            *)
(***************************************************************************)
EXTENDS Naturals, Sequences, FiniteSets

CONSTANTS
  Receivers,  \* the IPC receivers other than the owner's that copies reach
  Origin,     \* the source of the copies the subchannel was created with
  Vias,       \* the subchannels copies of the subsender are sent on
  At,         \* At[v]: the IPC receiver that demultiplexes via v
  NoVia, NoProbe, FailedProbe,
  Crashing,   \* sources whose process may die
  Closing,    \* vias whose subreceiver may be dropped
  Leaving,    \* receivers whose IPC channel may be dropped by a live process
  Mistyped,   \* vias whose messages may fail to deserialize
  Threaded,   \* sources used by several threads of one process
  MaxSent,    \* bound: messages sent (payloads and copies), over a behaviour
  MaxHeld     \* bound: copies that cloning makes at one source

Sources == Receivers \cup {Origin}

ASSUME LifecycleAssumption ==
  /\ IsFiniteSet(Receivers)
  /\ Origin \notin Receivers
  /\ At \in [Vias -> Receivers]
  /\ NoVia \notin Vias
  /\ NoProbe \notin Vias \cup {FailedProbe}
  /\ FailedProbe \notin Vias
  /\ Crashing \subseteq Sources
  /\ Closing \subseteq Vias
  /\ Leaving \subseteq Receivers
  /\ Mistyped \subseteq Vias
  /\ Threaded \subseteq Sources
  /\ MaxSent \in Nat /\ MaxHeld \in Nat

VARIABLES
  sm,        \* the owner's state machine for the subchannel
  queue,     \* messages about the subchannel in the owner's IPC channel
  polling,   \* the owner's receive timed out and it is about to run probes
  held,      \* held[s]: copies at source s, the one being sent included
  sending,   \* sending[s]: the via for which s has sent Sending but not Data yet
  dropping,  \* dropping[s]: trackers of s that are gone, Disconnect not yet sent
  alive,     \* alive[s]: the process of source s runs
  open,      \* open[r]: the IPC channel of receiver r exists
  receiver,  \* receiver[v]: the subreceiver of via v
  transit,   \* transit[v]: copies in Data messages in the IPC channel of At[v]
  arrived,   \* arrived[v]: copies demultiplexed to via v, not yet received
  sent       \* messages sent so far

ownerVars  == <<sm, polling>>
holderVars == <<held, sending, dropping, alive>>
viaVars    == <<open, receiver, transit, arrived>>
vars == <<sm, queue, polling, held, sending, dropping, alive, open, receiver,
          transit, arrived, sent>>

SM == INSTANCE SubSenderStateMachine

\* A via's probe asks the response channel of At[v]; FailedProbe is || false.
Probes == Vias \cup {FailedProbe}

\* What the owner can find in its IPC channel about this subchannel.
Messages ==
       [type : {"Data"}]
  \cup [type : {"Sending", "ReceiveFailed"}, via : Vias]
  \cup [type : {"Received"}, via : Vias, source : Receivers]
  \cup [type : {"Disconnect"}, source : Sources]

Data             == [type |-> "Data"]
Sending(v)       == [type |-> "Sending", via |-> v]
ReceiveFailed(v) == [type |-> "ReceiveFailed", via |-> v]
Received(v, s)   == [type |-> "Received", via |-> v, source |-> s]
Disconnect(s)    == [type |-> "Disconnect", source |-> s]

TypeOK ==
  /\ sm \in SM!StateMachines(Probes)
  /\ queue \in Seq(Messages)
  /\ polling \in BOOLEAN
  /\ held \in [Sources -> Nat]
  /\ sending \in [Sources -> Vias \cup {NoVia}]
  /\ dropping \in [Sources -> Nat]
  /\ alive \in [Sources -> BOOLEAN]
  /\ open \in [Receivers -> BOOLEAN]
  /\ receiver \in [Vias -> {"open", "closing", "closed"}]
  /\ transit \in [Vias -> Nat]
  /\ arrived \in [Vias -> Nat]
  /\ sent \in Nat

Init ==
  /\ sm = SM!New(Origin)
  /\ queue = <<>>
  /\ polling = FALSE
  /\ held = [s \in Sources |-> IF s = Origin THEN 1 ELSE 0]
  /\ sending = [s \in Sources |-> NoVia]
  /\ dropping = [s \in Sources |-> 0]
  /\ alive = [s \in Sources |-> TRUE]
  /\ open = [r \in Receivers |-> TRUE]
  /\ receiver = [v \in Vias |-> "open"]
  /\ transit = [v \in Vias |-> 0]
  /\ arrived = [v \in Vias |-> 0]
  /\ sent = 0

ToOwner(m) == queue' = Append(queue, m)

-----------------------------------------------------------------------------
(* The holders.                                                            *)

\* The thread of s runs (any of them, when s has several).
Running(s) ==
  /\ alive[s]
  /\ s \in Threaded \/ (sending[s] = NoVia /\ dropping[s] = 0)

\* The thread of s is in its program, not in the drop of a subreceiver.
Ready(s) ==
  /\ Running(s)
  /\ s \in Threaded \/ \A v \in Vias : At[v] = s => receiver[v] # "closing"

\* Messages demultiplexed to a via keep the tracker of At[v] alive.
ArrivedAt(s) == \E v \in Vias : At[v] = s /\ arrived[v] > 0

Tracked(s) == held[s] > 0 \/ ArrivedAt(s)

\* In a step that gives up a copy at s: whether that was the last use of the
\* tracker, whose drop is then under way.
TrackerDrop(s) ==
  dropping' = IF Tracked(s)' THEN dropping ELSE [dropping EXCEPT ![s] = @ + 1]

\* Send a payload on the subchannel.
SendData(s) ==
  /\ Ready(s) /\ held[s] > 0
  /\ sent < MaxSent
  /\ sent' = sent + 1
  /\ ToOwner(Data)
  /\ UNCHANGED <<ownerVars, holderVars, viaVars>>

Clone(s) ==
  /\ Ready(s) /\ held[s] \in 1 .. MaxHeld - 1
  /\ held' = [held EXCEPT ![s] = @ + 1]
  /\ UNCHANGED <<ownerVars, queue, sending, dropping, alive, viaVars, sent>>

\* Drop a copy, but not one that another thread is sending.
DropCopy(s) ==
  /\ Ready(s)
  /\ held[s] > (IF sending[s] = NoVia THEN 0 ELSE 1)
  /\ held' = [held EXCEPT ![s] = @ - 1]
  /\ UNCHANGED <<ownerVars, queue, sending, alive, viaVars, sent>>
  /\ TrackerDrop(s)

\* The drop of a tracker ends with its Disconnect.
FinishDrop(s) ==
  /\ alive[s] /\ dropping[s] > 0
  /\ dropping' = [dropping EXCEPT ![s] = @ - 1]
  /\ ToOwner(Disconnect(s))
  /\ UNCHANGED <<ownerVars, held, sending, alive, viaVars, sent>>

\* Faulty variant (README, Mutants): Sending is sent for the last copy only.
BeginSendUncounted(s, v) ==
  /\ Ready(s) /\ sending[s] = NoVia /\ held[s] > 0
  /\ sent < MaxSent
  /\ sent' = sent + 1
  /\ sending' = [sending EXCEPT ![s] = v]
  /\ queue' = IF held[s] = 1 THEN Append(queue, Sending(v)) ELSE queue
  /\ UNCHANGED <<ownerVars, held, dropping, alive, viaVars>>

\* Sending a copy on via v: Sending goes to the owner first ...
BeginSend(s, v) ==
  /\ Ready(s) /\ sending[s] = NoVia /\ held[s] > 0
  /\ sent < MaxSent
  /\ sent' = sent + 1
  /\ sending' = [sending EXCEPT ![s] = v]
  /\ ToOwner(Sending(v))
  /\ UNCHANGED <<ownerVars, held, dropping, alive, viaVars>>

\* ... then Data to the other end of the via, which fails when that is gone.
\* The copy in the message is dropped as send returns.
EndSend(s) ==
  LET v == sending[s] IN
  /\ alive[s] /\ v # NoVia
  /\ transit' = IF open[At[v]] THEN [transit EXCEPT ![v] = @ + 1] ELSE transit
  /\ sending' = [sending EXCEPT ![s] = NoVia]
  /\ held' = [held EXCEPT ![s] = @ - 1]
  /\ UNCHANGED arrived
  /\ TrackerDrop(s)
  /\ UNCHANGED <<ownerVars, queue, alive, open, receiver, sent>>

-----------------------------------------------------------------------------
(* The other end of a via.                                                 *)

\* The demultiplexer takes a Data message off the IPC channel.  It finds or
\* makes the tracker of the receiver, then hands the message to the via's
\* local queue, or loses it, tracker and all, when the subreceiver is gone.
Demultiplex(v) ==
  LET r == At[v] IN
  /\ Running(r) /\ open[r] /\ transit[v] > 0
  /\ transit' = [transit EXCEPT ![v] = @ - 1]
  /\ UNCHANGED held
  /\ IF receiver[v] # "closed"
     THEN arrived' = [arrived EXCEPT ![v] = @ + 1] /\ UNCHANGED dropping
     ELSE UNCHANGED arrived /\ TrackerDrop(r)
  /\ UNCHANGED <<ownerVars, queue, sending, alive, open, receiver, sent>>

\* Deserializing the message confirms receipt to the owner.
Receive(v) ==
  LET r == At[v] IN
  /\ Ready(r) /\ receiver[v] = "open" /\ arrived[v] > 0
  /\ arrived' = [arrived EXCEPT ![v] = @ - 1]
  /\ held' = [held EXCEPT ![r] = @ + 1]
  /\ ToOwner(Received(v, r))
  /\ UNCHANGED <<ownerVars, sending, dropping, alive, open, receiver, transit, sent>>

\* The payload is not of the type asked for: the message goes, subsender and
\* all, and the owner is told nothing.
FailToDeserialize(v) ==
  LET r == At[v] IN
  /\ v \in Mistyped
  /\ Ready(r) /\ receiver[v] = "open" /\ arrived[v] > 0
  /\ arrived' = [arrived EXCEPT ![v] = @ - 1]
  /\ UNCHANGED held
  /\ TrackerDrop(r)
  /\ UNCHANGED <<ownerVars, queue, sending, alive, open, receiver, transit, sent>>

\* Dropping the subreceiver of a via: demultiplex what is in the IPC channel,
\* send ReceiveFailed for what is in the local queue, then close it.
DropReceiver(v) ==
  /\ v \in Closing
  /\ Ready(At[v]) /\ receiver[v] = "open"
  /\ receiver' = [receiver EXCEPT ![v] = "closing"]
  /\ UNCHANGED <<ownerVars, queue, holderVars, open, transit, arrived, sent>>

FailArrived(v) ==
  LET r == At[v] IN
  /\ Running(r) /\ receiver[v] = "closing" /\ arrived[v] > 0
  /\ arrived' = [arrived EXCEPT ![v] = @ - 1]
  /\ ToOwner(ReceiveFailed(v))
  /\ UNCHANGED held
  /\ TrackerDrop(r)
  /\ UNCHANGED <<ownerVars, sending, alive, open, receiver, transit, sent>>

CloseReceiver(v) ==
  /\ Running(At[v]) /\ receiver[v] = "closing"
  /\ transit[v] = 0 /\ arrived[v] = 0
  /\ receiver' = [receiver EXCEPT ![v] = "closed"]
  /\ UNCHANGED <<ownerVars, queue, holderVars, open, transit, arrived, sent>>

\* The last handle on an IPC channel goes: what is still in it is lost.
LeaveChannel(r) ==
  /\ r \in Leaving
  /\ Ready(r) /\ open[r]
  /\ \A v \in Vias : At[v] = r => receiver[v] = "closed"
  /\ open' = [open EXCEPT ![r] = FALSE]
  /\ transit' = [v \in Vias |-> IF At[v] = r THEN 0 ELSE transit[v]]
  /\ UNCHANGED <<ownerVars, queue, holderVars, receiver, arrived, sent>>

\* A process dies: no drop handler runs, and its IPC channel goes.
Crash(s) ==
  /\ s \in Crashing /\ alive[s]
  /\ alive' = [alive EXCEPT ![s] = FALSE]
  /\ held' = [held EXCEPT ![s] = 0]
  /\ sending' = [sending EXCEPT ![s] = NoVia]
  /\ dropping' = [dropping EXCEPT ![s] = 0]
  /\ open' = [r \in Receivers |-> r # s /\ open[r]]
  /\ transit' = [v \in Vias |-> IF At[v] = s THEN 0 ELSE transit[v]]
  /\ arrived' = [v \in Vias |-> IF At[v] = s THEN 0 ELSE arrived[v]]
  /\ UNCHANGED <<ownerVars, queue, receiver, sent>>

-----------------------------------------------------------------------------
(* The owner: recv handles messages until 100 ms pass without one, then    *)
(* releases the demultiplexer and runs the probes.                         *)

Handle(type) ==
  /\ ~polling
  /\ queue # <<>> /\ Head(queue).type = type
  /\ queue' = Tail(queue)
  /\ UNCHANGED <<polling, holderVars, viaVars, sent>>

HandleData == Handle("Data") /\ UNCHANGED sm

\* The owner keeps a sender to the via's IPC channel for its probe.  The first
\* Sending from a sender carries it and the owner connects, which fails when
\* the channel is gone; later ones carry an identifier, which is looked up and
\* taken here to be found (SenderIds says when it is not).
HandleSending ==
  /\ Handle("Sending")
  /\ LET v == Head(queue).via IN
     \/ sm' = SM!ToBeSent(sm, v, v)
     \/ /\ ~open[At[v]]
        /\ sm' = SM!ReceiveFailed(SM!ToBeSent(sm, v, FailedProbe), v)

HandleReceived ==
  /\ Handle("Received")
  /\ sm' = SM!Received(sm, Head(queue).via, Head(queue).source)

HandleReceiveFailed ==
  /\ Handle("ReceiveFailed")
  /\ sm' = SM!ReceiveFailed(sm, Head(queue).via)

HandleDisconnect ==
  /\ Handle("Disconnect")
  /\ sm' = SM!Disconnect(sm, Head(queue).source)

TimeOut ==
  /\ ~polling /\ queue = <<>>
  /\ polling' = TRUE
  /\ UNCHANGED <<sm, queue, holderVars, viaVars, sent>>

\* Faulty variants (README, Mutants): probes that fail while the channel is
\* open, and probes that never notice.
FailingProbesInverted == {FailedProbe} \cup {v \in Vias : open[At[v]]}
FailingProbesBlind == {FailedProbe}

FailingProbes == {FailedProbe} \cup {v \in Vias : ~open[At[v]]}

Poll ==
  /\ polling
  /\ polling' = FALSE
  /\ sm' = SM!Poll(sm, FailingProbes)
  /\ UNCHANGED <<queue, holderVars, viaVars, sent>>

-----------------------------------------------------------------------------
HolderStep(s) ==
  \/ SendData(s)
  \/ Clone(s)
  \/ DropCopy(s)
  \/ FinishDrop(s)
  \/ \E v \in Vias : BeginSend(s, v)
  \/ EndSend(s)
  \/ Crash(s)

ViaStep(v) ==
  \/ Demultiplex(v)
  \/ Receive(v)
  \/ FailToDeserialize(v)
  \/ DropReceiver(v)
  \/ FailArrived(v)
  \/ CloseReceiver(v)

OwnerStep ==
  \/ HandleData
  \/ HandleSending
  \/ HandleReceived
  \/ HandleReceiveFailed
  \/ HandleDisconnect
  \/ TimeOut
  \/ Poll

Next ==
  \/ \E s \in Sources : HolderStep(s)
  \/ \E v \in Vias : ViaStep(v)
  \/ \E r \in Receivers : LeaveChannel(r)
  \/ OwnerStep

Spec == Init /\ [][Next]_vars

\* The owner keeps receiving, and a drop that has begun runs to its end.
Fairness ==
  /\ WF_vars(OwnerStep)
  /\ \A s \in Sources : WF_vars(FinishDrop(s))
  /\ \A v \in Vias : WF_vars(Demultiplex(v) /\ receiver[v] = "closing")
  /\ \A v \in Vias : WF_vars(FailArrived(v)) /\ WF_vars(CloseReceiver(v))

FairSpec == Spec /\ Fairness
-----------------------------------------------------------------------------
(* Properties.                                                             *)

\* A copy that is held, or that a live subreceiver can still receive.
UsableCopy ==
  \/ \E s \in Sources : held[s] > 0
  \/ \E v \in Vias : receiver[v] = "open" /\ transit[v] + arrived[v] > 0

Undelivered == \E i \in DOMAIN queue : queue[i].type = "Data"

\* The subchannel is not disconnected while a subsender is held anywhere or
\* can still be received: sources and in-flight bag together never miss one
\* (README, Subsender lifecycle; SubSenderStateMachine::disconnect and poll).
NoPrematureDisconnect == UsableCopy => sm.maybe

\* A message sent before the last subsender went is handled before the
\* Disconnect, whichever source sent it (Demuxer::handle would lose it).
NoDataLost == Undelivered => sm.maybe

\* Received and ReceiveFailed always find the in-flight entry they remove:
\* they reach the owner after the Sending of the copy, which another process
\* sent (HashBag::remove would silently ignore a missing entry).
ReceiptFindsItsEntry ==
  (queue # <<>> /\ Head(queue).type \in {"Received", "ReceiveFailed"})
    => sm.inFlight[Head(queue).via] > 0

BeingSent(v) == {s \in Sources : sending[s] = v}

\* When the owner has caught up, its ledger is the truth: the sources are the
\* holders, or receivers whose tracker a demultiplexed message keeps alive,
\* and an in-flight entry stands for each copy under way.
LedgerExact ==
  queue = <<>> =>
    /\ \A s \in Sources : held[s] > 0 => s \in sm.sources
    /\ \A s \in sm.sources : Tracked(s) \/ dropping[s] > 0
    /\ \A v \in Vias :
         sm.inFlight[v] = transit[v] + arrived[v] + Cardinality(BeingSent(v))

AllChannelsOpen == \A r \in Receivers : open[r]

\* No premature disconnection and no data lost, whatever else goes wrong, as
\* long as no IPC channel a copy can be sent to has gone.
SafeWhileChannelsOpen ==
  AllChannelsOpen => NoPrematureDisconnect /\ NoDataLost

\* The owner is told when no subsender is left.
EventuallyDisconnected == ~UsableCopy ~> ~sm.maybe

\* Copies in flight on a via whose IPC channel is gone are written off, if
\* the owner still has a probe for the via.
ProbedLossDetected ==
  \A v \in Vias :
    (~open[At[v]] /\ sm.inFlight[v] > 0 /\ sm.probes[v] # NoProbe)
      ~> (~sm.maybe \/ sm.inFlight[v] = 0 \/ sm.probes[v] = NoProbe)

\* An entry of the ledger that nothing removes: a source whose process is dead,
\* or copies in flight on a via that has lost its probe, or whose probe goes on
\* succeeding though they went with a message nobody could take.
StuckEntry ==
  \/ \E s \in sm.sources : ~alive[s]
  \/ \E v \in Vias :
       /\ sm.inFlight[v] > 0
       /\ \/ sm.probes[v] = NoProbe
          \/ /\ open[At[v]]
             /\ \/ v \in Mistyped \/ receiver[v] = "closed"
                \/ \E s \in Sources : ~alive[s]

\* In the end the owner is told that no subsender is left, whatever became of
\* them, unless it has an entry of these kinds (SubSenderStateMachine::poll).
DisconnectedOrStuck == <>[](UsableCopy \/ ~sm.maybe \/ StuckEntry)

\* PROTOCOL.md, Probing: if the process carrying a copy has crashed, "all
\* in-flight entries for that channel are removed".
LossDetected ==
  \A v \in Vias :
    (~open[At[v]] /\ sm.inFlight[v] > 0) ~> (~sm.maybe \/ sm.inFlight[v] = 0)

Abstract == INSTANCE Subchannel
  WITH connected <- sm.maybe, usable <- UsableCopy, undelivered <- Undelivered

\* The owner's subchannel is the one of the README: it disconnects when no
\* subsender is left and everything is delivered, not before, and in the end.
ImplementsSubchannel == Abstract!Spec
=============================================================================
