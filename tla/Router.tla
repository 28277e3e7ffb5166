------------------------------- MODULE Router -------------------------------
(***************************************************************************)
(* The router: a thread that receives on the subreceivers given to it and  *)
(* calls a handler with each message.                                      *)
(*                                                                         *)
(* The subchannels of a RouterChannel share its IPC channel.  A caller of  *)
(* RouterChannel::add_route creates a subchannel, puts its subreceiver     *)
(* into the message queue of the router, wakes the router through a        *)
(* subchannel of its own (the wakeup channel), and waits for the           *)
(* acknowledgement.  The router then registers the IPC channel, makes the  *)
(* subchannel deliver to the router's local queue, and has a handler for   *)
(* it.  RouterProxy::shutdown works likewise, and joins the thread.        *)
(*                                                                         *)
(* The router goes round this loop, with an error of any of its steps      *)
(* ending the thread:                                                      *)
(*                                                                         *)
(*   select   what the local queue holds becomes the events to handle;     *)
(*            nothing there: go to the IPC channels                        *)
(*   ipc      wait for messages, and demultiplex a batch of them;          *)
(*            after a second without any, poll the state machines          *)
(*   events   handle the events: the wakeups, messages and disconnects     *)
(*                                                                         *)
(* The subsender of a route is with the caller, who may send a copy to     *)
(* another process; subsenders in general are the subject of Lifecycle.    *)
(* The messages of some routes carry a subsender of a subchannel that      *)
(* another process owns.                                                   *)
(***************************************************************************)
EXTENDS Naturals, Sequences, FiniteSets, SequencesExt

CONSTANTS
  Routes,         \* the routes added, each by a thread
  Channels,       \* the RouterChannels
  Of,             \* Of[r]: the RouterChannel of route r
  Stopper,        \* the thread that calls shutdown
  NoOne,
  WakeupChannel,  \* the IPC channel of the wakeup subchannel
  Origin, Remote, \* sources: the creator of a subsender, and the receiver of a copy
  Via,            \* the subchannel on which the copies are sent
  Probe, NoProbe,
  Lent,           \* routes whose caller sends a copy of the subsender
  Exiting,        \* lent routes whose copy may be with a process that exits
  Carrying,       \* routes whose messages carry a subsender
  MaxSends        \* bound: MaxSends[r] messages are sent on route r

ASSUME RouterAssumption ==
  /\ IsFiniteSet(Routes)
  /\ Of \in [Routes -> Channels]
  /\ Stopper \notin Routes /\ NoOne \notin Routes \cup {Stopper}
  /\ WakeupChannel \notin Channels
  /\ Origin # Remote /\ Probe # NoProbe
  /\ Lent \subseteq Routes /\ Exiting \subseteq Lent /\ Carrying \subseteq Routes
  /\ MaxSends \in [Routes -> Nat]

VARIABLES
  comm,       \* who has the RouterProxy's comm locked
  msgs,       \* the queue of routes to add; Stopper stands for Shutdown
  acks,       \* routes the router has acknowledged
  at,         \* at[r]: how far the call that adds route r is
  stop,       \* how far the call of shutdown is
  ipc,        \* ipc[k]: the IPC channel k
  registered, \* RouterChannels whose IPC receiver the router selects on
  sm,         \* sm[r]: the state machine of the subchannel
  switched,   \* routes that deliver to the local queue, not to a dead one
  local,      \* the local queue of the SubReceiverSet
  ids,        \* routes with an id in the SubReceiverSet
  handlers,   \* routes with a handler
  router,     \* where the router thread is
  events,     \* what it has yet to handle
  handled,    \* handled[r]: number of the last message handled
  tx,         \* routes whose caller has the subsender
  copy,       \* copy[r]: what became of the copy
  sent,       \* sent[r]: messages sent on r
  ownerLeft   \* the process that owns the carried subsenders' receivers is gone

proxyVars  == <<comm, at, stop>>
demuxVars  == <<registered, sm, switched, local>>
routerVars == <<ids, handlers, router, events, handled>>
clientVars == <<tx, copy, sent, ownerLeft>>
vars == <<proxyVars, msgs, acks, ipc, demuxVars, routerVars, clientVars>>

SM == INSTANCE SubSenderStateMachine WITH Sources <- {Origin, Remote}, Vias <- {Via}

Wakeup           == [type |-> "Wakeup"]
Data(r, n)       == [type |-> "Data", route |-> r, number |-> n]
Sending(r)       == [type |-> "Sending", route |-> r]
Received(r)      == [type |-> "Received", route |-> r]
Disconnect(r, s) == [type |-> "Disconnect", route |-> r, source |-> s]
Closed(r)        == [type |-> "Closed", route |-> r]

Events ==
       {Wakeup} \cup [type : {"Data"}, route : Routes, number : Nat]
  \cup [type : {"Closed"}, route : Routes]

Messages ==
       [type : {"Data"}, route : Routes, number : Nat]
  \cup [type : {"Sending", "Received"}, route : Routes]
  \cup [type : {"Disconnect"}, route : Routes, source : {Origin, Remote}]

IpcChannels == Channels \cup {WakeupChannel}

\* What IPC channel k carries.
Carried(k) == IF k = WakeupChannel THEN {Wakeup} ELSE Messages

TypeOK ==
  /\ comm \in Routes \cup {Stopper, NoOne}
  /\ msgs \in Seq(Routes \cup {Stopper})
  /\ acks \subseteq Routes
  /\ at \in [Routes -> {"none", "lock", "wakeup", "wait", "failing", "failed", "routed"}]
  /\ stop \in {"no", "message", "wait", "join", "done"}
  /\ ipc \in [IpcChannels -> Seq(Messages \cup {Wakeup})]
  /\ \A k \in IpcChannels : ipc[k] \in Seq(Carried(k))
  /\ registered \subseteq Channels
  /\ sm \in [Routes -> SM!StateMachines({Probe})]
  /\ switched \subseteq Routes
  /\ local \in Seq(Events)
  /\ ids \subseteq Routes /\ handlers \subseteq Routes
  /\ router \in {"select", "ipc", "batch", "poll", "events", "ending", "closing", "ended"}
  /\ events \in Seq(Events)
  /\ handled \in [Routes -> Nat]
  /\ tx \subseteq Routes
  /\ copy \in [Routes -> {"none", "sent", "lost", "held", "dropped", "exited"}]
  /\ sent \in [Routes -> Nat]
  /\ ownerLeft \in BOOLEAN

Init ==
  /\ comm = NoOne /\ msgs = <<>> /\ acks = {}
  /\ at = [r \in Routes |-> "none"] /\ stop = "no"
  /\ ipc = [k \in IpcChannels |-> <<>>] /\ registered = {}
  /\ sm = [r \in Routes |-> SM!New(Origin)]
  /\ switched = {} /\ local = <<>> /\ ids = {} /\ handlers = {}
  /\ router = "select" /\ events = <<>>
  /\ handled = [r \in Routes |-> 0]
  /\ tx = {} /\ copy = [r \in Routes |-> "none"]
  /\ sent = [r \in Routes |-> 0] /\ ownerLeft = FALSE

\* The ends of the message queue and of the IPC channels that the router has.
NoQueue == router \in {"closing", "ended"}
NoIpc   == router = "ended"

Put(k, m) == ipc' = IF NoIpc THEN ipc ELSE [ipc EXCEPT ![k] = Append(ipc[k], m)]
-----------------------------------------------------------------------------
(* Adding a route.                                                         *)

\* SelectableChannel::sub_channel: attach has the subchannel deliver to a queue
\* whose receiving end it drops.
SubChannel(r) ==
  /\ at[r] = "none" /\ at' = [at EXCEPT ![r] = "lock"]
  /\ sm' = [sm EXCEPT ![r] = SM!New(Origin)] /\ tx' = tx \cup {r}
  /\ UNCHANGED <<comm, msgs, acks, stop, ipc, registered, switched, local, routerVars,
                 copy, sent, ownerLeft>>

SendRoute(r) ==
  /\ at[r] = "lock" /\ comm = NoOne
  /\ \/ /\ stop # "no" \/ NoQueue
        /\ at' = [at EXCEPT ![r] = "failing"] /\ UNCHANGED <<comm, msgs>>
     \/ /\ stop = "no" /\ ~NoQueue
        /\ at' = [at EXCEPT ![r] = "wakeup"] /\ comm' = r /\ msgs' = Append(msgs, r)
  /\ UNCHANGED <<stop, acks, ipc, demuxVars, routerVars, clientVars>>

\* Faulty variants (README, Mutants): one for each property they must break.
SendWakeupIfNone(r) ==
  /\ at[r] = "wakeup" /\ comm' = NoOne
  /\ IF ipc[WakeupChannel] = <<>> THEN Put(WakeupChannel, Wakeup) ELSE UNCHANGED ipc
  /\ at' = [at EXCEPT ![r] = IF NoIpc THEN "failing" ELSE "wait"]
  /\ UNCHANGED <<stop, msgs, acks, demuxVars, routerVars, clientVars>>

AwaitNothing(r) ==
  /\ at[r] = "wait" /\ at' = [at EXCEPT ![r] = "routed"]
  /\ UNCHANGED <<comm, stop, msgs, acks, ipc, demuxVars, routerVars, clientVars>>

AwaitAckOnly(r) ==
  /\ at[r] = "wait" /\ r \in acks /\ at' = [at EXCEPT ![r] = "routed"]
  /\ UNCHANGED <<comm, stop, msgs, acks, ipc, demuxVars, routerVars, clientVars>>

SendWakeup(r) ==
  /\ at[r] = "wakeup" /\ comm' = NoOne /\ Put(WakeupChannel, Wakeup)
  /\ at' = [at EXCEPT ![r] = IF NoIpc THEN "failing" ELSE "wait"]
  /\ UNCHANGED <<stop, msgs, acks, demuxVars, routerVars, clientVars>>

\* The receive fails when the router has dropped the sender, which was in msgs.
AwaitAck(r) ==
  /\ at[r] = "wait"
  /\ \/ r \in acks /\ at' = [at EXCEPT ![r] = "routed"]
     \/ r \notin acks /\ NoQueue /\ at' = [at EXCEPT ![r] = "failing"]
  /\ UNCHANGED <<comm, stop, msgs, acks, ipc, demuxVars, routerVars, clientVars>>

\* The error drops the subsender.
Fail(r) ==
  /\ at[r] = "failing" /\ at' = [at EXCEPT ![r] = "failed"]
  /\ tx' = tx \ {r} /\ Put(Of[r], Disconnect(r, Origin))
  /\ UNCHANGED <<comm, stop, msgs, acks, demuxVars, routerVars, copy, sent, ownerLeft>>

AddRoute(r) == SendRoute(r) \/ SendWakeup(r) \/ AwaitAck(r) \/ Fail(r)
-----------------------------------------------------------------------------
(* Shutting the router down.  The comm is locked till the end.             *)

Shutdown ==
  /\ stop = "no" /\ comm = NoOne /\ comm' = Stopper
  /\ Put(WakeupChannel, Wakeup) /\ stop' = IF NoIpc THEN "join" ELSE "message"
  /\ UNCHANGED <<at, msgs, acks, demuxVars, routerVars, clientVars>>

SendShutdown ==
  /\ stop = "message"
  /\ IF NoQueue THEN stop' = "join" /\ UNCHANGED msgs
                ELSE stop' = "wait" /\ msgs' = Append(msgs, Stopper)
  /\ UNCHANGED <<comm, at, acks, ipc, demuxVars, routerVars, clientVars>>

\* Whether the acknowledgement comes, or fails to as the router has dropped the
\* queue, the thread is joined next.
Join ==
  /\ stop \in {"wait", "join"} /\ router = "ended" /\ stop' = "done" /\ comm' = NoOne
  /\ UNCHANGED <<at, msgs, acks, ipc, demuxVars, routerVars, clientVars>>

Stop == SendShutdown \/ Join
-----------------------------------------------------------------------------
(* The router thread: SubReceiverSet::select.                              *)

IdMissing(q) ==
  \E i \in DOMAIN q : q[i] # Wakeup /\
    (q[i].route \notin ids \/ \E j \in 1 .. i - 1 : q[j] = Closed(q[i].route))

Select ==
  /\ router = "select"
  /\ events' = local /\ local' = <<>>
  /\ ids' = {r \in ids : ~\E i \in DOMAIN local : local[i] = Closed(r)}
  /\ router' = IF IdMissing(local) THEN "ending"
               ELSE IF local = <<>> THEN "ipc" ELSE "events"
  /\ UNCHANGED <<proxyVars, msgs, acks, ipc, registered, sm, switched, handlers, handled,
                 clientVars>>

\* Faulty variants (README, Mutants): the probe does not notice, or does too soon.
FailingNever(r) == {}

FailingTillHeld(r) == IF copy[r] \in {"sent", "lost"} THEN {Probe} ELSE {}

\* The probe of the process that the copy was sent to fails when it is gone.
Failing(r) == IF copy[r] \in {"lost", "exited"} THEN {Probe} ELSE {}

\* Demuxer::send and handle.  Sending comes with the sender of the via, which
\* cannot be connected to when its receiver is gone.
Handle(state, m) ==
  CASE m.type = "Data"       -> state
    [] m.type = "Sending"    ->
         IF Failing(m.route) = {} THEN SM!ToBeSent(state, Via, Probe)
         ELSE SM!ReceiveFailed(SM!ToBeSent(state, Via, Probe), Via)
    [] m.type = "Received"   -> SM!Received(state, Via, Remote)
    [] m.type = "Disconnect" -> SM!Disconnect(state, m.source)

\* The carried subsender cannot be used when its owner is gone, and there is no
\* local queue to put a message into when the sender has been taken.
DataRefused(m) == (m.route \in Carrying /\ ownerLeft) \/ ~sm[m.route].maybe

\* Faulty variant (README, Mutants): passes the message on as it came.
ClosedAsReceived(m) == <<m>>

ClosedFor(m) == <<Closed(m.route)>>

\* A message for a queue that nobody has is dropped; a Disconnect is an error.
Demultiplex(m) ==
  LET r     == m.route
      after == Handle(sm[r], m)
      taken == sm[r].maybe /\ ~after.maybe
      fails == IF m.type = "Data" THEN DataRefused(m) ELSE taken /\ r \notin switched
      put   == IF m.type = "Data" THEN <<m>> ELSE IF taken THEN ClosedFor(m) ELSE <<>>
  IN  /\ sm' = [sm EXCEPT ![r] = after]
      /\ local' = IF fails \/ r \notin switched THEN local ELSE local \o put
      /\ router' = IF fails THEN "ending" ELSE "batch"

\* MultiReceiverSet::select: messages come in batches of any size.
Receive(k) ==
  /\ router \in {"ipc", "batch"} /\ k \in registered \cup {WakeupChannel} /\ ipc[k] # <<>>
  /\ ipc' = [ipc EXCEPT ![k] = Tail(ipc[k])]
  /\ IF k = WakeupChannel
     THEN local' = Append(local, Wakeup) /\ router' = "batch" /\ UNCHANGED sm
     ELSE Demultiplex(Head(ipc[k]))
  /\ UNCHANGED <<proxyVars, msgs, acks, registered, switched, ids, handlers, events,
                 handled, clientVars>>

EndBatch ==
  /\ router = "batch" /\ router' = "select"
  /\ UNCHANGED <<proxyVars, msgs, acks, ipc, demuxVars, ids, handlers, events, handled,
                 clientVars>>

\* try_select_timeout returns empty-handed only after a second without messages.
TimeOut ==
  /\ router = "ipc" /\ \A k \in registered \cup {WakeupChannel} : ipc[k] = <<>>
  /\ router' = "poll"
  /\ UNCHANGED <<proxyVars, msgs, acks, ipc, demuxVars, ids, handlers, events, handled,
                 clientVars>>

\* Demuxer::poll_all_subchannels for each IPC channel, in the order of hash maps.
Poll ==
  /\ router = "poll"
  /\ sm' = [r \in Routes |->
       IF Of[r] \in registered /\ at[r] # "none" THEN SM!Poll(sm[r], Failing(r)) ELSE sm[r]]
  /\ LET taken == {r \in Routes : sm[r].maybe /\ ~sm'[r].maybe}
     IN  /\ \E order \in SetToSeqs(taken \cap switched) :
              local' = local \o [i \in DOMAIN order |-> Closed(order[i])]
         /\ router' = IF taken = {} THEN "ipc" ELSE "select"
  /\ UNCHANGED <<proxyVars, msgs, acks, ipc, registered, switched, ids, handlers, events,
                 handled, clientVars>>
-----------------------------------------------------------------------------
(* The router thread: Router::run.                                         *)

\* Faulty variant (README, Mutants): leaves the loop over the events.
NextEventAfterSelect == events' = <<>> /\ router' = "select"

NextEvent ==
  /\ events' = Tail(events)
  /\ router' = IF Len(events) = 1 THEN "select" ELSE "events"

\* Faulty variant (README, Mutants): later channels are not merged.
MergeOnlyFirst(r) == IF registered = {} THEN {Of[r]} ELSE registered

\* The set is not empty, as the wakeup channel is in it: the pending IPC receiver
\* of a channel not seen before is merged into it.
Merge(r) == registered \cup {Of[r]}

\* SubReceiverSet::add_opaque, a handler, and the acknowledgement.
HandleAddRoute ==
  /\ router = "events" /\ Head(events) = Wakeup /\ msgs # <<>> /\ Head(msgs) # Stopper
  /\ LET r == Head(msgs)
     IN  /\ registered' = Merge(r)
         /\ sm' = [sm EXCEPT ![r] = SM!SwitchSender(sm[r])]
         /\ switched' = switched \cup {r} /\ ids' = ids \cup {r}
         /\ handlers' = handlers \cup {r} /\ acks' = acks \cup {r}
  /\ msgs' = Tail(msgs) /\ NextEvent
  /\ UNCHANGED <<proxyVars, ipc, local, handled, clientVars>>

\* Faulty variant (README, Mutants): does not return.
HandleShutdownAndGoOn ==
  /\ router = "events" /\ Head(events) = Wakeup /\ msgs # <<>> /\ Head(msgs) = Stopper
  /\ msgs' = Tail(msgs) /\ NextEvent
  /\ UNCHANGED <<proxyVars, acks, ipc, demuxVars, ids, handlers, handled, clientVars>>

HandleShutdown ==
  /\ router = "events" /\ Head(events) = Wakeup /\ msgs # <<>> /\ Head(msgs) = Stopper
  /\ msgs' = Tail(msgs) /\ router' = "ending"
  /\ UNCHANGED <<proxyVars, acks, ipc, demuxVars, ids, handlers, events, handled, clientVars>>

HandleMessage ==
  /\ router = "events" /\ Head(events).type = "Data" /\ NextEvent
  /\ handled' = LET m == Head(events)
                IN  IF m.route \in handlers
                    THEN [handled EXCEPT ![m.route] = m.number] ELSE handled
  /\ UNCHANGED <<proxyVars, msgs, acks, ipc, demuxVars, ids, handlers, clientVars>>

HandleClosed ==
  /\ router = "events" /\ Head(events).type = "Closed" /\ NextEvent
  /\ handlers' = handlers \ {Head(events).route}
  /\ UNCHANGED <<proxyVars, msgs, acks, ipc, demuxVars, ids, handled, clientVars>>

\* The Router is dropped: first the message queue, then the SubReceiverSet and
\* with it the IPC receivers.
DropQueue ==
  /\ router = "ending" /\ router' = "closing" /\ msgs' = <<>> /\ events' = <<>>
  /\ UNCHANGED <<proxyVars, acks, ipc, demuxVars, ids, handlers, handled, clientVars>>

DropSubReceiverSet ==
  /\ router = "closing" /\ router' = "ended"
  /\ ipc' = [k \in IpcChannels |-> <<>>] /\ local' = <<>> /\ ids' = {} /\ handlers' = {}
  /\ UNCHANGED <<proxyVars, msgs, acks, registered, sm, switched, events, handled,
                 clientVars>>

Run ==
  \/ Select \/ EndBatch \/ TimeOut \/ Poll
  \/ \E k \in IpcChannels : Receive(k)
  \/ HandleAddRoute \/ HandleShutdown \/ HandleMessage \/ HandleClosed
  \/ DropQueue \/ DropSubReceiverSet
-----------------------------------------------------------------------------
(* Those who have the subsenders.                                          *)

HasSubSender(r) == at[r] = "routed" /\ r \in tx

\* A message that carries a subsender announces it to its owner first.
Send(r) ==
  /\ ~NoIpc /\ sent[r] < MaxSends[r] /\ (HasSubSender(r) \/ copy[r] = "held")
  /\ ~(r \in Carrying /\ ownerLeft)
  /\ sent' = [sent EXCEPT ![r] = @ + 1] /\ Put(Of[r], Data(r, sent'[r]))
  /\ UNCHANGED <<proxyVars, msgs, acks, demuxVars, routerVars, tx, copy, ownerLeft>>

Drop(r) ==
  /\ ~NoIpc /\ HasSubSender(r)
  /\ tx' = tx \ {r} /\ Put(Of[r], Disconnect(r, Origin))
  /\ UNCHANGED <<proxyVars, msgs, acks, demuxVars, routerVars, copy, sent, ownerLeft>>

Lend(r) ==
  /\ ~NoIpc /\ r \in Lent /\ HasSubSender(r) /\ copy[r] = "none"
  /\ copy' = [copy EXCEPT ![r] = "sent"] /\ Put(Of[r], Sending(r))
  /\ UNCHANGED <<proxyVars, msgs, acks, demuxVars, routerVars, tx, sent, ownerLeft>>

Borrow(r) ==
  /\ ~NoIpc /\ copy[r] = "sent"
  /\ copy' = [copy EXCEPT ![r] = "held"] /\ Put(Of[r], Received(r))
  /\ UNCHANGED <<proxyVars, msgs, acks, demuxVars, routerVars, tx, sent, ownerLeft>>

\* The process that the copy was sent to goes without receiving it.
Lose(r) ==
  /\ ~NoIpc /\ copy[r] = "sent" /\ copy' = [copy EXCEPT ![r] = "lost"]
  /\ UNCHANGED <<proxyVars, msgs, acks, ipc, demuxVars, routerVars, tx, sent, ownerLeft>>

Return(r) ==
  /\ ~NoIpc /\ copy[r] = "held"
  /\ \E fate \in {"dropped"} \cup (IF r \in Exiting THEN {"exited"} ELSE {}) :
       copy' = [copy EXCEPT ![r] = fate]
  /\ Put(Of[r], Disconnect(r, Remote))
  /\ UNCHANGED <<proxyVars, msgs, acks, demuxVars, routerVars, tx, sent, ownerLeft>>

\* Without a message on its way it would only keep others from being sent.
OwnerLeaves ==
  /\ ~NoIpc /\ \E r \in Carrying : sent[r] > handled[r]
  /\ ~ownerLeft /\ ownerLeft' = TRUE
  /\ UNCHANGED <<proxyVars, msgs, acks, ipc, demuxVars, routerVars, tx, copy, sent>>

Next ==
  \/ \E r \in Routes :
       \/ SubChannel(r) \/ AddRoute(r)
       \/ Send(r) \/ Drop(r) \/ Lend(r) \/ Borrow(r) \/ Lose(r) \/ Return(r)
  \/ Shutdown \/ Stop
  \/ Run
  \/ OwnerLeaves

\* Threads inside a call, and the router thread, run.  Nobody has to begin a
\* call, to send, or to drop a subsender.
Spec ==
  /\ Init /\ [][Next]_vars
  /\ WF_vars(Run) /\ WF_vars(Stop) /\ \A r \in Routes : WF_vars(AddRoute(r))
-----------------------------------------------------------------------------
(* Properties.                                                             *)

Running == router \notin {"ending", "closing", "ended"}

\* Where the messages of r are in q.
DataOf(r, q) == {i \in DOMAIN q : q[i].type = "Data" /\ q[i].route = r}

\* While the router runs, each message sent on a route has been handled or is on
\* its way, once and in the order sent: none went to the queue that attach
\* dropped, or was left behind when its handler was removed (demux.rs, send:
\* "Drop the message rather than propagating a fatal error").
EveryMessageHandledInOrder ==
  Running => \A r \in Routes :
    LET q        == events \o local \o ipc[Of[r]]
        onTheWay == DataOf(r, q)
    IN  /\ handled[r] <= sent[r]
        /\ {q[i].number : i \in onTheWay} = handled[r] + 1 .. sent[r]
        /\ \A i, j \in onTheWay : i < j => q[i].number < q[j].number

SenderLeft(r) == r \in tx \/ copy[r] \in {"sent", "held"}

\* A handler is removed only when nobody has a subsender of the route and all
\* its messages have been handled (Router::run: "Remove handler once channel
\* closes").
RemovedWhenOver ==
  \A r \in Routes : Running /\ at[r] = "routed" /\ r \notin handlers =>
    ~SenderLeft(r) /\ handled[r] = sent[r]

\* A caller has its subsender only after the route is in place, so that no
\* message and no Disconnect meets a subchannel that is not switched or an IPC
\* channel that is not registered (add_route: "This ensures that subsequent
\* sends on the SubSender find a valid internal channel").
RouteInPlaceBeforeUse ==
  Running => \A r \in Routes :
    at[r] = "routed" \/ (\E i \in DOMAIN ipc[Of[r]] : ipc[Of[r]][i].route = r)
      => r \in switched /\ Of[r] \in registered

Count(q) == Cardinality({i \in DOMAIN q : q[i] = Wakeup})

\* Each message to the router comes with one wakeup.  So the router, which blocks
\* on its message queue after a wakeup, blocks only till shutdown, which wakes
\* it first, has sent its message; and no message waits for a wakeup in vain.
WakeupsMatchMessages ==
  Running =>
    Count(events) + Count(local) + Count(ipc[WakeupChannel])
      + Cardinality({r \in Routes : at[r] = "wakeup"})
    = Len(msgs) + (IF stop = "message" THEN 1 ELSE 0)

\* A call that adds a route returns, with a route or an error, though the router
\* be shut down or end of itself (RouterProxy::add_route waits for an
\* acknowledgement).
AddRouteReturns == \A r \in Routes : at[r] = "lock" ~> at[r] \in {"failed", "routed"}

\* RouterProxy::shutdown returns.
ShutdownReturns == stop # "no" ~> stop = "done"

\* The messages sent are handled, unless the router ends.
MessagesHandled ==
  \A r \in Routes :
    handled[r] < sent[r] ~> handled[r] = sent[r] \/ router = "ended"

\* A handler is removed when nobody has a subsender any more, lost ones included.
HandlersRemoved ==
  \A r \in Routes :
    at[r] = "routed" /\ ~SenderLeft(r) ~> r \notin handlers

\* Nothing ends the router thread but a shutdown, or a message whose subsender
\* cannot be used any more, which ends it for all routes (Router::run breaks out
\* of its loop when select fails).
EndsForAReason == ~Running => stop # "no" \/ ownerLeft

\* What the comment of Router::run says, "Continuously loop waiting for wakeup
\* signals from router proxy", does not hold (README, Known disagreements).
RunsUntilShutdown == ~Running => stop # "no"
=============================================================================
