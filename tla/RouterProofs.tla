----------------------------- MODULE RouterProofs -----------------------------
(***************************************************************************)
(* Proofs about Router, for any routes, RouterChannels and bounds.         *)
(***************************************************************************)
EXTENDS Router, FiniteSetTheorems, SequenceTheorems, TLAPS

-----------------------------------------------------------------------------
(* The state machines keep their type.                                     *)

Machines == SM!StateMachines({Probe})

\* TakeIfVacant keeps the type.
LEMMA TakeTyped ==
  ASSUME NEW x \in Machines
  PROVE  SM!TakeIfVacant(x) \in Machines
BY DEF Machines, SM!StateMachines, SM!TakeIfVacant

\* A new machine, and one whose sender was switched, have the type.
LEMMA NewTyped ==
  /\ SM!New(Origin) \in Machines
  /\ \A x \in Machines : SM!SwitchSender(x) \in Machines
BY DEF Machines, SM!StateMachines, SM!New, SM!SwitchSender

\* receive_failed keeps the type.
LEMMA ReceiveFailedTyped ==
  ASSUME NEW x \in Machines
  PROVE  SM!ReceiveFailed(x, Via) \in Machines
<1>1. SM!WithoutOne(x.inFlight, Via) \in [{Via} -> Nat]
  BY DEF Machines, SM!StateMachines, SM!WithoutOne
<1>2. [x EXCEPT !.inFlight = SM!WithoutOne(x.inFlight, Via)] \in Machines
  BY <1>1 DEF Machines, SM!StateMachines
<1>3. QED
  BY <1>2, TakeTyped DEF SM!ReceiveFailed

\* poll keeps the type, whichever probes fail.
LEMMA PollTyped ==
  ASSUME NEW x \in Machines, NEW failing
  PROVE  SM!Poll(x, failing) \in Machines
<1> DEFINE lost == SM!LostVias(x, failing)
<1>1. /\ [v \in {Via} |-> IF v \in lost THEN 0 ELSE x.inFlight[v]] \in [{Via} -> Nat]
      /\ [v \in {Via} |-> IF v \in lost THEN NoProbe ELSE x.probes[v]]
           \in [{Via} -> {Probe} \cup {NoProbe}]
  BY DEF Machines, SM!StateMachines
<1>2. SM!WriteOff(x, lost) \in Machines
  BY <1>1 DEF SM!WriteOff, Machines, SM!StateMachines
<1>3. QED
  BY <1>2, TakeTyped DEF SM!Poll

\* handle keeps the type, whatever the message.
LEMMA HandleTyped ==
  ASSUME NEW x \in Machines, NEW m \in Messages
  PROVE  Handle(x, m) \in Machines
<1>1. CASE m.type = "Data"
  BY <1>1 DEF Handle
<1>2. CASE m.type = "Sending"
  <2>1. SM!WithOne(x.inFlight, Via) \in [{Via} -> Nat]
    BY DEF Machines, SM!StateMachines, SM!WithOne
  <2>2. [x.probes EXCEPT ![Via] = Probe] \in [{Via} -> {Probe} \cup {NoProbe}]
    BY DEF Machines, SM!StateMachines
  <2>3. SM!ToBeSent(x, Via, Probe) \in Machines
    BY <2>1, <2>2 DEF SM!ToBeSent, Machines, SM!StateMachines
  <2>4. QED
    BY <1>2, <2>3, ReceiveFailedTyped DEF Handle
<1>3. CASE m.type = "Received"
  <2>1. SM!WithoutOne(x.inFlight, Via) \in [{Via} -> Nat]
    BY DEF Machines, SM!StateMachines, SM!WithoutOne
  <2>2. [x.probes EXCEPT ![Via] = NoProbe] \in [{Via} -> {Probe} \cup {NoProbe}]
    BY DEF Machines, SM!StateMachines
  <2>3. SM!Received(x, Via, Remote) \in Machines
    BY <2>1, <2>2 DEF SM!Received, Machines, SM!StateMachines
  <2>4. QED
    BY <1>3, <2>3 DEF Handle
<1>4. CASE m.type = "Disconnect"
  <2>1. [x EXCEPT !.sources = x.sources \ {m.source}] \in Machines
    BY DEF Machines, SM!StateMachines
  <2>2. SM!Disconnect(x, m.source) \in Machines
    BY <2>1, TakeTyped DEF SM!Disconnect
  <2>3. QED
    BY <1>4, <2>2 DEF Handle
<1>5. QED
  BY <1>1, <1>2, <1>3, <1>4 DEF Messages

-----------------------------------------------------------------------------
(* Type correctness.                                                       *)

\* What goes into the IPC channels and the local queue is of its type.
LEMMA MessagesTyped ==
  /\ \A r \in Routes, n \in Nat : Data(r, n) \in Messages
  /\ \A r \in Routes : Sending(r) \in Messages /\ Received(r) \in Messages
  /\ \A r \in Routes, s \in {Origin, Remote} : Disconnect(r, s) \in Messages
  /\ \A r \in Routes : Closed(r) \in Events
  /\ Wakeup \in Events
  /\ \A m \in Messages : m.route \in Routes /\ (m.type = "Data" => m \in Events)
BY DEF Messages, Events, Data, Sending, Received, Disconnect, Closed, Wakeup

\* A RouterChannel's IPC channel is not the one of the wakeup channel.
LEMMA ChannelTyped ==
  /\ \A k \in Channels : k \in IpcChannels /\ Carried(k) = Messages
  /\ WakeupChannel \in IpcChannels /\ Carried(WakeupChannel) = {Wakeup}
  /\ \A r \in Routes : Of[r] \in Channels
  /\ \A k \in IpcChannels : Carried(k) \subseteq Messages \cup {Wakeup}
BY RouterAssumption DEF IpcChannels, Carried

\* An IPC channel of the proxies is not that of the wakeups and carries messages.
LEMMA ChannelQueue ==
  ASSUME TypeOK, NEW k \in Channels
  PROVE  k \in IpcChannels /\ k # WakeupChannel /\ ipc[k] \in Seq(Messages)
<1>1. k # WakeupChannel
  BY RouterAssumption
<1>2. k \in IpcChannels /\ Carried(k) = Messages
  BY ChannelTyped
<1>3. ipc[k] \in Seq(Carried(k))
  BY <1>2 DEF TypeOK
<1>4. QED
  BY <1>1, <1>2, <1>3

\* Queues and channels grow at their end.
LEMMA AppendTyped ==
  ASSUME NEW S, NEW q \in Seq(S), NEW x \in S
  PROVE  Append(q, x) \in Seq(S)
OBVIOUS

\* What is put in a queue may be one element or none.
LEMMA OneTyped ==
  ASSUME NEW S
  PROVE  <<>> \in Seq(S) /\ \A x \in S : <<x>> \in Seq(S)
<1>1. ASSUME NEW x \in S PROVE <<x>> \in Seq(S)
  OBVIOUS
<1>2. QED
  BY <1>1

\* The part of TypeOK about IPC channels.
IpcTyped ==
  /\ ipc \in [IpcChannels -> Seq(Messages \cup {Wakeup})]
  /\ \A k \in IpcChannels : ipc[k] \in Seq(Carried(k))

\* Putting a message where it belongs keeps the types of the IPC channels.
LEMMA PutTyped ==
  ASSUME IpcTyped, NEW k \in IpcChannels, NEW m \in Carried(k), Put(k, m)
  PROVE  IpcTyped'
<1>1. CASE NoIpc
  BY <1>1 DEF Put, IpcTyped
<1>2. CASE ~NoIpc
  <2>1. /\ Append(ipc[k], m) \in Seq(Carried(k))
        /\ Append(ipc[k], m) \in Seq(Messages \cup {Wakeup})
    BY ChannelTyped DEF IpcTyped
  <2>2. ipc' = [ipc EXCEPT ![k] = Append(ipc[k], m)]
    BY <1>2 DEF Put
  <2>3. ipc' \in [IpcChannels -> Seq(Messages \cup {Wakeup})]
    BY <2>1, <2>2 DEF IpcTyped
  <2>4. ASSUME NEW j \in IpcChannels PROVE ipc'[j] \in Seq(Carried(j))
    BY <2>1, <2>2 DEF IpcTyped
  <2>5. QED
    BY <2>3, <2>4 DEF IpcTyped
<1>3. QED
  BY <1>1, <1>2

\* The initial state is of its type.
LEMMA InitTyped == Init => TypeOK
<1> SUFFICES ASSUME Init PROVE TypeOK
  OBVIOUS
<1>1. IpcTyped
  <2>1. \A S : <<>> \in Seq(S)
    OBVIOUS
  <2>2. QED
    BY <2>1 DEF Init, IpcTyped
<1>2. sm \in [Routes -> SM!StateMachines({Probe})]
  BY NewTyped DEF Init, Machines
<1>3. \A S : <<>> \in Seq(S)
  OBVIOUS
<1>4. QED
  BY <1>1, <1>2, <1>3 DEF Init, TypeOK, IpcTyped

\* A step of a caller of add_route keeps all types ...
LEMMA AddRouteTyped ==
  ASSUME TypeOK, NEW r \in Routes, SubChannel(r) \/ AddRoute(r)
  PROVE  TypeOK'
<1> USE DEF proxyVars, demuxVars, routerVars, clientVars
<1>0. IpcTyped
  BY DEF TypeOK, IpcTyped
<1>1. CASE SubChannel(r)
  <2>1. sm' \in [Routes -> SM!StateMachines({Probe})]
    BY <1>1, NewTyped DEF SubChannel, TypeOK, Machines
  <2>2. QED
    BY <1>1, <2>1 DEF SubChannel, TypeOK
<1>2. CASE SendRoute(r)
  <2>1. msgs' \in Seq(Routes \cup {Stopper})
    <3>1. msgs \in Seq(Routes \cup {Stopper}) /\ r \in Routes \cup {Stopper}
      BY DEF TypeOK
    <3>2. msgs' = msgs \/ msgs' = Append(msgs, r)
      BY <1>2 DEF SendRoute
    <3>3. QED
      BY <3>1, <3>2, AppendTyped
  <2>2. comm' \in Routes \cup {Stopper, NoOne} /\ at' \in [Routes ->
          {"none", "lock", "wakeup", "wait", "failing", "failed", "routed"}]
    BY <1>2 DEF SendRoute, TypeOK
  <2>3. QED
    BY <1>2, <2>1, <2>2 DEF SendRoute, TypeOK
<1>3. CASE SendWakeup(r)
  <2>1. IpcTyped'
    BY <1>0, <1>3, ChannelTyped, PutTyped DEF SendWakeup
  <2>2. QED
    BY <1>3, <2>1 DEF SendWakeup, TypeOK, IpcTyped
<1>4. CASE AwaitAck(r)
  BY <1>4 DEF AwaitAck, TypeOK
<1>5. CASE Fail(r)
  <2>1. IpcTyped'
    BY <1>0, <1>5, ChannelTyped, MessagesTyped, PutTyped DEF Fail
  <2>2. QED
    BY <1>5, <2>1 DEF Fail, TypeOK, IpcTyped
<1>6. QED
  BY <1>1, <1>2, <1>3, <1>4, <1>5 DEF AddRoute

\* ... so does one of the caller of shutdown ...
LEMMA ShutdownTyped ==
  ASSUME TypeOK, Shutdown \/ Stop
  PROVE  TypeOK'
<1> USE DEF proxyVars, demuxVars, routerVars, clientVars
<1>1. CASE Shutdown
  <2>1. IpcTyped
    BY DEF TypeOK, IpcTyped
  <2>2. IpcTyped'
    BY <1>1, <2>1, ChannelTyped, PutTyped DEF Shutdown
  <2>3. QED
    BY <1>1, <2>2 DEF Shutdown, TypeOK, IpcTyped
<1>2. CASE SendShutdown
  <2>1. msgs' \in Seq(Routes \cup {Stopper})
    <3>1. msgs \in Seq(Routes \cup {Stopper}) /\ Stopper \in Routes \cup {Stopper}
      BY DEF TypeOK
    <3>2. msgs' = msgs \/ msgs' = Append(msgs, Stopper)
      BY <1>2 DEF SendShutdown
    <3>3. QED
      BY <3>1, <3>2, AppendTyped
  <2>2. QED
    BY <1>2, <2>1 DEF SendShutdown, TypeOK
<1>3. CASE Join
  BY <1>3 DEF Join, TypeOK
<1>4. QED
  BY <1>1, <1>2, <1>3 DEF Stop

\* ... and one of those who have the subsenders.
LEMMA ClientTyped ==
  ASSUME TypeOK, NEW r \in Routes,
         Send(r) \/ Drop(r) \/ Lend(r) \/ Borrow(r) \/ Lose(r) \/ Return(r)
  PROVE  TypeOK'
<1> USE DEF proxyVars, demuxVars, routerVars, clientVars
<1>0. IpcTyped /\ Of[r] \in IpcChannels /\ Carried(Of[r]) = Messages
  BY ChannelTyped DEF TypeOK, IpcTyped
<1>1. CASE Send(r)
  <2>1. sent' \in [Routes -> Nat]
    BY <1>1 DEF Send, TypeOK
  <2>2. Data(r, sent'[r]) \in Messages
    BY <2>1, MessagesTyped
  <2>3. IpcTyped'
    BY <1>0, <1>1, <2>2, PutTyped DEF Send
  <2>4. QED
    BY <1>1, <2>1, <2>3 DEF Send, TypeOK, IpcTyped
<1>2. CASE Drop(r)
  <2>1. IpcTyped'
    BY <1>0, <1>2, MessagesTyped, PutTyped DEF Drop
  <2>2. QED
    BY <1>2, <2>1 DEF Drop, TypeOK, IpcTyped
<1>3. CASE Lend(r)
  <2>1. IpcTyped'
    BY <1>0, <1>3, MessagesTyped, PutTyped DEF Lend
  <2>2. QED
    BY <1>3, <2>1 DEF Lend, TypeOK, IpcTyped
<1>4. CASE Borrow(r)
  <2>1. IpcTyped'
    BY <1>0, <1>4, MessagesTyped, PutTyped DEF Borrow
  <2>2. QED
    BY <1>4, <2>1 DEF Borrow, TypeOK, IpcTyped
<1>5. CASE Lose(r)
  BY <1>5 DEF Lose, TypeOK
<1>6. CASE Return(r)
  <2>1. IpcTyped'
    BY <1>0, <1>6, MessagesTyped, PutTyped DEF Return
  <2>2. copy' \in [Routes -> {"none", "sent", "lost", "held", "dropped", "exited"}]
    BY <1>6 DEF Return, TypeOK
  <2>3. QED
    BY <1>6, <2>1, <2>2 DEF Return, TypeOK, IpcTyped
<1>7. QED
  BY <1>1, <1>2, <1>3, <1>4, <1>5, <1>6

\* The part of TypeOK about the queues of the router.
QueuesTyped ==
  /\ local \in Seq(Events)
  /\ events \in Seq(Events)
  /\ msgs \in Seq(Routes \cup {Stopper})

\* What is left of a queue has its type, and so has its head.
LEMMA TailTyped ==
  ASSUME NEW S, NEW q \in Seq(S), q # <<>>
  PROVE  Head(q) \in S /\ Tail(q) \in Seq(S)
OBVIOUS

\* Taking the head of a queue empties it only if it was the only element.
LEMMA TailLeft ==
  ASSUME NEW S, NEW q \in Seq(S), q # <<>>, Len(q) # 1
  PROVE  Tail(q) # <<>>
<1>1. Len(q) \in Nat /\ Len(q) # 0
  OBVIOUS
<1>2. Len(Tail(q)) = Len(q) - 1
  BY <1>1
<1>3. Len(Tail(q)) # 0
  BY <1>1, <1>2
<1>4. QED
  BY <1>3, EmptySeq

\* A message or a wakeup that is demultiplexed keeps all types.
LEMMA ReceiveTyped ==
  ASSUME TypeOK, NEW k \in IpcChannels, Receive(k)
  PROVE  TypeOK'
<1> USE DEF proxyVars, demuxVars, routerVars, clientVars
<1>1. IpcTyped /\ QueuesTyped
  BY DEF TypeOK, IpcTyped, QueuesTyped
<1>2. /\ Head(ipc[k]) \in Carried(k) /\ Tail(ipc[k]) \in Seq(Carried(k))
      /\ Tail(ipc[k]) \in Seq(Messages \cup {Wakeup})
  BY <1>1, TailTyped DEF IpcTyped, Receive
<1>3. IpcTyped'
  BY <1>1, <1>2 DEF Receive, IpcTyped
<1>4. CASE k = WakeupChannel
  <2>1. local' \in Seq(Events)
    BY <1>1, <1>4, AppendTyped, MessagesTyped DEF Receive, QueuesTyped
  <2>2. QED
    BY <1>3, <1>4, <2>1 DEF Receive, TypeOK, IpcTyped
<1>5. CASE k # WakeupChannel
  <2> DEFINE m == Head(ipc[k])
             r == m.route
             after == Handle(sm[r], m)
             taken == sm[r].maybe /\ ~after.maybe
             put == IF m.type = "Data" THEN <<m>> ELSE IF taken THEN ClosedFor(m) ELSE <<>>
  <2>1. m \in Messages /\ r \in Routes
    BY <1>2, <1>5, MessagesTyped DEF Carried
  <2>2. Demultiplex(m)
    BY <1>5 DEF Receive
  <2>3. after \in SM!StateMachines({Probe})
    BY <2>1, HandleTyped DEF TypeOK, Machines
  <2>4. sm' \in [Routes -> SM!StateMachines({Probe})]
    <3>1. sm' = [sm EXCEPT ![r] = after]
      BY <2>2, Zenon DEF Demultiplex
    <3>2. sm \in [Routes -> SM!StateMachines({Probe})]
      BY DEF TypeOK
    <3>3. QED
      BY <2>1, <2>3, <3>1, <3>2
  <2>5. put \in Seq(Events)
    <3> HIDE DEF m, after, taken
    <3>1. m.type = "Data" => m \in Events
      BY <2>1, MessagesTyped
    <3>2. ClosedFor(m) \in Seq(Events)
      BY <2>1, OneTyped, MessagesTyped DEF ClosedFor
    <3>3. QED
      BY <3>1, <3>2, OneTyped
  <2>6. local' = local \/ local' = local \o put
    BY <2>2, Zenon DEF Demultiplex
  <2>7. local' \in Seq(Events)
    <3>1. local \in Seq(Events)
      BY <1>1 DEF QueuesTyped
    <3> HIDE DEF put
    <3>2. local \o put \in Seq(Events)
      BY <2>5, <3>1
    <3>3. QED
      BY <2>6, <3>1, <3>2
  <2>8. router' \in {"ending", "batch"}
    BY <2>2, Zenon DEF Demultiplex
  <2>9. QED
    BY <1>3, <1>5, <2>4, <2>7, <2>8 DEF Receive, TypeOK, IpcTyped
<1>6. QED
  BY <1>4, <1>5

\* A poll keeps all types, in whatever order the machines come.
LEMMA PollAllTyped ==
  ASSUME TypeOK, Poll
  PROVE  TypeOK'
<1> USE DEF proxyVars, demuxVars, routerVars, clientVars
<1> DEFINE taken == {r \in Routes : sm[r].maybe /\ ~sm'[r].maybe}
<1>1. sm' \in [Routes -> SM!StateMachines({Probe})]
  <2>1. \A r \in Routes : sm[r] \in Machines
    BY DEF TypeOK, Machines
  <2>2. \A r \in Routes : SM!Poll(sm[r], Failing(r)) \in Machines
    BY <2>1, PollTyped
  <2>3. sm' = [r \in Routes |->
          IF Of[r] \in registered /\ at[r] # "none" THEN SM!Poll(sm[r], Failing(r)) ELSE sm[r]]
    BY DEF Poll
  <2>4. QED
    BY <2>1, <2>2, <2>3 DEF Machines
<1>2. PICK order \in SetToSeqs(taken \cap switched) :
        local' = local \o [i \in DOMAIN order |-> Closed(order[i])]
  BY DEF Poll
<1>3. Cardinality(taken \cap switched) \in Nat
  <2>1. IsFiniteSet(taken \cap switched)
    BY RouterAssumption, FS_Subset
  <2>2. QED
    BY <2>1, FS_CardinalityType
<1>4. /\ DOMAIN order = 1 .. Cardinality(taken \cap switched)
      /\ \A i \in DOMAIN order : order[i] \in Routes
  BY <1>2 DEF SetToSeqs
<1>5. [i \in DOMAIN order |-> Closed(order[i])] \in Seq(Events)
  <2>1. \A i \in DOMAIN order : Closed(order[i]) \in Events
    BY <1>4, MessagesTyped
  <2> DEFINE n == Cardinality(taken \cap switched)
  <2>2. n \in Nat /\ DOMAIN order = 1 .. n
    BY <1>3, <1>4
  <2> HIDE DEF n
  <2>3. QED
    BY <2>1, <2>2
<1>6. local' \in Seq(Events)
  <2>1. local \in Seq(Events)
    BY DEF TypeOK
  <2> DEFINE put == [i \in DOMAIN order |-> Closed(order[i])]
  <2>2. put \in Seq(Events) /\ local' = local \o put
    BY <1>2, <1>5
  <2> HIDE DEF put
  <2>3. QED
    BY <2>1, <2>2
<1>7. router' \in {"ipc", "select"}
  BY DEF Poll
<1>8. QED
  BY <1>1, <1>6, <1>7 DEF Poll, TypeOK

\* The handling of the next event keeps the types of the queues and the router.
LEMMA NextEventTyped ==
  ASSUME TypeOK, router = "events", events # <<>>, NextEvent
  PROVE  events' \in Seq(Events) /\ router' \in {"select", "events"}
BY TailTyped DEF TypeOK, NextEvent

\* There are events to handle while the router handles events.
EventsLeft == router = "events" => events # <<>>

LEMMA EventsLeftStep ==
  ASSUME TypeOK, EventsLeft, [Next]_vars
  PROVE  EventsLeft'
<1> USE DEF EventsLeft, proxyVars, demuxVars, routerVars, clientVars
<1>1. CASE UNCHANGED vars
  BY <1>1 DEF vars
<1>2. ASSUME NEW r \in Routes, SubChannel(r) \/ AddRoute(r)
      PROVE  EventsLeft'
  BY <1>2 DEF SubChannel, AddRoute, SendRoute, SendWakeup, AwaitAck, Fail
<1>3. ASSUME NEW r \in Routes,
             Send(r) \/ Drop(r) \/ Lend(r) \/ Borrow(r) \/ Lose(r) \/ Return(r)
      PROVE  EventsLeft'
  BY <1>3 DEF Send, Drop, Lend, Borrow, Lose, Return
<1>4. CASE Shutdown \/ Stop \/ OwnerLeaves
  BY <1>4 DEF Shutdown, Stop, SendShutdown, Join, OwnerLeaves
<1>5. ASSUME NextEvent, router = "events" PROVE EventsLeft'
  <2>1. events \in Seq(Events) /\ events # <<>>
    BY <1>5 DEF TypeOK
  <2>2. Len(events) # 1 => Tail(events) # <<>>
    BY <2>1, TailLeft
  <2>3. QED
    BY <1>5, <2>2 DEF NextEvent
<1>6. CASE Run
  <2>1. CASE Select
    BY <2>1 DEF Select
  <2>2. ASSUME NEW k \in IpcChannels, Receive(k) PROVE EventsLeft'
    BY <2>2 DEF Receive, Demultiplex
  <2>3. CASE EndBatch \/ TimeOut \/ Poll \/ DropQueue \/ DropSubReceiverSet \/ HandleShutdown
    BY <2>3 DEF EndBatch, TimeOut, Poll, DropQueue, DropSubReceiverSet, HandleShutdown
  <2>4. CASE HandleAddRoute \/ HandleMessage \/ HandleClosed
    BY <1>5, <2>4 DEF HandleAddRoute, HandleMessage, HandleClosed
  <2>5. QED
    BY <1>6, <2>1, <2>2, <2>3, <2>4 DEF Run
<1>7. QED
  BY <1>1, <1>2, <1>3, <1>4, <1>6 DEF Next

\* A step of the router thread keeps all types.
LEMMA RunTyped ==
  ASSUME TypeOK, EventsLeft, Run
  PROVE  TypeOK'
<1> USE DEF proxyVars, demuxVars, routerVars, clientVars
<1>1. CASE Select
  <2>1. <<>> \in Seq(Events)
    OBVIOUS
  <2>2. QED
    BY <1>1, <2>1 DEF Select, TypeOK
<1>2. CASE EndBatch \/ TimeOut
  BY <1>2 DEF EndBatch, TimeOut, TypeOK
<1>3. CASE HandleAddRoute
  <2>1. Head(msgs) \in Routes /\ Tail(msgs) \in Seq(Routes \cup {Stopper})
    BY <1>3, TailTyped DEF HandleAddRoute, TypeOK
  <2>2. events' \in Seq(Events) /\ router' \in {"select", "events"}
    BY <1>3, NextEventTyped DEF HandleAddRoute, EventsLeft
  <2>3. sm' \in [Routes -> SM!StateMachines({Probe})]
    <3>1. SM!SwitchSender(sm[Head(msgs)]) \in SM!StateMachines({Probe})
      BY <2>1, NewTyped DEF TypeOK, Machines
    <3>2. sm' = [sm EXCEPT ![Head(msgs)] = SM!SwitchSender(sm[Head(msgs)])]
      BY <1>3 DEF HandleAddRoute
    <3>3. QED
      BY <2>1, <3>1, <3>2 DEF TypeOK
  <2>4. registered' \subseteq Channels
    BY <1>3, <2>1, ChannelTyped DEF HandleAddRoute, Merge, TypeOK
  <2>5. QED
    BY <1>3, <2>1, <2>2, <2>3, <2>4 DEF HandleAddRoute, TypeOK
<1>4. CASE HandleShutdown
  <2>1. Tail(msgs) \in Seq(Routes \cup {Stopper})
    BY <1>4, TailTyped DEF HandleShutdown, TypeOK
  <2>2. QED
    BY <1>4, <2>1 DEF HandleShutdown, TypeOK
<1>5. CASE HandleMessage
  <2>1. events' \in Seq(Events) /\ router' \in {"select", "events"}
    BY <1>5, NextEventTyped DEF HandleMessage, EventsLeft
  <2>2. Head(events) \in Events /\ Head(events).type = "Data"
    BY <1>5, TailTyped DEF HandleMessage, EventsLeft, TypeOK
  <2>3. Head(events).route \in Routes /\ Head(events).number \in Nat
    BY <2>2 DEF Events, Wakeup
  <2>4. handled' \in [Routes -> Nat]
    BY <1>5, <2>3 DEF HandleMessage, TypeOK
  <2>5. QED
    BY <1>5, <2>1, <2>4 DEF HandleMessage, TypeOK
<1>6. CASE HandleClosed
  <2>1. events' \in Seq(Events) /\ router' \in {"select", "events"}
    BY <1>6, NextEventTyped DEF HandleClosed, EventsLeft
  <2>2. QED
    BY <1>6, <2>1 DEF HandleClosed, TypeOK
<1>7. CASE DropQueue
  <2>1. \A S : <<>> \in Seq(S)
    OBVIOUS
  <2>2. QED
    BY <1>7, <2>1 DEF DropQueue, TypeOK
<1>8. CASE DropSubReceiverSet
  <2>1. \A S : <<>> \in Seq(S)
    OBVIOUS
  <2>2. IpcTyped'
    BY <1>8, <2>1 DEF DropSubReceiverSet, IpcTyped
  <2>3. QED
    BY <1>8, <2>1, <2>2 DEF DropSubReceiverSet, TypeOK, IpcTyped
<1>9. QED
  BY <1>1, <1>2, <1>3, <1>4, <1>5, <1>6, <1>7, <1>8, ReceiveTyped, PollAllTyped DEF Run

\* TypeOK holds in all reachable states (TypeOK in Router).
THEOREM TypeCorrect == Spec => [](TypeOK /\ EventsLeft)
<1>1. Init => TypeOK /\ EventsLeft
  BY InitTyped DEF Init, EventsLeft
<1>2. TypeOK /\ EventsLeft /\ [Next]_vars => TypeOK' /\ EventsLeft'
  <2> SUFFICES ASSUME TypeOK, EventsLeft, [Next]_vars PROVE TypeOK'
    BY EventsLeftStep
  <2>1. CASE UNCHANGED vars
    BY <2>1 DEF vars, proxyVars, demuxVars, routerVars, clientVars, TypeOK
  <2>2. CASE OwnerLeaves
    BY <2>2 DEF OwnerLeaves, TypeOK, proxyVars, demuxVars, routerVars
  <2>3. QED
    BY <2>1, <2>2, AddRouteTyped, ShutdownTyped, ClientTyped, RunTyped DEF Next
<1>3. QED
  BY <1>1, <1>2, PTL DEF Spec

-----------------------------------------------------------------------------
(* A route is in place before anyone uses it.                              *)

\* Who has the comm of the RouterProxy locked, and until when.
Locked ==
  /\ \A r \in Routes : at[r] = "wakeup" => comm = r
  /\ stop \in {"message", "wait", "join"} => comm = Stopper
  /\ stop = "done" => router = "ended"

\* A call of add_route fails only when the router is about to end, and returns a
\* subsender only after the router has acknowledged the route.
CallsAnswered ==
  \A r \in Routes :
    /\ at[r] \in {"failing", "failed"} => ~Running
    /\ at[r] = "routed" => r \in acks
    /\ copy[r] # "none" => at[r] = "routed"

AcknowledgedInPlace ==
  \A r \in acks : r \in switched /\ Of[r] \in registered

\* While the router runs, all messages are for routes that callers have got.
UsedWhenRouted ==
  Running => \A k \in Channels : \A i \in DOMAIN ipc[k] :
    LET r == ipc[k][i].route IN at[r] = "routed" /\ Of[r] = k

InPlaceInv ==
  TypeOK /\ EventsLeft /\ Locked /\ CallsAnswered /\ AcknowledgedInPlace /\ UsedWhenRouted

LEMMA InPlaceInit == Init => InPlaceInv
<1> SUFFICES ASSUME Init PROVE InPlaceInv
  OBVIOUS
<1>1. TypeOK /\ EventsLeft
  BY InitTyped DEF Init, EventsLeft
<1>2. Locked /\ CallsAnswered /\ AcknowledgedInPlace
  BY DEF Init, Locked, CallsAnswered, AcknowledgedInPlace
<1>3. UsedWhenRouted
  BY DEF Init, UsedWhenRouted, IpcChannels
<1>4. QED
  BY <1>1, <1>2, <1>3 DEF InPlaceInv

\* A router that is about to end does not run again, and one that has ended stays
\* so.
LEMMA EndIsFinal ==
  ASSUME [Next]_vars
  PROVE  (~Running => ~Running') /\ (router = "ended" => router' = "ended")
<1> USE DEF Running, proxyVars, demuxVars, routerVars, clientVars
<1>1. CASE UNCHANGED vars
  BY <1>1 DEF vars
<1>2. ASSUME NEW r \in Routes, SubChannel(r) \/ AddRoute(r)
      PROVE  router' = router
  BY <1>2 DEF SubChannel, AddRoute, SendRoute, SendWakeup, AwaitAck, Fail
<1>3. ASSUME NEW r \in Routes,
             Send(r) \/ Drop(r) \/ Lend(r) \/ Borrow(r) \/ Lose(r) \/ Return(r)
      PROVE  router' = router
  BY <1>3 DEF Send, Drop, Lend, Borrow, Lose, Return
<1>4. CASE Shutdown \/ Stop \/ OwnerLeaves
  BY <1>4 DEF Shutdown, Stop, SendShutdown, Join, OwnerLeaves
<1>5. CASE Run
  <2>1. CASE Select \/ EndBatch \/ TimeOut \/ Poll \/ \E k \in IpcChannels : Receive(k)
    BY <2>1 DEF Select, EndBatch, TimeOut, Poll, Receive
  <2>2. CASE HandleAddRoute \/ HandleMessage \/ HandleClosed \/ HandleShutdown
    BY <2>2 DEF HandleAddRoute, HandleMessage, HandleClosed, HandleShutdown
  <2>3. CASE DropQueue \/ DropSubReceiverSet
    BY <2>3 DEF DropQueue, DropSubReceiverSet
  <2>4. QED
    BY <1>5, <2>1, <2>2, <2>3 DEF Run
<1>6. QED
  BY <1>1, <1>2, <1>3, <1>4, <1>5 DEF Next

\* The router thread, and a process that leaves, do nothing to the callers.
LEMMA OthersKeep ==
  ASSUME [Next]_vars,
         ~ \E r \in Routes : SubChannel(r) \/ AddRoute(r),
         ~ (Shutdown \/ Stop)
  PROVE  UNCHANGED <<at, comm, stop>>
<1> USE DEF proxyVars, demuxVars, routerVars, clientVars
<1>1. CASE UNCHANGED vars
  BY <1>1 DEF vars
<1>2. ASSUME NEW r \in Routes,
             Send(r) \/ Drop(r) \/ Lend(r) \/ Borrow(r) \/ Lose(r) \/ Return(r)
      PROVE  UNCHANGED <<at, comm, stop>>
  BY <1>2 DEF Send, Drop, Lend, Borrow, Lose, Return
<1>3. CASE Run
  BY <1>3 DEF Run, Select, EndBatch, TimeOut, Poll, Receive, HandleAddRoute, HandleMessage,
              HandleClosed, HandleShutdown, DropQueue, DropSubReceiverSet
<1>4. CASE OwnerLeaves
  BY <1>4 DEF OwnerLeaves
<1>5. QED
  BY <1>1, <1>2, <1>3, <1>4 DEF Next

LEMMA LockedStep ==
  ASSUME InPlaceInv, [Next]_vars
  PROVE  Locked'
<1> USE DEF Locked
<1>0. Locked /\ at \in [Routes -> {"none", "lock", "wakeup", "wait", "failing", "failed", "routed"}]
  BY DEF InPlaceInv, TypeOK
<1>1. ASSUME NEW r \in Routes, SubChannel(r) \/ AddRoute(r)
      PROVE  Locked'
  <2>0. router' = router /\ Stopper # r /\ NoOne # r
    BY <1>1, RouterAssumption DEF SubChannel, AddRoute, SendRoute, SendWakeup, AwaitAck, Fail,
                                  routerVars
  <2>1. CASE SubChannel(r)
    BY <1>0, <2>0, <2>1 DEF SubChannel
  <2>2. CASE SendRoute(r)
    <3>1. \A q \in Routes : at[q] # "wakeup"
      BY <1>0, <2>2, RouterAssumption DEF SendRoute
    <3>2. stop' = stop /\ (stop = "no" \/ comm' = comm)
      BY <2>2 DEF SendRoute
    <3>3. \A q \in Routes : at'[q] = "wakeup" => q = r /\ comm' = r
      BY <1>0, <2>2, <3>1 DEF SendRoute
    <3>4. QED
      BY <1>0, <2>0, <3>2, <3>3
  <2>3. CASE SendWakeup(r)
    BY <1>0, <2>0, <2>3 DEF SendWakeup
  <2>4. CASE AwaitAck(r) \/ Fail(r)
    BY <1>0, <2>0, <2>4 DEF AwaitAck, Fail
  <2>5. QED
    BY <1>1, <2>1, <2>2, <2>3, <2>4 DEF AddRoute
<1>2. CASE Shutdown \/ Stop
  <2>0. router' = router /\ at' = at /\ (\A r \in Routes : Stopper # r /\ NoOne # r)
    BY <1>2, RouterAssumption DEF Shutdown, Stop, SendShutdown, Join, routerVars
  <2>1. CASE Shutdown
    BY <1>0, <2>0, <2>1 DEF Shutdown
  <2>2. CASE SendShutdown
    BY <1>0, <2>0, <2>2 DEF SendShutdown
  <2>3. CASE Join
    BY <1>0, <2>0, <2>3 DEF Join
  <2>4. QED
    BY <1>2, <2>1, <2>2, <2>3 DEF Stop
<1>3. CASE /\ ~ \E r \in Routes : SubChannel(r) \/ AddRoute(r)
           /\ ~ (Shutdown \/ Stop)
  BY <1>0, <1>3, OthersKeep, EndIsFinal
<1>4. QED
  BY <1>1, <1>2, <1>3

\* What has been acknowledged is in place, and stays so.
LEMMA AcknowledgedStep ==
  ASSUME InPlaceInv, [Next]_vars
  PROVE  AcknowledgedInPlace' /\ acks \subseteq acks'
<1> USE DEF AcknowledgedInPlace, proxyVars, demuxVars, routerVars, clientVars
<1>0. AcknowledgedInPlace
  BY DEF InPlaceInv
<1>1. CASE UNCHANGED vars
  BY <1>0, <1>1 DEF vars
<1>2. ASSUME NEW r \in Routes, SubChannel(r) \/ AddRoute(r)
      PROVE  UNCHANGED <<acks, switched, registered>>
  BY <1>2 DEF SubChannel, AddRoute, SendRoute, SendWakeup, AwaitAck, Fail
<1>3. ASSUME NEW r \in Routes,
             Send(r) \/ Drop(r) \/ Lend(r) \/ Borrow(r) \/ Lose(r) \/ Return(r)
      PROVE  UNCHANGED <<acks, switched, registered>>
  BY <1>3 DEF Send, Drop, Lend, Borrow, Lose, Return
<1>4. CASE Shutdown \/ Stop \/ OwnerLeaves
  BY <1>0, <1>4 DEF Shutdown, Stop, SendShutdown, Join, OwnerLeaves
<1>5. CASE HandleAddRoute
  BY <1>0, <1>5 DEF HandleAddRoute, Merge
<1>6. CASE Run /\ ~HandleAddRoute
  <2>1. UNCHANGED <<acks, switched, registered>>
    BY <1>6 DEF Run, Select, EndBatch, TimeOut, Poll, Receive, HandleMessage,
                HandleClosed, HandleShutdown, DropQueue, DropSubReceiverSet
  <2>2. QED
    BY <1>0, <2>1
<1>7. QED
  BY <1>0, <1>1, <1>2, <1>3, <1>4, <1>5, <1>6 DEF Next

LEMMA CallsAnsweredStep ==
  ASSUME InPlaceInv, [Next]_vars
  PROVE  CallsAnswered' /\ \A r \in Routes : at[r] = "routed" => at'[r] = "routed"
<1> USE DEF CallsAnswered
<1>0. /\ CallsAnswered /\ Locked
      /\ at \in [Routes -> {"none", "lock", "wakeup", "wait", "failing", "failed", "routed"}]
      /\ stop \in {"no", "message", "wait", "join", "done"}
      /\ copy \in [Routes -> {"none", "sent", "lost", "held", "dropped", "exited"}]
  BY DEF InPlaceInv, TypeOK
<1>a. (~Running => ~Running') /\ acks \subseteq acks'
  BY EndIsFinal, AcknowledgedStep
<1>1. ASSUME NEW r \in Routes, SubChannel(r) \/ AddRoute(r)
      PROVE  CallsAnswered' /\ \A q \in Routes : at[q] = "routed" => at'[q] = "routed"
  <2>0. copy' = copy
    BY <1>1 DEF SubChannel, AddRoute, SendRoute, SendWakeup, AwaitAck, Fail, clientVars
  <2>1. CASE SubChannel(r)
    BY <1>0, <1>a, <2>0, <2>1 DEF SubChannel
  <2>2. CASE SendRoute(r)
    <3>1. \/ at' = [at EXCEPT ![r] = "wakeup"]
          \/ at' = [at EXCEPT ![r] = "failing"] /\ ~Running
      <4>1. comm = NoOne => stop \in {"no", "done"}
        BY <1>0, RouterAssumption DEF Locked
      <4>2. NoQueue => ~Running
        BY DEF NoQueue, Running
      <4>3. stop = "done" => ~Running
        BY <1>0 DEF Locked, Running
      <4>4. QED
        BY <2>2, <4>1, <4>2, <4>3 DEF SendRoute
    <3>2. QED
      BY <1>0, <1>a, <2>0, <2>2, <3>1 DEF SendRoute
  <2>3. CASE SendWakeup(r)
    <3>1. NoIpc => ~Running
      BY DEF NoIpc, Running
    <3>2. QED
      BY <1>0, <1>a, <2>0, <2>3, <3>1 DEF SendWakeup
  <2>4. CASE AwaitAck(r)
    <3>1. NoQueue => ~Running
      BY DEF NoQueue, Running
    <3>2. QED
      BY <1>0, <1>a, <2>0, <2>4, <3>1 DEF AwaitAck
  <2>5. CASE Fail(r)
    BY <1>0, <1>a, <2>0, <2>5 DEF Fail
  <2>6. QED
    BY <1>1, <2>1, <2>2, <2>3, <2>4, <2>5 DEF AddRoute
<1>2. CASE Shutdown \/ Stop
  <2>1. at' = at /\ copy' = copy
    BY <1>2 DEF Shutdown, Stop, SendShutdown, Join, clientVars
  <2>2. QED
    BY <1>0, <1>a, <2>1
<1>3. ASSUME NEW r \in Routes,
             Send(r) \/ Drop(r) \/ Lend(r) \/ Borrow(r) \/ Lose(r) \/ Return(r)
      PROVE  CallsAnswered' /\ at' = at
  <2>1. at' = at
    BY <1>3 DEF Send, Drop, Lend, Borrow, Lose, Return, proxyVars
  <2>2. \A q \in Routes : copy'[q] # "none" => copy[q] # "none" \/ at[q] = "routed"
    BY <1>0, <1>3 DEF Send, Drop, Lend, Borrow, Lose, Return, HasSubSender
  <2>3. QED
    BY <1>0, <1>a, <2>1, <2>2
<1>4. CASE Run \/ OwnerLeaves \/ UNCHANGED vars
  <2>1. at' = at /\ copy' = copy
    BY <1>4 DEF Run, Select, EndBatch, TimeOut, Poll, Receive, HandleAddRoute, HandleMessage,
                HandleClosed, HandleShutdown, DropQueue, DropSubReceiverSet, OwnerLeaves, vars,
                proxyVars, clientVars
  <2>2. QED
    BY <1>0, <1>a, <2>1
<1>5. QED
  BY <1>1, <1>2, <1>3, <1>4 DEF Next

\* Putting a message of a route that its caller has got keeps UsedWhenRouted.
LEMMA PutRouted ==
  ASSUME InPlaceInv, UsedWhenRouted, at' = at, router' = router,
         NEW r \in Routes, at[r] = "routed", NEW m \in Messages, m.route = r, Put(Of[r], m)
  PROVE  UsedWhenRouted'
<1>1. /\ ipc \in [IpcChannels -> Seq(Messages \cup {Wakeup})]
      /\ \A k \in Channels : k \in IpcChannels /\ ipc[k] \in Seq(Messages)
      /\ Of[r] \in Channels
  BY ChannelTyped DEF InPlaceInv, TypeOK
<1>2. SUFFICES ASSUME Running, NEW k \in Channels, NEW i \in DOMAIN ipc'[k]
               PROVE  at[ipc'[k][i].route] = "routed" /\ Of[ipc'[k][i].route] = k
  <2>1. Running' <=> Running
    BY DEF Running
  <2>2. QED
    BY <2>1 DEF UsedWhenRouted
<1>3. ipc' = [ipc EXCEPT ![Of[r]] = Append(ipc[Of[r]], m)]
  BY <1>2 DEF Put, NoIpc, Running
<1>4. CASE k = Of[r]
  <2>1. ipc'[k] = Append(ipc[k], m) /\ ipc[k] \in Seq(Messages)
    BY <1>1, <1>3, <1>4
  <2>2. \/ i \in DOMAIN ipc[k] /\ ipc'[k][i] = ipc[k][i]
        \/ ipc'[k][i] = m
    BY <2>1
  <2>3. QED
    BY <1>2, <1>4, <2>2 DEF UsedWhenRouted
<1>5. CASE k # Of[r]
  <2>1. ipc'[k] = ipc[k]
    BY <1>1, <1>3, <1>5
  <2>2. QED
    BY <1>2, <2>1 DEF UsedWhenRouted
<1>6. QED
  BY <1>4, <1>5

\* IPC channels that do not grow hold no other messages.
LEMMA ShorterUsed ==
  ASSUME InPlaceInv, [Next]_vars,
         \A k \in Channels : ipc'[k] = ipc[k] \/ (ipc[k] # <<>> /\ ipc'[k] = Tail(ipc[k]))
  PROVE  UsedWhenRouted'
<1>1. UsedWhenRouted /\ (Running' => Running)
  BY EndIsFinal DEF InPlaceInv
<1>2. SUFFICES ASSUME Running, NEW k \in Channels, NEW i \in DOMAIN ipc'[k]
               PROVE  at'[ipc'[k][i].route] = "routed" /\ Of[ipc'[k][i].route] = k
  BY <1>1 DEF UsedWhenRouted
<1>3. ipc[k] \in Seq(Messages)
  BY ChannelTyped DEF InPlaceInv, TypeOK
<1>4. \E j \in DOMAIN ipc[k] : ipc'[k][i] = ipc[k][j]
  <2>1. CASE ipc'[k] = ipc[k]
    BY <2>1
  <2>2. CASE ipc[k] # <<>> /\ ipc'[k] = Tail(ipc[k])
    <3>1. i + 1 \in DOMAIN ipc[k] /\ ipc'[k][i] = ipc[k][i + 1]
      BY <1>3, <2>2
    <3>2. QED
      BY <3>1
  <2>3. QED
    BY <2>1, <2>2
<1>5. \A j \in DOMAIN ipc[k] : ipc[k][j].route \in Routes
  BY <1>3, MessagesTyped
<1>6. PICK j \in DOMAIN ipc[k] : ipc'[k][i] = ipc[k][j]
  BY <1>4
<1>7. at[ipc[k][j].route] = "routed" /\ Of[ipc[k][j].route] = k
  BY <1>1, <1>2, <1>6 DEF UsedWhenRouted
<1>8. QED
  BY <1>5, <1>6, <1>7, CallsAnsweredStep

LEMMA UsedStep ==
  ASSUME InPlaceInv, [Next]_vars
  PROVE  UsedWhenRouted'
<1>0. /\ ipc \in [IpcChannels -> Seq(Messages \cup {Wakeup})]
      /\ \A k \in Channels : k \in IpcChannels /\ k # WakeupChannel
  BY ChannelTyped, RouterAssumption DEF InPlaceInv, TypeOK
<1>1. ASSUME UNCHANGED ipc PROVE UsedWhenRouted'
  BY <1>1, ShorterUsed
<1>2. ASSUME Put(WakeupChannel, Wakeup) PROVE UsedWhenRouted'
  <2>1. \A k \in Channels : ipc'[k] = ipc[k]
    BY <1>0, <1>2 DEF Put
  <2>2. QED
    BY <2>1, ShorterUsed
<1>3. ASSUME ~Running' PROVE UsedWhenRouted'
  BY <1>3 DEF UsedWhenRouted
<1>4. ASSUME NEW r \in Routes, SubChannel(r) \/ AddRoute(r)
      PROVE  UsedWhenRouted'
  <2>1. CASE SubChannel(r) \/ SendRoute(r) \/ AwaitAck(r)
    BY <1>1, <2>1 DEF SubChannel, SendRoute, AwaitAck
  <2>2. CASE SendWakeup(r)
    BY <1>2, <2>2 DEF SendWakeup
  <2>3. CASE Fail(r)
    BY <1>3, <2>3, EndIsFinal DEF Fail, InPlaceInv, CallsAnswered
  <2>4. QED
    BY <1>4, <2>1, <2>2, <2>3 DEF AddRoute
<1>5. CASE Shutdown \/ Stop
  BY <1>1, <1>2, <1>5 DEF Shutdown, Stop, SendShutdown, Join
<1>6. ASSUME NEW r \in Routes,
             Send(r) \/ Drop(r) \/ Lend(r) \/ Borrow(r) \/ Lose(r) \/ Return(r)
      PROVE  UsedWhenRouted'
  <2>1. CASE Lose(r)
    BY <1>1, <2>1 DEF Lose
  <2>2. at' = at /\ router' = router
    BY <1>6 DEF Send, Drop, Lend, Borrow, Lose, Return, proxyVars, routerVars
  <2>3. at[r] = "routed"
    BY <1>6 DEF Send, Drop, Lend, Borrow, Lose, Return, HasSubSender, InPlaceInv, CallsAnswered
  <2>4. CASE Send(r)
    <3>1. sent'[r] \in Nat
      BY <2>4 DEF Send, InPlaceInv, TypeOK
    <3>2. QED
      BY <2>2, <2>3, <2>4, <3>1, PutRouted, MessagesTyped DEF Send, Data, InPlaceInv
  <2>5. CASE Drop(r) \/ Return(r)
    BY <2>2, <2>3, <2>5, PutRouted, MessagesTyped DEF Drop, Return, Disconnect, InPlaceInv
  <2>6. CASE Lend(r)
    BY <2>2, <2>3, <2>6, PutRouted, MessagesTyped DEF Lend, Sending, InPlaceInv
  <2>7. CASE Borrow(r)
    BY <2>2, <2>3, <2>7, PutRouted, MessagesTyped DEF Borrow, Received, InPlaceInv
  <2>8. QED
    BY <1>6, <2>1, <2>4, <2>5, <2>6, <2>7
<1>7. ASSUME NEW k \in IpcChannels, Receive(k) PROVE UsedWhenRouted'
  <2>1. ipc[k] # <<>> /\ ipc' = [ipc EXCEPT ![k] = Tail(ipc[k])]
    BY <1>7 DEF Receive
  <2>2. \A j \in Channels : ipc'[j] = ipc[j] \/ (ipc[j] # <<>> /\ ipc'[j] = Tail(ipc[j]))
    BY <1>0, <2>1
  <2>3. QED
    BY <2>2, ShorterUsed
<1>8. CASE DropSubReceiverSet
  BY <1>3, <1>8 DEF DropSubReceiverSet, Running
<1>9. CASE Run
  <2>1. CASE \/ Select \/ EndBatch \/ TimeOut \/ Poll \/ HandleAddRoute \/ HandleMessage
             \/ HandleClosed \/ HandleShutdown \/ DropQueue
    BY <1>1, <2>1 DEF Select, EndBatch, TimeOut, Poll, HandleAddRoute, HandleMessage,
                      HandleClosed, HandleShutdown, DropQueue
  <2>2. QED
    BY <1>7, <1>8, <1>9, <2>1 DEF Run
<1>10. CASE OwnerLeaves \/ UNCHANGED vars
  BY <1>1, <1>10 DEF OwnerLeaves, vars
<1>11. QED
  BY <1>4, <1>5, <1>6, <1>9, <1>10 DEF Next

\* A subsender that its caller has got, or a message under way, finds the
\* subchannel switched and the IPC channel registered (RouteInPlaceBeforeUse in
\* Router), however many routes there are, and whenever the router ends.
THEOREM RoutesInPlace == Spec => []RouteInPlaceBeforeUse
<1>1. Init => InPlaceInv
  BY InPlaceInit
<1>2. InPlaceInv /\ TypeOK' /\ EventsLeft' /\ [Next]_vars => InPlaceInv'
  BY LockedStep, AcknowledgedStep, CallsAnsweredStep, UsedStep DEF InPlaceInv
<1>3. InPlaceInv => RouteInPlaceBeforeUse
  <2> SUFFICES ASSUME InPlaceInv, Running, NEW r \in Routes,
                      at[r] = "routed" \/ \E i \in DOMAIN ipc[Of[r]] : ipc[Of[r]][i].route = r
               PROVE  r \in switched /\ Of[r] \in registered
    BY DEF RouteInPlaceBeforeUse
  <2>1. at[r] = "routed"
    BY ChannelTyped DEF InPlaceInv, UsedWhenRouted
  <2>2. QED
    BY <2>1 DEF InPlaceInv, CallsAnswered, AcknowledgedInPlace
<1>4. QED
  BY <1>1, <1>2, <1>3, TypeCorrect, PTL DEF Spec
=============================================================================
