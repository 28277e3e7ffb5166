-------------------------------- MODULE Demux --------------------------------
(***************************************************************************)
(* Several subchannels of one IPC channel, with a thread receiving on each *)
(* of their subreceivers.                                                  *)
(*                                                                         *)
(* A thread that finds its local queue empty tries to lock the Demuxer,    *)
(* and then receives from the IPC channel whatever comes, for itself or    *)
(* for another.  If the Demuxer is locked it waits for a moment on its     *)
(* local queue, and tries again.                                           *)
(*                                                                         *)
(* A client is a MultiSender.  Home is that of the Channel: it has         *)
(* subsenders of every subchannel, and the Demuxer knew it from the start. *)
(* A guest got one subsender, from a message or an IpcChannelSubSender,    *)
(* and has to connect.  A client hears of dropped subreceivers through its *)
(* response channel, and takes note of those it has a proxy for.           *)
(*                                                                         *)
(* The Channel is kept, so that the IPC channel stays open.  Subsenders on *)
(* their way to guests do not get lost, so that no probe fails and polling *)
(* changes nothing (Lifecycle and IpcTransport are about that).            *)
(***************************************************************************)
EXTENDS Naturals, Sequences, FiniteSets, Functions

CONSTANTS
  Subs,      \* the subchannels
  Home,      \* the client of the Channel
  Guests,    \* the other clients
  On,        \* On[g]: the subchannel that guest g has a subsender of
  Proxied,   \* guests with a proxy for their subreceiver
  NoSub, NoMessage,
  Transit,   \* the key under which the guests' subsenders are in flight
  NoProbe,
  Dropping,  \* subchannels whose subreceiver may be dropped
  Methods,   \* the methods the threads call
  MaxSends   \* bound: payloads sent, over a behaviour

Clients == Guests \cup {Home}

ASSUME DemuxAssumption ==
  /\ IsFiniteSet(Guests) /\ Home \notin Guests
  /\ On \in [Guests -> Subs]
  /\ Proxied \subseteq Guests
  /\ NoSub \notin Subs
  /\ Dropping \subseteq Subs
  /\ Methods \subseteq {"recv", "try_recv", "try_recv_timeout"}
  /\ MaxSends \in Nat

VARIABLES
  ipc,         \* the IPC channel
  demuxer,     \* the thread that has the Demuxer locked
  hand,        \* hand[s]: the message it has received and not yet handled
  ipcSenders,  \* the clients whose response channel the Demuxer has
  sm,          \* sm[s]: the state machine of subchannel s
  local,       \* local[s]: the local queue of s
  at,          \* at[s]: where the thread of s is
  call,        \* call[s]: the method it is in, or "none"
  got,         \* got[s][c]: number of the last payload received from c on s
  due,         \* due[s]: clients that sent Connect before s began to be dropped
  joining,     \* joining[g]: how far guest g is in getting its subsender
  holds,       \* holds[c]: the subchannels c has a subsender of
  sending,     \* sending[c]: the subchannel that c is sending on
  sent,        \* sent[c][s]: payloads sent by c on s
  responses,   \* responses[c]: dropped subreceivers, in the response channel
  known        \* known[c]: those that c has taken note of

receiverVars == <<at, call, got, due>>
demuxerVars  == <<demuxer, hand, ipcSenders, sm, local>>
clientVars   == <<joining, holds, sending, sent, known>>
vars == <<ipc, demuxerVars, receiverVars, clientVars, responses>>

SM == INSTANCE SubSenderStateMachine WITH Sources <- Clients, Vias <- {Transit}

Connect(c)       == [type |-> "Connect", client |-> c]
Data(s, c, n)    == [type |-> "Data", sub |-> s, client |-> c, number |-> n]
Received(s, c)   == [type |-> "Received", sub |-> s, client |-> c]
Disconnect(s, c) == [type |-> "Disconnect", sub |-> s, client |-> c]

\* What a state machine puts into the local queue last.
LocalDisconnect == [type |-> "Disconnect"]

Messages ==
       [type : {"Connect"}, client : Clients]
  \cup [type : {"Data"}, sub : Subs, client : Clients, number : Nat]
  \cup [type : {"Received", "Disconnect"}, sub : Subs, client : Clients]

ASSUME NoMessageAssumption == NoMessage \notin Messages

TypeOK ==
  /\ ipc \in Seq(Messages)
  /\ demuxer \in Subs \cup {NoSub}
  /\ hand \in [Subs -> Messages \cup {NoMessage}]
  /\ ipcSenders \subseteq Clients
  /\ sm \in [Subs -> SM!StateMachines({})]
  /\ local \in [Subs -> Seq(Messages \cup {LocalDisconnect})]
  /\ at \in [Subs ->
       {"idle", "told", "look", "lock", "wait", "receive", "handle", "try",
        "look_again", "drain", "broadcast", "drain_again", "close", "dropped"}]
  /\ call \in [Subs -> Methods \cup {"none"}]
  /\ got \in [Subs -> [Clients -> Nat]]
  /\ due \in [Subs -> SUBSET Clients]
  /\ joining \in [Guests -> {"on_the_way", "connected", "joined"}]
  /\ holds \in [Clients -> SUBSET Subs]
  /\ sending \in [Clients -> Subs \cup {NoSub}]
  /\ sent \in [Clients -> [Subs -> Nat]]
  /\ responses \in [Clients -> SUBSET Subs]
  /\ known \in [Clients -> SUBSET Subs]

Init ==
  /\ ipc = <<>> /\ demuxer = NoSub /\ hand = [s \in Subs |-> NoMessage]
  /\ ipcSenders = {Home}
  /\ sm = [s \in Subs |->
       LET coming == {g \in Guests : On[g] = s}
       IN  [SM!New(Home) EXCEPT !.inFlight[Transit] = Cardinality(coming)]]
  /\ local = [s \in Subs |-> <<>>]
  /\ at = [s \in Subs |-> "idle"]
  /\ call = [s \in Subs |-> "none"]
  /\ got = [s \in Subs |-> [c \in Clients |-> 0]]
  /\ due = [s \in Subs |-> {}]
  /\ joining = [g \in Guests |-> "on_the_way"]
  /\ holds = [c \in Clients |-> IF c = Home THEN Subs ELSE {}]
  /\ sending = [c \in Clients |-> NoSub]
  /\ sent = [c \in Clients |-> [s \in Subs |-> 0]]
  /\ responses = [c \in Clients |-> {}]
  /\ known = [c \in Clients |-> {}]

-----------------------------------------------------------------------------
(* Clients.                                                                *)

Put(m) == ipc' = Append(ipc, m)

Proxies(c) == IF c = Home THEN Subs ELSE IF c \in Proxied THEN {On[c]} ELSE {}

\* is_receiver_connected begins by reading the responses.
DrainResponses(c) ==
  /\ responses' = [responses EXCEPT ![c] = {}]
  /\ known' = [known EXCEPT ![c] = @ \cup (responses[c] \cap Proxies(c))]

\* The guest's MultiSender connects ...
BeginJoin(g) ==
  /\ joining[g] = "on_the_way"
  /\ joining' = [joining EXCEPT ![g] = "connected"]
  /\ Put(Connect(g))
  /\ UNCHANGED <<demuxerVars, receiverVars, holds, sending, sent, known, responses>>

\* ... and it has its subsender once it has confirmed receipt.
EndJoin(g) ==
  /\ joining[g] = "connected"
  /\ joining' = [joining EXCEPT ![g] = "joined"]
  /\ holds' = [holds EXCEPT ![g] = {On[g]}]
  /\ Put(Received(On[g], g))
  /\ UNCHANGED <<demuxerVars, receiverVars, sending, sent, known, responses>>

TotalSent ==
  FoldFunction(LAMBDA bySub, total : FoldFunction(+, total, bySub), 0, sent)

\* A send goes on, or returns an error, as is known of the subreceiver.
BeginSend(c, s) ==
  /\ s \in holds[c] /\ sending[c] = NoSub /\ TotalSent < MaxSends
  /\ DrainResponses(c)
  /\ sending' = [sending EXCEPT ![c] = IF s \in known'[c] THEN NoSub ELSE s]
  /\ UNCHANGED <<ipc, demuxerVars, receiverVars, joining, holds, sent>>

EndSend(c) ==
  LET s == sending[c] IN
  /\ s # NoSub
  /\ sending' = [sending EXCEPT ![c] = NoSub]
  /\ sent' = [sent EXCEPT ![c][s] = @ + 1]
  /\ Put(Data(s, c, sent'[c][s]))
  /\ UNCHANGED <<demuxerVars, receiverVars, joining, holds, known, responses>>

\* The client's last copy goes; a subreceiver known to be gone is not told.
DropSender(c, s) ==
  /\ s \in holds[c] /\ sending[c] = NoSub
  /\ holds' = [holds EXCEPT ![c] = @ \ {s}]
  /\ DrainResponses(c)
  /\ IF s \in known'[c] THEN UNCHANGED ipc ELSE Put(Disconnect(s, c))
  /\ UNCHANGED <<demuxerVars, receiverVars, joining, sending, sent>>

-----------------------------------------------------------------------------
(* Demuxer::handle                                                         *)

RxGone(s) == at[s] = "dropped"

HandleConnect(m) ==
  /\ ipcSenders' = ipcSenders \cup {m.client}
  /\ UNCHANGED <<sm, local>>

HandleData(m) ==
  /\ local' = IF sm[m.sub].maybe /\ ~RxGone(m.sub)
              THEN [local EXCEPT ![m.sub] = Append(@, m)] ELSE local
  /\ UNCHANGED <<sm, ipcSenders>>

HandleReceived(m) ==
  /\ sm' = [sm EXCEPT ![m.sub] = SM!Received(@, Transit, m.client)]
  /\ UNCHANGED <<local, ipcSenders>>

HandleDisconnect(m) ==
  LET s == m.sub
      next == SM!Disconnect(sm[s], m.client)
      taken == sm[s].maybe /\ ~next.maybe
  IN
  /\ sm' = [sm EXCEPT ![s] = next]
  /\ local' = IF taken /\ ~RxGone(s)
              THEN [local EXCEPT ![s] = Append(@, LocalDisconnect)] ELSE local
  /\ UNCHANGED ipcSenders

Handle(m) ==
  CASE m.type = "Connect"    -> HandleConnect(m)
    [] m.type = "Data"       -> HandleData(m)
    [] m.type = "Received"   -> HandleReceived(m)
    [] m.type = "Disconnect" -> HandleDisconnect(m)

\* handle returns an error when it cannot put a message in its local queue.
HandleFails(m) ==
  \/ m.type = "Data" /\ (~sm[m.sub].maybe \/ RxGone(m.sub))
  \/ /\ m.type = "Disconnect" /\ RxGone(m.sub)
     /\ sm[m.sub].maybe /\ ~SM!Disconnect(sm[m.sub], m.client).maybe

-----------------------------------------------------------------------------
(* The thread of subreceiver s: recv, try_recv and try_recv_timeout.       *)

GoTo(s, label) == at' = [at EXCEPT ![s] = label]

\* The call returns, and has told its caller of a disconnection or has not.
Return(s, label) ==
  /\ GoTo(s, label)
  /\ call' = [call EXCEPT ![s] = "none"]

GoOn(s, label) == GoTo(s, label) /\ UNCHANGED call

Between(s) == at[s] \in {"idle", "told"}

Threaded == UNCHANGED <<clientVars, responses, due>>

Call(s, method) ==
  /\ Between(s)
  /\ GoTo(s, "look")
  /\ call' = [call EXCEPT ![s] = method]
  /\ UNCHANGED <<ipc, demuxerVars, clientVars, responses, got, due>>

\* The local queue has something, or never will have.
Ready(s) == local[s] # <<>> \/ ~sm[s].maybe

TakeLocal(s) ==
  /\ at[s] \in {"look", "wait", "look_again"} /\ Ready(s)
  /\ IF local[s] # <<>> /\ Head(local[s]).type = "Data"
     THEN /\ got' = [got EXCEPT ![s][Head(local[s]).client] = Head(local[s]).number]
          /\ Return(s, "idle")
     ELSE Return(s, "told") /\ UNCHANGED got
  /\ local' = [local EXCEPT ![s] = IF @ = <<>> THEN @ ELSE Tail(@)]
  /\ UNCHANGED <<ipc, demuxer, hand, ipcSenders, sm>> /\ Threaded

FindNothing(s) ==
  /\ at[s] = "look" /\ ~Ready(s)
  /\ GoOn(s, IF call[s] = "try_recv" THEN "try" ELSE "lock")
  /\ UNCHANGED <<ipc, demuxerVars, got>> /\ Threaded

\* Faulty variant (README, Mutants): the lock is taken for granted.
LockDemuxerAnyway(s) ==
  /\ at[s] = "lock"
  /\ demuxer' = s /\ GoOn(s, "receive")
  /\ UNCHANGED <<ipc, hand, ipcSenders, sm, local, got>> /\ Threaded

LockDemuxer(s) ==
  /\ at[s] = "lock" /\ demuxer = NoSub
  /\ demuxer' = s /\ GoOn(s, "receive")
  /\ UNCHANGED <<ipc, hand, ipcSenders, sm, local, got>> /\ Threaded

LockFails(s) ==
  /\ at[s] = "lock" /\ demuxer # NoSub
  /\ GoOn(s, "wait")
  /\ UNCHANGED <<ipc, demuxerVars, got>> /\ Threaded

\* Faulty variant (README, Mutants): waits for others to do the receiving.
WaitEndsOnlyLocally(s) == FALSE

\* Nothing came into the local queue while another thread had the Demuxer.
WaitEnds(s) ==
  /\ at[s] = "wait" /\ ~Ready(s)
  /\ GoOn(s, IF call[s] = "recv" THEN "lock" ELSE "look")
  /\ UNCHANGED <<ipc, demuxerVars, got>> /\ Threaded

ReceiveFromIpc(s) ==
  /\ at[s] = "receive" /\ ipc # <<>>
  /\ hand' = [hand EXCEPT ![s] = Head(ipc)] /\ ipc' = Tail(ipc)
  /\ GoOn(s, "handle")
  /\ UNCHANGED <<demuxer, ipcSenders, sm, local, got>> /\ Threaded

ReceiveTimesOut(s) ==
  /\ at[s] = "receive" /\ ipc = <<>>
  /\ demuxer' = NoSub
  /\ GoOn(s, "look")
  /\ UNCHANGED <<ipc, hand, ipcSenders, sm, local, got>> /\ Threaded

\* An error in handling any message is this call's error.
HandleInHand(s) ==
  /\ at[s] = "handle"
  /\ Handle(hand[s])
  /\ hand' = [hand EXCEPT ![s] = NoMessage] /\ demuxer' = NoSub
  /\ IF HandleFails(hand[s]) THEN Return(s, "told")
     ELSE GoOn(s, "look")
  /\ UNCHANGED <<ipc, got>> /\ Threaded

DeadlinePasses(s) ==
  /\ at[s] = "lock" /\ call[s] = "try_recv_timeout"
  /\ Return(s, "idle")
  /\ UNCHANGED <<ipc, demuxerVars, got>> /\ Threaded

\* A look into the IPC channel, under the lock of the Demuxer.
TryReceive(s) ==
  /\ at[s] = "try" /\ demuxer = NoSub
  /\ IF ipc = <<>>
     THEN GoOn(s, "look_again") /\ UNCHANGED <<ipc, ipcSenders, sm, local>>
     ELSE /\ Handle(Head(ipc)) /\ ipc' = Tail(ipc)
          /\ IF HandleFails(Head(ipc)) THEN Return(s, "told")
             ELSE GoOn(s, "look_again")
  /\ UNCHANGED <<demuxer, hand, got>> /\ Threaded

StillEmpty(s) ==
  /\ at[s] = "look_again" /\ ~Ready(s)
  /\ Return(s, "idle")
  /\ UNCHANGED <<ipc, demuxerVars, got>> /\ Threaded

-----------------------------------------------------------------------------
(* Dropping the subreceiver of s: drain the IPC channel, tell the clients, *)
(* drain it again, and close the local queue.                              *)

ConnectSent(c) ==
  \/ c \in ipcSenders
  \/ \E s \in Subs : hand[s] = Connect(c)
  \/ \E i \in DOMAIN ipc : ipc[i] = Connect(c)

Drop(s) ==
  /\ s \in Dropping /\ Between(s)
  /\ GoOn(s, "drain")
  /\ due' = [due EXCEPT ![s] = {c \in Clients : ConnectSent(c)}]
  /\ UNCHANGED <<ipc, demuxerVars, clientVars, responses, got>>

AfterDrain == [x \in {"drain", "drain_again"} |->
                 IF x = "drain" THEN "broadcast" ELSE "close"]

\* Faulty variant (README, Mutants): at most one message is drained.
DrainOnce(s) ==
  /\ at[s] \in DOMAIN AfterDrain /\ demuxer = NoSub
  /\ IF ipc = <<>> THEN UNCHANGED <<ipc, ipcSenders, sm, local>>
     ELSE Handle(Head(ipc)) /\ ipc' = Tail(ipc)
  /\ GoOn(s, AfterDrain[at[s]])
  /\ UNCHANGED <<demuxer, hand, got>> /\ Threaded

\* Draining ends when the IPC channel is empty, or at the first error.
Drain(s) ==
  /\ at[s] \in DOMAIN AfterDrain /\ demuxer = NoSub
  /\ IF ipc = <<>>
     THEN GoOn(s, AfterDrain[at[s]]) /\ UNCHANGED <<ipc, ipcSenders, sm, local>>
     ELSE /\ Handle(Head(ipc)) /\ ipc' = Tail(ipc)
          /\ GoOn(s, IF HandleFails(Head(ipc)) THEN AfterDrain[at[s]] ELSE at[s])
  /\ UNCHANGED <<demuxer, hand, got>> /\ Threaded

Broadcast(s) ==
  /\ at[s] = "broadcast" /\ demuxer = NoSub
  /\ responses' = [c \in Clients |->
       IF c \in ipcSenders THEN responses[c] \cup {s} ELSE responses[c]]
  /\ GoOn(s, "drain_again")
  /\ UNCHANGED <<ipc, demuxerVars, clientVars, got, due>>

Close(s) ==
  /\ at[s] = "close"
  /\ local' = [local EXCEPT ![s] = <<>>]
  /\ GoOn(s, "dropped")
  /\ UNCHANGED <<ipc, demuxer, hand, ipcSenders, sm, got>> /\ Threaded

-----------------------------------------------------------------------------
ClientStep(c) ==
  \/ \E s \in Subs : BeginSend(c, s) \/ DropSender(c, s)
  \/ EndSend(c)

ThreadStep(s) ==
  \/ TakeLocal(s) \/ FindNothing(s)
  \/ LockDemuxer(s) \/ LockFails(s) \/ WaitEnds(s)
  \/ ReceiveFromIpc(s) \/ ReceiveTimesOut(s) \/ HandleInHand(s)
  \/ DeadlinePasses(s)
  \/ TryReceive(s) \/ StillEmpty(s)
  \/ Drain(s) \/ Broadcast(s) \/ Close(s)

Next ==
  \/ \E c \in Clients : ClientStep(c)
  \/ \E g \in Guests : BeginJoin(g) \/ EndJoin(g)
  \/ \E s \in Subs :
       \/ \E method \in Methods : Call(s, method)
       \/ ThreadStep(s)
       \/ Drop(s)

Spec == Init /\ [][Next]_vars

\* Threads inside a call run; whether they call again is up to the program.
FairSpec == Spec /\ \A s \in Subs : WF_vars(ThreadStep(s))
-----------------------------------------------------------------------------
(* Properties.                                                             *)

\* What the thread that has locked the Demuxer has taken off the IPC channel.
InHand == IF demuxer = NoSub \/ hand[demuxer] = NoMessage THEN <<>> ELSE <<hand[demuxer]>>

\* What is on its way to the thread of s, first to arrive first.
OnTheWay(s) == local[s] \o InHand \o ipc

\* Where the payloads from c to s are in q.
DataOf(s, c, q) == {i \in DOMAIN q : q[i].type = "Data" /\ q[i].sub = s /\ q[i].client = c}

\* Nothing gets lost, doubled or out of order between a client and the
\* subreceiver, whichever threads take it out of the IPC channel (demux.rs,
\* ReceiverDemuxer: "the Demuxer must be locked to ensure messages are received
\* in order").
InOrder ==
  \A s \in Subs : ~RxGone(s) => \A c \in Clients :
    LET q        == OnTheWay(s)
        payloads == DataOf(s, c, q)
    IN  /\ got[s][c] <= sent[c][s]
        /\ {q[i].number : i \in payloads} = got[s][c] + 1 .. sent[c][s]
        /\ \A i, j \in payloads : i < j => q[i].number < q[j].number

SenderLeft(s) ==
  \/ \E c \in Clients : s \in holds[c]
  \/ \E g \in Guests : On[g] = s /\ joining[g] # "joined"

\* A receive returns Disconnected when there is no subsender left and nothing
\* to receive, and only then (SubReceiver::recv and try_recv).
DisconnectedIsTrue ==
  \A s \in Subs : at[s] = "told" =>
    ~SenderLeft(s) /\ \A c \in Clients : got[s][c] = sent[c][s]

\* A recv returns when there is a message for it in the IPC channel or in the
\* local queue, or no subsender is left, though another thread may be the one
\* that receives.
RecvReturns ==
  \A s \in Subs :
    (/\ call[s] = "recv" /\ at[s] \in {"look", "lock", "wait", "receive", "handle"}
     /\ ~SenderLeft(s) \/ \E c \in Clients : DataOf(s, c, OnTheWay(s)) # {})
      ~> Between(s)

\* A client that sent Connect before a subreceiver began to be dropped is told
\* (SubChannelReceiver::drop drains the IPC channel first for its sake).
DropAnnounced ==
  \A s \in Subs : at[s] \in {"drain_again", "close", "dropped"} =>
    \A c \in due[s] : s \in Proxies(c) => s \in responses[c] \cup known[c]

\* SubSender::send: "An unsuccessful send occurs when the corresponding
\* SubReceiver has already been deallocated".
DroppedRefusesSends ==
  [][\A c \in Clients, s \in Subs :
       RxGone(s) => ~(sending[c] = NoSub /\ sending'[c] = s)]_vars
=============================================================================
