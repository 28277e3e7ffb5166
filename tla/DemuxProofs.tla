------------------------------ MODULE DemuxProofs ------------------------------
(***************************************************************************)
(* Proofs about Demux, for any subchannels, clients and bounds.            *)
(*                                                                         *)
(* They look at the message in a thread's hand and those in the IPC        *)
(* channel as one queue, Pipe: since that thread has the Demuxer locked, a *)
(* step puts a message at its end, handles the one at its front, or leaves *)
(* it alone.  Tracked says what each state machine knows of the clients    *)
(* that have a subsender or have something in that queue, Numbered which   *)
(* payloads are in it and in the local queues.                             *)
(***************************************************************************)
EXTENDS Demux, FiniteSetTheorems, SequenceTheorems, TLAPS

-----------------------------------------------------------------------------
(* Queues, position by position.                                           *)

LEMMA AppendIndexed ==
  ASSUME NEW S, NEW q \in Seq(S), NEW m
  PROVE  /\ Len(q) \in Nat
         /\ DOMAIN q = 1 .. Len(q) /\ DOMAIN Append(q, m) = 1 .. Len(q) + 1
         /\ \A i \in DOMAIN q : Append(q, m)[i] = q[i]
         /\ Append(q, m)[Len(q) + 1] = m
OBVIOUS

LEMMA TailIndexed ==
  ASSUME NEW S, NEW q \in Seq(S), q # <<>>
  PROVE  /\ Tail(q) \in Seq(S) /\ Len(q) \in Nat /\ Len(q) > 0
         /\ DOMAIN q = 1 .. Len(q) /\ DOMAIN Tail(q) = 1 .. Len(q) - 1
         /\ \A i \in DOMAIN Tail(q) : Tail(q)[i] = q[i + 1]
         /\ Head(q) = q[1] /\ Head(q) \in S
OBVIOUS

LEMMA ConcatIndexed ==
  ASSUME NEW S, NEW q \in Seq(S), NEW p \in Seq(S)
  PROVE  /\ q \o p \in Seq(S) /\ Len(q) \in Nat /\ Len(p) \in Nat
         /\ DOMAIN q = 1 .. Len(q) /\ DOMAIN p = 1 .. Len(p)
         /\ DOMAIN (q \o p) = 1 .. Len(q) + Len(p)
         /\ \A i \in DOMAIN q : (q \o p)[i] = q[i]
         /\ \A i \in DOMAIN p : (q \o p)[Len(q) + i] = p[i]
OBVIOUS

LEMMA AppendTyped ==
  ASSUME NEW S, NEW q \in Seq(S), NEW m \in S
  PROVE  Append(q, m) \in Seq(S)
OBVIOUS

\* A queue in front of which there is at most one message.
LEMMA OneInFront ==
  ASSUME NEW S, NEW q \in Seq(S), NEW m \in S
  PROVE  /\ <<>> \o q = q
         /\ <<m>> \o q \in Seq(S) /\ <<m>> \o q # <<>>
         /\ Head(<<m>> \o q) = m /\ Tail(<<m>> \o q) = q
         /\ q # <<>> => <<Head(q)>> \o Tail(q) = q
         /\ Append(q, m) \in Seq(S)
         /\ \A x \in S : Append(<<x>> \o q, m) = <<x>> \o Append(q, m)
OBVIOUS

-----------------------------------------------------------------------------
(* The state machines keep their type.                                     *)

Machines == SM!StateMachines({})

LEMMA ReceivedTyped ==
  ASSUME NEW x \in Machines, NEW c \in Clients
  PROVE  SM!Received(x, Transit, c) \in Machines
<1>1. SM!WithoutOne(x.inFlight, Transit) \in [{Transit} -> Nat]
  BY DEF Machines, SM!StateMachines, SM!WithoutOne
<1>2. [x.probes EXCEPT ![Transit] = NoProbe] \in [{Transit} -> {} \cup {NoProbe}]
  BY DEF Machines, SM!StateMachines
<1>3. QED
  BY <1>1, <1>2 DEF SM!Received, Machines, SM!StateMachines

LEMMA DisconnectTyped ==
  ASSUME NEW x \in Machines, NEW c
  PROVE  SM!Disconnect(x, c) \in Machines
<1>1. [x EXCEPT !.sources = x.sources \ {c}] \in Machines
  BY DEF Machines, SM!StateMachines
<1>2. \A y \in Machines : SM!TakeIfVacant(y) \in Machines
  BY DEF Machines, SM!StateMachines, SM!TakeIfVacant
<1>3. QED
  BY <1>1, <1>2 DEF SM!Disconnect

\* What becomes of a state machine, field by field.
LEMMA MachineSteps ==
  ASSUME NEW x \in Machines, NEW c \in Clients
  PROVE  /\ x.inFlight[Transit] \in Nat /\ x.maybe \in BOOLEAN /\ x.sources \subseteq Clients
         /\ LET y == SM!Received(x, Transit, c)
            IN  /\ y.sources = x.sources \cup {c} /\ y.maybe = x.maybe
                /\ x.inFlight[Transit] > 0 => y.inFlight[Transit] = x.inFlight[Transit] - 1
         /\ LET y == SM!Disconnect(x, c)
            IN  /\ y.sources = x.sources \ {c} /\ y.inFlight[Transit] = x.inFlight[Transit]
                /\ y.maybe <=> x.maybe /\ ~(y.sources = {} /\ y.inFlight[Transit] = 0)
<1>1. x \in [maybe : BOOLEAN, sources : SUBSET Clients, inFlight : [{Transit} -> Nat],
             probes : [{Transit} -> {NoProbe}]]
  BY DEF Machines, SM!StateMachines
<1>2. PICK y : y = SM!Received(x, Transit, c)
  OBVIOUS
<1>3. /\ y.sources = x.sources \cup {c} /\ y.maybe = x.maybe
      /\ x.inFlight[Transit] > 0 => y.inFlight[Transit] = x.inFlight[Transit] - 1
  BY <1>1, <1>2 DEF SM!Received, SM!WithoutOne
<1>4. PICK z : z = SM!Disconnect(x, c)
  OBVIOUS
<1>5. z.sources = x.sources \ {c} /\ z.inFlight[Transit] = x.inFlight[Transit]
  BY <1>1, <1>4 DEF SM!Disconnect, SM!TakeIfVacant
<1>6. z.maybe <=> x.maybe /\ ~(x.sources \ {c} = {} /\ x.inFlight[Transit] = 0)
  BY <1>1, <1>4 DEF SM!Disconnect, SM!TakeIfVacant, SM!Vacant, SM!NoneInFlight
<1>7. QED
  BY <1>1, <1>2, <1>3, <1>4, <1>5, <1>6

-----------------------------------------------------------------------------
(* Type correctness.                                                       *)

LEMMA MessagesTyped ==
  /\ \A g \in Guests : g \in Clients
  /\ \A c \in Clients : Connect(c) \in Messages
  /\ Home \in Clients
  /\ \A s \in Subs, c \in Clients : /\ Received(s, c) \in Messages /\ Disconnect(s, c) \in Messages
                                    /\ \A n \in Nat : Data(s, c, n) \in Messages
  /\ \A m \in Messages : \/ m.type = "Connect" /\ m.client \in Clients /\ m = Connect(m.client)
                         \/ /\ m.type \in {"Data", "Received", "Disconnect"}
                            /\ m.sub \in Subs /\ m.client \in Clients
                            /\ m.type = "Data" => m.number \in Nat /\ m = Data(m.sub, m.client, m.number)
                            /\ m.type = "Received" => m = Received(m.sub, m.client)
                            /\ m.type = "Disconnect" => m = Disconnect(m.sub, m.client)
BY DEF Messages, Clients, Connect, Data, Received, Disconnect

LEMMA InitTyped == Init => TypeOK
<1> SUFFICES ASSUME Init PROVE TypeOK
  OBVIOUS
<1>1. ASSUME NEW s \in Subs
      PROVE  sm[s] \in SM!StateMachines({})
  <2>1. PICK n : n = Cardinality({g \in Guests : On[g] = s})
    OBVIOUS
  <2>2. n \in Nat
    BY <2>1, DemuxAssumption, FS_Subset, FS_CardinalityType
  <2>3. sm[s] = [SM!New(Home) EXCEPT !.inFlight[Transit] = n]
    BY <2>1 DEF Init
  <2>4. SM!New(Home) \in SM!StateMachines({})
    BY DEF SM!New, SM!StateMachines, Clients
  <2>5. QED
    BY <2>2, <2>3, <2>4 DEF SM!StateMachines
<1>2. sm \in [Subs -> SM!StateMachines({})]
  <2>1. PICK F : F = SM!StateMachines({})
    OBVIOUS
  <2>2. \A s \in Subs : sm[s] \in F
    BY <1>1, <2>1
  <2>3. sm \in [Subs -> F]
    BY <2>2 DEF Init
  <2>4. QED
    BY <2>1, <2>3
<1>3. \A S : <<>> \in Seq(S)
  OBVIOUS
<1>4. QED
  BY <1>2, <1>3, MessagesTyped DEF Init, TypeOK

\* Handling a message keeps the types of what it changes.
LEMMA HandleTyped ==
  ASSUME TypeOK, NEW m \in Messages, Handle(m)
  PROVE  /\ sm' \in [Subs -> SM!StateMachines({})]
         /\ local' \in [Subs -> Seq(Messages \cup {LocalDisconnect})]
         /\ ipcSenders' \subseteq Clients
<1>0. /\ sm \in [Subs -> SM!StateMachines({})] /\ ipcSenders \subseteq Clients
      /\ local \in [Subs -> Seq(Messages \cup {LocalDisconnect})]
  BY DEF TypeOK
<1>1. CASE m.type = "Connect"
  BY <1>0, <1>1, MessagesTyped DEF Handle, HandleConnect
<1>2. CASE m.type = "Data"
  <2>1. m.sub \in Subs /\ local[m.sub] \in Seq(Messages \cup {LocalDisconnect})
    BY <1>0, <1>2, MessagesTyped
  <2>2. Append(local[m.sub], m) \in Seq(Messages \cup {LocalDisconnect})
    BY <2>1, AppendTyped
  <2>3. local' = local \/ local' = [local EXCEPT ![m.sub] = Append(local[m.sub], m)]
    BY <1>2 DEF Handle, HandleData
  <2>4. QED
    BY <1>0, <1>2, <2>1, <2>2, <2>3 DEF Handle, HandleData
<1>3. CASE m.type = "Received"
  <2>1. m.sub \in Subs /\ m.client \in Clients
    BY <1>3, MessagesTyped
  <2>2. SM!Received(sm[m.sub], Transit, m.client) \in SM!StateMachines({})
    BY <1>0, <2>1, ReceivedTyped DEF Machines
  <2>3. QED
    BY <1>0, <1>3, <2>1, <2>2 DEF Handle, HandleReceived
<1>4. CASE m.type = "Disconnect"
  <2>1. m.sub \in Subs /\ m.client \in Clients
    BY <1>4, MessagesTyped
  <2>2. SM!Disconnect(sm[m.sub], m.client) \in SM!StateMachines({})
    BY <1>0, <2>1, DisconnectTyped DEF Machines
  <2>3. Append(local[m.sub], LocalDisconnect) \in Seq(Messages \cup {LocalDisconnect})
    BY <1>0, <2>1, AppendTyped
  <2>4. /\ \/ local' = local
           \/ local' = [local EXCEPT ![m.sub] = Append(local[m.sub], LocalDisconnect)]
        /\ sm' = [sm EXCEPT ![m.sub] = SM!Disconnect(sm[m.sub], m.client)]
        /\ ipcSenders' = ipcSenders
    BY <1>4 DEF Handle, HandleDisconnect
  <2>5. QED
    BY <1>0, <2>1, <2>2, <2>3, <2>4
<1>5. QED
  BY <1>1, <1>2, <1>3, <1>4, MessagesTyped

LEMMA ClientTyped ==
  ASSUME TypeOK,
         \/ \E c \in Clients : ClientStep(c)
         \/ \E g \in Guests : BeginJoin(g) \/ EndJoin(g)
  PROVE  TypeOK'
<1> USE DEF demuxerVars, receiverVars, clientVars
<1>0. /\ ipc \in Seq(Messages)
      /\ joining \in [Guests -> {"on_the_way", "connected", "joined"}]
      /\ holds \in [Clients -> SUBSET Subs] /\ sending \in [Clients -> Subs \cup {NoSub}]
      /\ sent \in [Clients -> [Subs -> Nat]]
      /\ responses \in [Clients -> SUBSET Subs] /\ known \in [Clients -> SUBSET Subs]
  BY DEF TypeOK
<1>1. ASSUME NEW g \in Guests, BeginJoin(g)
      PROVE  TypeOK'
  <2>1. ipc' \in Seq(Messages)
    BY <1>0, <1>1, MessagesTyped, AppendTyped DEF BeginJoin, Put
  <2>2. joining' \in [Guests -> {"on_the_way", "connected", "joined"}]
    BY <1>0, <1>1 DEF BeginJoin
  <2>3. QED
    BY <1>1, <2>1, <2>2 DEF BeginJoin, TypeOK
<1>2. ASSUME NEW g \in Guests, EndJoin(g)
      PROVE  TypeOK'
  <2>1. On[g] \in Subs /\ g \in Clients
    BY DemuxAssumption, MessagesTyped
  <2>2. ipc' \in Seq(Messages)
    BY <1>0, <1>2, <2>1, MessagesTyped, AppendTyped DEF EndJoin, Put
  <2>3. joining' \in [Guests -> {"on_the_way", "connected", "joined"}]
        /\ holds' \in [Clients -> SUBSET Subs]
    BY <1>0, <1>2, <2>1 DEF EndJoin
  <2>4. QED
    BY <1>2, <2>2, <2>3 DEF EndJoin, TypeOK
<1>3. ASSUME NEW c \in Clients, DrainResponses(c)
      PROVE  responses' \in [Clients -> SUBSET Subs] /\ known' \in [Clients -> SUBSET Subs]
  BY <1>0, <1>3 DEF DrainResponses
<1>4. ASSUME NEW c \in Clients, NEW s \in Subs, BeginSend(c, s)
      PROVE  TypeOK'
  <2>1. sending' \in [Clients -> Subs \cup {NoSub}]
    BY <1>0, <1>4 DEF BeginSend
  <2>2. QED
    BY <1>3, <1>4, <2>1 DEF BeginSend, TypeOK
<1>5. ASSUME NEW c \in Clients, NEW s \in Subs, DropSender(c, s)
      PROVE  TypeOK'
  <2>1. ipc' \in Seq(Messages)
    <3>1. PICK m \in Messages : m = Disconnect(s, c)
      BY MessagesTyped
    <3>2. ipc' = ipc \/ Put(m)
      BY <1>5, <3>1 DEF DropSender
    <3>3. QED
      BY <1>0, <3>2, AppendTyped DEF Put
  <2>2. holds' \in [Clients -> SUBSET Subs]
    BY <1>0, <1>5 DEF DropSender
  <2>3. QED
    BY <1>3, <1>5, <2>1, <2>2 DEF DropSender, TypeOK
<1>6. ASSUME NEW c \in Clients, EndSend(c)
      PROVE  TypeOK'
  <2>1. PICK s \in Subs : s = sending[c]
    BY <1>0, <1>6 DEF EndSend
  <2>2. /\ sent' = [sent EXCEPT ![c][s] = sent[c][s] + 1] /\ Put(Data(s, c, sent'[c][s]))
        /\ sending' = [sending EXCEPT ![c] = NoSub]
    BY <1>6, <2>1 DEF EndSend
  <2>3. sent' \in [Clients -> [Subs -> Nat]] /\ sending' \in [Clients -> Subs \cup {NoSub}]
    <3>1. sent[c] \in [Subs -> Nat] /\ sent[c][s] + 1 \in Nat
      <4>1. sent[c] \in [Subs -> Nat]
        BY <1>0
      <4>2. sent[c][s] \in Nat
        BY <2>1, <4>1
      <4>3. QED
        BY <4>1, <4>2
    <3>2. [sent[c] EXCEPT ![s] = sent[c][s] + 1] \in [Subs -> Nat]
      BY <3>1
    <3>3. QED
      BY <1>0, <2>2, <3>2
  <2>4. ipc' \in Seq(Messages)
    <3>1. Data(s, c, sent'[c][s]) \in Messages
      BY <2>1, <2>3, MessagesTyped
    <3>2. QED
      BY <1>0, <2>2, <3>1, AppendTyped DEF Put
  <2>5. QED
    BY <1>6, <2>3, <2>4 DEF EndSend, TypeOK
<1>7. QED
  BY <1>1, <1>2, <1>4, <1>5, <1>6 DEF ClientStep

\* A message is in the hand of the thread that has locked the Demuxer, and only there.
Locked ==
  \A s \in Subs : /\ demuxer = s <=> at[s] \in {"receive", "handle"}
                  /\ hand[s] # NoMessage <=> at[s] = "handle"

Labels == {"idle", "told", "look", "lock", "wait", "receive", "handle", "try",
           "look_again", "drain", "broadcast", "drain_again", "close", "dropped"}

LEMMA ReceiverTyped ==
  ASSUME TypeOK, Locked, NEW s \in Subs,
         (\E method \in Methods : Call(s, method)) \/ ThreadStep(s) \/ Drop(s)
  PROVE  TypeOK'
<1> USE DEF demuxerVars, receiverVars, clientVars, Threaded
<1>0. /\ ipc \in Seq(Messages) /\ demuxer \in Subs \cup {NoSub}
      /\ hand \in [Subs -> Messages \cup {NoMessage}]
      /\ local \in [Subs -> Seq(Messages \cup {LocalDisconnect})]
      /\ at \in [Subs -> Labels] /\ call \in [Subs -> Methods \cup {"none"}]
      /\ got \in [Subs -> [Clients -> Nat]] /\ due \in [Subs -> SUBSET Clients]
  BY DEF TypeOK, Labels
<1>1. ASSUME NEW label \in Labels, GoOn(s, label) \/ Return(s, label)
      PROVE  at' \in [Subs -> Labels] /\ call' \in [Subs -> Methods \cup {"none"}]
  BY <1>0, <1>1 DEF GoOn, Return, GoTo
<1>2. CASE \E method \in Methods : Call(s, method)
  <2>1. at' \in [Subs -> Labels] /\ call' \in [Subs -> Methods \cup {"none"}]
    BY <1>0, <1>2 DEF Call, GoTo, Labels
  <2>2. QED
    BY <1>2, <2>1 DEF Call, TypeOK, Labels
<1>3. CASE Drop(s)
  <2>1. at' \in [Subs -> Labels] /\ call' \in [Subs -> Methods \cup {"none"}]
    BY <1>1, <1>3 DEF Drop, Labels
  <2>2. due' \in [Subs -> SUBSET Clients]
    BY <1>0, <1>3 DEF Drop
  <2>3. QED
    BY <1>3, <2>1, <2>2 DEF Drop, TypeOK, Labels
<1>4. CASE TakeLocal(s)
  <2>1. at' \in [Subs -> Labels] /\ call' \in [Subs -> Methods \cup {"none"}]
    BY <1>1, <1>4 DEF TakeLocal, Labels
  <2>2. local' \in [Subs -> Seq(Messages \cup {LocalDisconnect})]
    BY <1>0, <1>4, TailIndexed DEF TakeLocal
  <2>3. got' \in [Subs -> [Clients -> Nat]]
    <3>1. CASE got' = got
      BY <1>0, <3>1
    <3>2. CASE got' # got
      <4>1. /\ local[s] # <<>> /\ Head(local[s]).type = "Data"
            /\ got' = [got EXCEPT ![s][Head(local[s]).client] = Head(local[s]).number]
        BY <1>4, <3>2 DEF TakeLocal
      <4>2. Head(local[s]) \in Messages
        BY <1>0, <4>1, TailIndexed DEF LocalDisconnect
      <4>3. Head(local[s]).number \in Nat
        BY <4>1, <4>2, MessagesTyped
      <4>4. QED
        BY <1>0, <4>1, <4>3
    <3>3. QED
      BY <3>1, <3>2
  <2>4. QED
    BY <1>4, <2>1, <2>2, <2>3 DEF TakeLocal, TypeOK, Labels
<1>5. CASE FindNothing(s) \/ LockFails(s) \/ WaitEnds(s) \/ DeadlinePasses(s) \/ StillEmpty(s)
  <2>1. at' \in [Subs -> Labels] /\ call' \in [Subs -> Methods \cup {"none"}]
    BY <1>1, <1>5 DEF FindNothing, LockFails, WaitEnds, DeadlinePasses, StillEmpty, Labels
  <2>2. QED
    BY <1>5, <2>1 DEF FindNothing, LockFails, WaitEnds, DeadlinePasses, StillEmpty, TypeOK, Labels
<1>6. CASE LockDemuxer(s) \/ ReceiveTimesOut(s)
  <2>1. at' \in [Subs -> Labels] /\ call' \in [Subs -> Methods \cup {"none"}]
    BY <1>1, <1>6 DEF LockDemuxer, ReceiveTimesOut, Labels
  <2>2. QED
    BY <1>6, <2>1 DEF LockDemuxer, ReceiveTimesOut, TypeOK, Labels
<1>7. CASE ReceiveFromIpc(s)
  <2>1. at' \in [Subs -> Labels] /\ call' \in [Subs -> Methods \cup {"none"}]
    BY <1>1, <1>7 DEF ReceiveFromIpc, Labels
  <2>2. Head(ipc) \in Messages /\ Tail(ipc) \in Seq(Messages)
    BY <1>0, <1>7, TailIndexed DEF ReceiveFromIpc
  <2>3. hand' \in [Subs -> Messages \cup {NoMessage}]
    BY <1>0, <1>7, <2>2 DEF ReceiveFromIpc
  <2>4. QED
    BY <1>7, <2>1, <2>2, <2>3 DEF ReceiveFromIpc, TypeOK, Labels
<1>8. CASE HandleInHand(s)
  <2>1. at' \in [Subs -> Labels] /\ call' \in [Subs -> Methods \cup {"none"}]
    BY <1>1, <1>8 DEF HandleInHand, Labels
  <2>2. hand[s] \in Messages
    BY <1>0, <1>8 DEF HandleInHand, Locked
  <2>3. hand' \in [Subs -> Messages \cup {NoMessage}]
    BY <1>0, <1>8 DEF HandleInHand
  <2>4. QED
    BY <1>8, <2>1, <2>2, <2>3, HandleTyped DEF HandleInHand, TypeOK, Labels
<1>9. CASE TryReceive(s) \/ Drain(s)
  <2>1. at' \in [Subs -> Labels] /\ call' \in [Subs -> Methods \cup {"none"}]
    <3>1. CASE TryReceive(s)
      BY <1>1, <3>1 DEF TryReceive, Labels
    <3>2. CASE Drain(s)
      BY <1>1, <3>2 DEF Drain, AfterDrain, Labels
    <3>3. QED
      BY <1>9, <3>1, <3>2
  <2>2. CASE ipc = <<>>
    BY <1>9, <2>1, <2>2 DEF TryReceive, Drain, TypeOK, Labels
  <2>3. CASE ipc # <<>>
    <3>1. Head(ipc) \in Messages /\ Tail(ipc) \in Seq(Messages)
      BY <1>0, <2>3, TailIndexed
    <3>2. Handle(Head(ipc)) /\ ipc' = Tail(ipc)
      BY <1>9, <2>3 DEF TryReceive, Drain
    <3>3. QED
      BY <1>9, <2>1, <3>1, <3>2, HandleTyped DEF TryReceive, Drain, TypeOK, Labels
  <2>4. QED
    BY <2>2, <2>3
<1>10. CASE Broadcast(s)
  <2>1. at' \in [Subs -> Labels] /\ call' \in [Subs -> Methods \cup {"none"}]
    BY <1>1, <1>10 DEF Broadcast, Labels
  <2>2. responses' \in [Clients -> SUBSET Subs]
    BY <1>10 DEF Broadcast, TypeOK
  <2>3. QED
    BY <1>10, <2>1, <2>2 DEF Broadcast, TypeOK, Labels
<1>11. CASE Close(s)
  <2>1. at' \in [Subs -> Labels] /\ call' \in [Subs -> Methods \cup {"none"}]
    BY <1>1, <1>11 DEF Close, Labels
  <2>2. <<>> \in Seq(Messages \cup {LocalDisconnect})
    OBVIOUS
  <2>3. QED
    BY <1>0, <1>11, <2>1, <2>2 DEF Close, TypeOK, Labels
<1>12. QED
  BY <1>2, <1>3, <1>4, <1>5, <1>6, <1>7, <1>8, <1>9, <1>10, <1>11 DEF ThreadStep

LEMMA LockedKept ==
  ASSUME TypeOK, Locked, [Next]_vars
  PROVE  Locked'
<1> USE DEF demuxerVars, receiverVars, clientVars
<1>0. /\ at \in [Subs -> Labels] /\ demuxer \in Subs \cup {NoSub} /\ NoSub \notin Subs
      /\ hand \in [Subs -> Messages \cup {NoMessage}]
  BY DemuxAssumption DEF TypeOK, Labels
<1>1. \A s \in Subs : /\ demuxer = s <=> at[s] \in {"receive", "handle"}
                      /\ hand[s] # NoMessage <=> at[s] = "handle"
  BY DEF Locked
<1>2. ASSUME NEW s \in Subs, NEW label \in Labels, GoTo(s, label), UNCHANGED <<demuxer, hand>>,
             at[s] \notin {"receive", "handle"}, label \notin {"receive", "handle"}
      PROVE  Locked'
  BY <1>0, <1>1, <1>2 DEF GoTo, Locked
<1>3. CASE UNCHANGED <<at, demuxer, hand>>
  BY <1>3 DEF Locked
<1>4. ASSUME NEW s \in Subs,
             \/ \E method \in Methods : Call(s, method)
             \/ Drop(s) \/ TakeLocal(s) \/ FindNothing(s) \/ LockFails(s) \/ WaitEnds(s)
             \/ DeadlinePasses(s) \/ StillEmpty(s) \/ Broadcast(s) \/ Close(s)
      PROVE  Locked'
  <2>1. at[s] \notin {"receive", "handle"} /\ UNCHANGED <<demuxer, hand>>
    BY <1>4 DEF Call, Drop, Between, TakeLocal, FindNothing, LockFails, WaitEnds, DeadlinePasses,
                StillEmpty, Broadcast, Close
  <2>2. PICK label \in Labels : GoTo(s, label) /\ label \notin {"receive", "handle"}
    BY <1>4 DEF Call, Drop, TakeLocal, FindNothing, LockFails, WaitEnds, DeadlinePasses,
                StillEmpty, Broadcast, Close, GoOn, Return, Labels
  <2>3. QED
    BY <1>2, <2>1, <2>2
<1>5. ASSUME NEW s \in Subs, TryReceive(s) \/ Drain(s)
      PROVE  Locked'
  <2>1. at[s] \notin {"receive", "handle"} /\ UNCHANGED <<demuxer, hand>>
    BY <1>5 DEF TryReceive, Drain, AfterDrain
  <2>2. PICK label \in Labels : GoTo(s, label) /\ label \notin {"receive", "handle"}
    <3>1. CASE TryReceive(s)
      BY <3>1 DEF TryReceive, GoOn, Return, Labels
    <3>2. CASE Drain(s)
      BY <3>2 DEF Drain, AfterDrain, GoOn, Labels
    <3>3. QED
      BY <1>5, <3>1, <3>2
  <2>3. QED
    BY <1>2, <2>1, <2>2
<1>6. ASSUME NEW s \in Subs, LockDemuxer(s)
      PROVE  Locked'
  BY <1>0, <1>1, <1>6 DEF LockDemuxer, GoOn, GoTo, Locked
<1>7. ASSUME NEW s \in Subs, ReceiveFromIpc(s)
      PROVE  Locked'
  <2>1. Head(ipc) # NoMessage
    <3>1. ipc \in Seq(Messages) /\ ipc # <<>>
      BY <1>7 DEF ReceiveFromIpc, TypeOK
    <3>2. Head(ipc) \in Messages
      BY <3>1, TailIndexed
    <3>3. QED
      BY <3>2, NoMessageAssumption
  <2>2. QED
    BY <1>0, <1>1, <1>7, <2>1 DEF ReceiveFromIpc, GoOn, GoTo, Locked
<1>8. ASSUME NEW s \in Subs, ReceiveTimesOut(s)
      PROVE  Locked'
  BY <1>0, <1>1, <1>8 DEF ReceiveTimesOut, GoOn, GoTo, Locked
<1>9. ASSUME NEW s \in Subs, HandleInHand(s)
      PROVE  Locked'
  BY <1>0, <1>1, <1>9 DEF HandleInHand, GoOn, Return, GoTo, Locked
<1>10. CASE \/ \E c \in Clients : ClientStep(c)
            \/ \E g \in Guests : BeginJoin(g) \/ EndJoin(g)
            \/ UNCHANGED vars
  BY <1>3, <1>10 DEF ClientStep, BeginSend, DropSender, EndSend, BeginJoin, EndJoin, vars
<1>11. ASSUME NEW s \in Subs, ThreadStep(s)
       PROVE  Locked'
  BY <1>4, <1>5, <1>6, <1>7, <1>8, <1>9, <1>11 DEF ThreadStep
<1>12. ASSUME NEW s \in Subs, Drop(s) \/ \E method \in Methods : Call(s, method)
       PROVE  Locked'
  BY <1>4, <1>12
<1>13. QED
  BY <1>10, <1>11, <1>12 DEF Next

LEMMA TypedAlways == Spec => [](TypeOK /\ Locked)
<1>1. ASSUME Init PROVE Locked
  <2>1. NoSub \notin Subs /\ demuxer = NoSub
    BY <1>1, DemuxAssumption DEF Init
  <2>2. \A s \in Subs : at[s] = "idle" /\ hand[s] = NoMessage
    BY <1>1 DEF Init
  <2>3. QED
    BY <2>1, <2>2 DEF Locked
<1>2. TypeOK /\ Locked /\ [Next]_vars => TypeOK'
  <2>1. CASE UNCHANGED vars
    BY <2>1 DEF vars, demuxerVars, receiverVars, clientVars, TypeOK
  <2>2. QED
    BY <2>1, ClientTyped, ReceiverTyped DEF Next
<1>3. QED
  BY <1>1, <1>2, InitTyped, LockedKept, PTL DEF Spec

\* The variables have the types that TypeOK gives them, for any subchannels and clients.
THEOREM TypeCorrect == Spec => []TypeOK
BY TypedAlways, PTL

-----------------------------------------------------------------------------
(* What is on its way, in the hand of a thread and in the IPC channel.     *)

Pipe == InHand \o ipc

LEMMA PipeTyped ==
  ASSUME TypeOK, Locked
  PROVE  /\ Pipe \in Seq(Messages)
         /\ demuxer = NoSub => Pipe = ipc
<1>1. ipc \in Seq(Messages) /\ hand \in [Subs -> Messages \cup {NoMessage}]
      /\ demuxer \in Subs \cup {NoSub}
  BY DEF TypeOK
<1>2. CASE demuxer = NoSub \/ hand[demuxer] = NoMessage
  BY <1>1, <1>2, ConcatIndexed DEF Pipe, InHand
<1>3. CASE ~(demuxer = NoSub \/ hand[demuxer] = NoMessage)
  <2>1. Pipe = <<hand[demuxer]>> \o ipc /\ hand[demuxer] \in Messages
    BY <1>1, <1>3 DEF Pipe, InHand
  <2>2. QED
    BY <1>1, <1>3, <2>1, OneInFront
<1>4. QED
  BY <1>2, <1>3

LEMMA PipePut ==
  ASSUME TypeOK, Locked, NEW m \in Messages, Put(m), UNCHANGED <<demuxer, hand>>
  PROVE  Pipe' = Append(Pipe, m)
<1>1. /\ ipc \in Seq(Messages) /\ hand \in [Subs -> Messages \cup {NoMessage}]
      /\ demuxer \in Subs \cup {NoSub} /\ ipc' = Append(ipc, m)
  BY DEF TypeOK, Put
<1>2. PICK p : p = InHand
  OBVIOUS
<1>3. InHand' = p
  BY <1>2 DEF InHand
<1>4. Append(p \o ipc, m) = p \o Append(ipc, m)
  <2>1. CASE p = <<>>
    BY <1>1, <2>1, OneInFront
  <2>2. CASE p # <<>>
    <3>1. p = <<hand[demuxer]>> /\ hand[demuxer] \in Messages
      BY <1>1, <1>2, <2>2 DEF InHand
    <3>2. QED
      BY <1>1, <3>1, OneInFront
  <2>3. QED
    BY <2>1, <2>2
<1>5. QED
  BY <1>1, <1>2, <1>3, <1>4 DEF Pipe

\* The steps in which the thread of s handles a message.
Takes(s) == HandleInHand(s) \/ ((TryReceive(s) \/ Drain(s)) /\ ipc # <<>>)

LEMMA PipeTaken ==
  ASSUME TypeOK, Locked, NEW s \in Subs, Takes(s)
  PROVE  Pipe # <<>> /\ Handle(Head(Pipe)) /\ Pipe' = Tail(Pipe)
<1>1. /\ ipc \in Seq(Messages) /\ hand \in [Subs -> Messages \cup {NoMessage}]
      /\ demuxer \in Subs \cup {NoSub} /\ NoSub \notin Subs
  BY DemuxAssumption DEF TypeOK
<1>2. CASE HandleInHand(s)
  <2>1. /\ at[s] = "handle" /\ Handle(hand[s]) /\ demuxer' = NoSub /\ ipc' = ipc
    BY <1>2 DEF HandleInHand
  <2>2. demuxer = s /\ hand[s] # NoMessage /\ hand[s] \in Messages
    BY <1>1, <2>1 DEF Locked
  <2>3. Pipe = <<hand[s]>> \o ipc
    BY <1>1, <2>2 DEF Pipe, InHand
  <2>4. Pipe' = ipc
    <3>1. InHand' = <<>>
      BY <2>1 DEF InHand
    <3>2. QED
      BY <1>1, <2>1, <3>1, ConcatIndexed DEF Pipe
  <2>5. QED
    BY <1>1, <2>1, <2>2, <2>3, <2>4, OneInFront
<1>3. CASE (TryReceive(s) \/ Drain(s)) /\ ipc # <<>>
  <2>1. Handle(Head(ipc)) /\ ipc' = Tail(ipc) /\ demuxer = NoSub /\ demuxer' = NoSub
    BY <1>3 DEF TryReceive, Drain
  <2>2. Pipe = ipc /\ Tail(ipc) \in Seq(Messages)
    BY <1>1, <1>3, <2>1, PipeTyped, TailIndexed
  <2>3. Pipe' = Tail(ipc)
    <3>1. InHand' = <<>>
      BY <2>1 DEF InHand
    <3>2. QED
      BY <2>1, <2>2, <3>1, ConcatIndexed DEF Pipe
  <2>4. QED
    BY <1>3, <2>1, <2>2, <2>3
<1>4. QED
  BY <1>2, <1>3 DEF Takes

LEMMA PipeQuiet ==
  ASSUME TypeOK, Locked, NEW s \in Subs,
         (\E method \in Methods : Call(s, method)) \/ ThreadStep(s) \/ Drop(s), ~Takes(s)
  PROVE  Pipe' = Pipe /\ UNCHANGED <<sm, ipcSenders>>
<1> USE DEF demuxerVars, receiverVars, clientVars
<1>1. /\ ipc \in Seq(Messages) /\ hand \in [Subs -> Messages \cup {NoMessage}]
      /\ demuxer \in Subs \cup {NoSub} /\ NoSub \notin Subs
  BY DemuxAssumption DEF TypeOK
<1>2. CASE UNCHANGED <<ipc, demuxer, hand, sm, ipcSenders>>
  BY <1>2 DEF Pipe, InHand
<1>3. CASE LockDemuxer(s)
  <2>1. demuxer = NoSub /\ demuxer' = s /\ hand' = hand /\ hand[s] = NoMessage
    BY <1>1, <1>3 DEF LockDemuxer, Locked
  <2>2. InHand = <<>> /\ InHand' = <<>>
    BY <2>1 DEF InHand
  <2>3. QED
    BY <1>3, <2>2 DEF LockDemuxer, Pipe
<1>4. CASE ReceiveFromIpc(s)
  <2>1. /\ demuxer = s /\ demuxer' = s /\ hand[s] = NoMessage /\ ipc # <<>>
        /\ hand' = [hand EXCEPT ![s] = Head(ipc)] /\ ipc' = Tail(ipc)
    BY <1>4 DEF ReceiveFromIpc, Locked
  <2>2. Head(ipc) \in Messages
    BY <1>1, <2>1, TailIndexed
  <2>3. InHand = <<>> /\ InHand' = <<Head(ipc)>>
    BY <1>1, <2>1, <2>2, NoMessageAssumption DEF InHand
  <2>4. <<>> \o ipc = ipc /\ <<Head(ipc)>> \o Tail(ipc) = ipc
    BY <1>1, <2>1, <2>2, OneInFront
  <2>5. QED
    BY <1>4, <2>1, <2>3, <2>4 DEF Pipe, ReceiveFromIpc
<1>5. CASE ReceiveTimesOut(s)
  <2>1. demuxer = s /\ demuxer' = NoSub /\ hand[s] = NoMessage
    BY <1>5 DEF ReceiveTimesOut, Locked
  <2>2. InHand = <<>> /\ InHand' = <<>>
    BY <2>1 DEF InHand
  <2>3. QED
    BY <1>5, <2>2 DEF ReceiveTimesOut, Pipe
<1>6. CASE (TryReceive(s) \/ Drain(s)) /\ ipc = <<>>
  BY <1>2, <1>6 DEF TryReceive, Drain
<1>7. CASE \/ \E method \in Methods : Call(s, method)
           \/ Drop(s) \/ TakeLocal(s) \/ FindNothing(s) \/ LockFails(s) \/ WaitEnds(s)
           \/ DeadlinePasses(s) \/ StillEmpty(s) \/ Broadcast(s) \/ Close(s)
  BY <1>2, <1>7 DEF Call, Drop, TakeLocal, FindNothing, LockFails, WaitEnds, DeadlinePasses,
                    StillEmpty, Broadcast, Close
<1>8. QED
  BY <1>3, <1>4, <1>5, <1>6, <1>7 DEF ThreadStep, Takes

-----------------------------------------------------------------------------
(* What a state machine knows of the clients that have a subsender, or may *)
(* have sent something.                                                    *)

Has(q, m) == \E i \in DOMAIN q : q[i] = m

Once(q, m) == \A i, j \in DOMAIN q : q[i] = m /\ q[j] = m => i = j

\* m is a payload from c to s, or the news that c has no subsender any more.
Uses(m, s, c) == m.type \in {"Data", "Disconnect"} /\ m.sub = s /\ m.client = c

\* The guests whose subsender of s is in flight: J is how far the guests are in getting
\* theirs, and p what is on its way to the Demuxer.
Expected(s, p, J) ==
  {g \in Guests : On[g] = s /\ (J[g] # "joined" \/ Has(p, Received(s, g)))}

\* c is in order with the state machine x of s: no message behind that of its
\* disconnection, and x has it as a source, or will have, till that is handled.
\* H is what the clients have subsenders of.
InTouch(s, c, p, x, H, J) ==
  /\ s \in H[c] \/ (\E i \in DOMAIN p : Uses(p[i], s, c)) => c \in x.sources \cup Expected(s, p, J)
  /\ \A i, j \in DOMAIN p : p[i] = Disconnect(s, c) /\ i < j => ~Uses(p[j], s, c)
  /\ s \in H[c] => ~Has(p, Disconnect(s, c))
  /\ Once(p, Received(s, c))
  /\ Has(p, Received(s, c)) => c \in Guests /\ On[c] = s /\ J[c] = "joined"
  /\ c \in Guests /\ (s \in H[c] \/ Has(p, Disconnect(s, c))) => On[c] = s /\ J[c] = "joined"

TrackedIn(s, p, x, H, J) ==
  /\ x.inFlight[Transit] = Cardinality(Expected(s, p, J))
  /\ ~x.maybe => x.sources = {} /\ x.inFlight[Transit] = 0
  /\ \A c \in Clients : InTouch(s, c, p, x, H, J)

LEMMA ExpectedFinite ==
  ASSUME NEW s, NEW p, NEW J
  PROVE  /\ IsFiniteSet(Expected(s, p, J)) /\ Cardinality(Expected(s, p, J)) \in Nat
         /\ Cardinality(Expected(s, p, J)) = 0 <=> Expected(s, p, J) = {}
<1>1. Expected(s, p, J) \subseteq Guests
  BY DEF Expected
<1>2. QED
  BY <1>1, DemuxAssumption, FS_Subset, FS_CardinalityType, FS_EmptySet

LEMMA HasAppended ==
  ASSUME NEW S, NEW q \in Seq(S), NEW m, NEW n
  PROVE  Has(Append(q, m), n) <=> Has(q, n) \/ m = n
<1>1. /\ Len(q) \in Nat /\ DOMAIN q = 1 .. Len(q) /\ DOMAIN Append(q, m) = 1 .. Len(q) + 1
      /\ \A i \in DOMAIN q : Append(q, m)[i] = q[i]
      /\ Append(q, m)[Len(q) + 1] = m
  BY AppendIndexed
<1>2. DOMAIN Append(q, m) = DOMAIN q \cup {Len(q) + 1}
  BY <1>1
<1>3. QED
  BY <1>1, <1>2 DEF Has

LEMMA HasTaken ==
  ASSUME NEW S, NEW q \in Seq(S), q # <<>>, NEW n
  PROVE  Has(q, n) <=> Has(Tail(q), n) \/ Head(q) = n
<1>1. /\ Len(q) \in Nat /\ Len(q) > 0
      /\ DOMAIN q = 1 .. Len(q) /\ DOMAIN Tail(q) = 1 .. Len(q) - 1
      /\ \A i \in DOMAIN Tail(q) : Tail(q)[i] = q[i + 1]
      /\ Head(q) = q[1]
  BY TailIndexed
<1>2. /\ 1 \in DOMAIN q /\ \A i \in DOMAIN Tail(q) : i + 1 \in DOMAIN q
      /\ \A i \in DOMAIN q : i # 1 => i - 1 \in DOMAIN Tail(q) /\ (i - 1) + 1 = i
  BY <1>1
<1>3. \A i \in DOMAIN q : i # 1 => q[i] = Tail(q)[i - 1]
  BY <1>1, <1>2
<1>4. QED
  BY <1>1, <1>2, <1>3 DEF Has

\* A client puts m into the IPC channel, and has the subsenders H2 and is as far as in J2
\* after that.
LEMMA TrackedPut ==
  ASSUME NEW s \in Subs, NEW p \in Seq(Messages), NEW x, NEW H, NEW J, TrackedIn(s, p, x, H, J),
         NEW m \in Messages, NEW H2, NEW J2,
         \A c \in Clients : s \in H2[c] =>
           \/ s \in H[c] /\ m # Disconnect(s, c)
           \/ c \in Guests /\ On[c] = s /\ J[c] # "joined" /\ m = Received(s, c),
         \A c \in Clients : Uses(m, s, c) => s \in H[c],
         \A g \in Guests : J2[g] # "joined" <=> J[g] # "joined" /\ m # Received(On[g], g),
         \A c \in Clients : m = Received(s, c) => c \in Guests /\ On[c] = s /\ J[c] # "joined"
  PROVE  TrackedIn(s, Append(p, m), x, H2, J2)
<1> DEFINE q == Append(p, m)
           n == Len(p)
<1>1. /\ n \in Nat /\ DOMAIN p = 1 .. n /\ DOMAIN q = DOMAIN p \cup {n + 1}
      /\ \A i \in DOMAIN p : q[i] = p[i] /\ i < n + 1 /\ ~(n + 1 < i) /\ i # n + 1
      /\ q[n + 1] = m
  <2>1. n \in Nat /\ DOMAIN p = 1 .. n /\ DOMAIN q = 1 .. n + 1
    BY AppendIndexed
  <2>2. DOMAIN q = DOMAIN p \cup {n + 1} /\ \A i \in DOMAIN p : i < n + 1 /\ ~(n + 1 < i) /\ i # n + 1
    BY <2>1
  <2>3. QED
    BY <2>1, <2>2, AppendIndexed
<1>2. \A k \in Messages : Has(q, k) <=> Has(p, k) \/ m = k
  BY HasAppended
<1>3. Expected(s, q, J2) = Expected(s, p, J)
  <2>1. \A g \in Guests : On[g] = s => Received(s, g) \in Messages /\ g \in Clients
    BY MessagesTyped
  <2>2. \A g \in Guests : On[g] = s =>
          (J2[g] # "joined" \/ Has(q, Received(s, g)) <=> J[g] # "joined" \/ Has(p, Received(s, g)))
    BY <1>2, <2>1
  <2>3. QED
    BY <2>2 DEF Expected
<1>4. ASSUME NEW c \in Clients
      PROVE  InTouch(s, c, q, x, H2, J2)
  <2>0. InTouch(s, c, p, x, H, J)
    BY DEF TrackedIn
  <2>1. Received(s, c) \in Messages /\ Disconnect(s, c) \in Messages
    BY MessagesTyped
  <2>2. Uses(Disconnect(s, c), s, c) /\ Received(s, c) # Disconnect(s, c) /\ ~Uses(Received(s, c), s, c)
    BY DEF Uses, Disconnect, Received
  <2>3. s \in H2[c] \/ (\E i \in DOMAIN q : Uses(q[i], s, c)) => c \in x.sources \cup Expected(s, q, J2)
    <3>1. CASE s \in H[c] \/ \E i \in DOMAIN p : Uses(p[i], s, c)
      BY <1>3, <2>0, <3>1 DEF InTouch
    <3>2. CASE s \in H2[c] /\ s \notin H[c]
      BY <1>3, <3>2 DEF Expected
    <3>3. CASE Uses(m, s, c)
      BY <3>1, <3>3
    <3>4. (\E i \in DOMAIN q : Uses(q[i], s, c)) => Uses(m, s, c) \/ \E i \in DOMAIN p : Uses(p[i], s, c)
      BY <1>1
    <3>5. QED
      BY <3>1, <3>2, <3>3, <3>4
  <2>4. \A i, j \in DOMAIN q : q[i] = Disconnect(s, c) /\ i < j => ~Uses(q[j], s, c)
    <3>1. SUFFICES ASSUME NEW i \in DOMAIN q, NEW j \in DOMAIN q, q[i] = Disconnect(s, c), i < j,
                          Uses(q[j], s, c)
                   PROVE  FALSE
      OBVIOUS
    <3>2. CASE i \in DOMAIN p /\ j \in DOMAIN p
      BY <1>1, <2>0, <3>1, <3>2 DEF InTouch
    <3>3. CASE i \in DOMAIN p /\ j = n + 1
      <4>1. s \in H[c] /\ Has(p, Disconnect(s, c))
        BY <1>1, <3>1, <3>3 DEF Has
      <4>2. QED
        BY <2>0, <4>1 DEF InTouch
    <3>4. ~(i = n + 1)
      BY <1>1, <3>1
    <3>5. QED
      BY <1>1, <3>2, <3>3, <3>4
  <2>5. s \in H2[c] => ~Has(q, Disconnect(s, c))
    <3>1. SUFFICES ASSUME s \in H2[c], Has(q, Disconnect(s, c))
                   PROVE  FALSE
      OBVIOUS
    <3>2. CASE s \in H[c] /\ m # Disconnect(s, c)
      BY <1>2, <2>0, <2>1, <3>1, <3>2 DEF InTouch
    <3>3. CASE c \in Guests /\ On[c] = s /\ J[c] # "joined" /\ m = Received(s, c)
      BY <1>2, <2>0, <2>1, <2>2, <3>1, <3>3 DEF InTouch
    <3>4. QED
      BY <3>1, <3>2, <3>3
  <2>6. Once(q, Received(s, c))
    <3>1. CASE m = Received(s, c)
      <4>1. ~Has(p, Received(s, c))
        BY <2>0, <3>1 DEF InTouch
      <4>2. QED
        BY <1>1, <4>1 DEF Has, Once
    <3>2. CASE m # Received(s, c)
      BY <1>1, <2>0, <3>2 DEF InTouch, Once
    <3>3. QED
      BY <3>1, <3>2
  <2>7. Has(q, Received(s, c)) => c \in Guests /\ On[c] = s /\ J2[c] = "joined"
    BY <1>2, <2>0, <2>1 DEF InTouch
  <2>8. c \in Guests /\ (s \in H2[c] \/ Has(q, Disconnect(s, c))) => On[c] = s /\ J2[c] = "joined"
    <3>1. m = Disconnect(s, c) => s \in H[c]
      BY <2>2
    <3>2. QED
      BY <1>2, <2>0, <2>1, <3>1 DEF InTouch
  <2>9. QED
    BY <2>3, <2>4, <2>5, <2>6, <2>7, <2>8 DEF InTouch
<1>5. QED
  BY <1>3, <1>4 DEF TrackedIn

\* A client's subsender goes without a message, or nothing happens to it.
LEMMA TrackedLeft ==
  ASSUME NEW s, NEW p, NEW x, NEW H, NEW J, TrackedIn(s, p, x, H, J), NEW H2,
         \A c \in Clients : s \in H2[c] => s \in H[c]
  PROVE  TrackedIn(s, p, x, H2, J)
BY DEF TrackedIn, InTouch

\* The sender of a message that is on its way, or of one that may follow, is not taken.
LEMMA NotTaken ==
  ASSUME NEW s, NEW p, NEW x, NEW H, NEW J, TrackedIn(s, p, x, H, J),
         NEW c \in Clients,
         s \in H[c] \/ (\E i \in DOMAIN p : Uses(p[i], s, c)) \/ c \in Expected(s, p, J)
  PROVE  x.maybe
<1>1. c \in x.sources \cup Expected(s, p, J)
  BY DEF TrackedIn, InTouch
<1>2. QED
  BY <1>1, ExpectedFinite DEF TrackedIn

\* The message in front has been handled: what that changes is y instead of x.
LEMMA TrackedTaken ==
  ASSUME NEW s \in Subs, NEW p \in Seq(Messages), p # <<>>, NEW x \in Machines, NEW H, NEW J,
         TrackedIn(s, p, x, H, J), NEW y,
         \A c \in Clients : Head(p) = Received(s, c) => y = SM!Received(x, Transit, c),
         \A c \in Clients : Head(p) = Disconnect(s, c) => y = SM!Disconnect(x, c),
         (\A c \in Clients : Head(p) # Received(s, c) /\ Head(p) # Disconnect(s, c)) => y = x
  PROVE  TrackedIn(s, Tail(p), y, H, J)
<1> DEFINE m == Head(p)
           q == Tail(p)
<1>1. /\ DOMAIN p = 1 .. Len(p) /\ Len(p) \in Nat /\ 1 \in DOMAIN p /\ p[1] = m
      /\ \A i \in DOMAIN q : i + 1 \in DOMAIN p /\ q[i] = p[i + 1] /\ 1 < i + 1
      /\ \A i, j \in DOMAIN q : i < j => i + 1 < j + 1
      /\ \A i, j \in DOMAIN q : i + 1 = j + 1 => i = j
  <2>1. /\ DOMAIN p = 1 .. Len(p) /\ Len(p) \in Nat /\ Len(p) > 0 /\ DOMAIN q = 1 .. Len(p) - 1
    BY TailIndexed
  <2>2. /\ 1 \in DOMAIN p /\ \A i \in DOMAIN q : i + 1 \in DOMAIN p /\ 1 < i + 1
        /\ \A i, j \in DOMAIN q : i < j => i + 1 < j + 1
        /\ \A i, j \in DOMAIN q : i + 1 = j + 1 => i = j
    BY <2>1
  <2>3. QED
    BY <2>1, <2>2, TailIndexed
<1>2. \A k \in Messages : Has(p, k) <=> Has(q, k) \/ m = k
  BY HasTaken
<1>3. \A c \in Clients : Received(s, c) \in Messages /\ Disconnect(s, c) \in Messages
  BY MessagesTyped
<1>4. \A g \in Guests : g \in Clients /\ (On[g] = s => On[g] \in Subs)
  BY MessagesTyped
<1>5. ASSUME NEW c \in Clients
      PROVE  /\ \A i, j \in DOMAIN q : q[i] = Disconnect(s, c) /\ i < j => ~Uses(q[j], s, c)
             /\ s \in H[c] => ~Has(q, Disconnect(s, c))
             /\ Once(q, Received(s, c))
             /\ Has(q, Received(s, c)) => c \in Guests /\ On[c] = s /\ J[c] = "joined"
             /\ c \in Guests /\ (s \in H[c] \/ Has(q, Disconnect(s, c)))
                  => On[c] = s /\ J[c] = "joined"
             /\ s \in H[c] \/ (\E i \in DOMAIN q : Uses(q[i], s, c))
                  => c \in x.sources \cup Expected(s, p, J)
  <2>1. InTouch(s, c, p, x, H, J)
    BY DEF TrackedIn
  <2>2. \A i, j \in DOMAIN q : q[i] = Disconnect(s, c) /\ i < j => ~Uses(q[j], s, c)
    BY <1>1, <2>1 DEF InTouch
  <2>3. Once(q, Received(s, c))
    BY <1>1, <2>1 DEF InTouch, Once
  <2>4. (\E i \in DOMAIN q : Uses(q[i], s, c)) => \E i \in DOMAIN p : Uses(p[i], s, c)
    BY <1>1
  <2>5. QED
    BY <1>2, <1>3, <2>1, <2>2, <2>3, <2>4 DEF InTouch
<1>6. ASSUME NEW c \in Clients, m = Received(s, c)
      PROVE  TrackedIn(s, q, y, H, J)
  <2>1. InTouch(s, c, p, x, H, J) /\ Has(p, m)
    BY <1>1 DEF TrackedIn, Has
  <2>2. c \in Expected(s, p, J)
    BY <1>6, <2>1 DEF InTouch, Expected
  <2>3. ~Has(q, m)
    BY <1>1, <1>6, <2>1 DEF InTouch, Once, Has
  <2>4. Expected(s, q, J) = Expected(s, p, J) \ {c}
    <3>1. \A g \in Guests : Received(s, g) = Received(s, c) => g = c
      BY DEF Received
    <3>2. \A g \in Guests : Has(q, Received(s, g)) <=> Has(p, Received(s, g)) /\ g # c
      BY <1>2, <1>3, <1>4, <1>6, <2>3, <3>1
    <3>3. J[c] = "joined"
      BY <1>6, <2>1 DEF InTouch
    <3>4. QED
      BY <3>2, <3>3 DEF Expected
  <2>5. PICK n \in Nat : n = Cardinality(Expected(s, p, J))
    BY ExpectedFinite
  <2>6. Cardinality(Expected(s, q, J)) = n - 1 /\ n > 0
    BY <2>2, <2>4, <2>5, ExpectedFinite, FS_RemoveElement
  <2>7. x.inFlight[Transit] = n
    BY <2>5 DEF TrackedIn
  <2>8. y = SM!Received(x, Transit, c)
    BY <1>6
  <2>9. y.inFlight[Transit] = n - 1 /\ y.sources = x.sources \cup {c} /\ y.maybe = x.maybe
    BY <2>6, <2>7, <2>8, MachineSteps
  <2>10. y.maybe
    BY <2>6, <2>7, <2>9 DEF TrackedIn
  <2>11. x.sources \cup Expected(s, p, J) = y.sources \cup Expected(s, q, J)
    BY <2>2, <2>4, <2>9
  <2>12. \A d \in Clients : InTouch(s, d, q, y, H, J)
    BY <1>5, <2>11 DEF InTouch
  <2>13. QED
    BY <2>6, <2>9, <2>10, <2>12 DEF TrackedIn
<1>7. ASSUME \A c \in Clients : m # Received(s, c)
      PROVE  Expected(s, q, J) = Expected(s, p, J)
  <2>1. \A g \in Guests : Has(q, Received(s, g)) <=> Has(p, Received(s, g))
    BY <1>2, <1>3, <1>4, <1>7
  <2>2. QED
    BY <2>1 DEF Expected
<1>8. ASSUME NEW c \in Clients, m = Disconnect(s, c)
      PROVE  TrackedIn(s, q, y, H, J)
  <2>1. InTouch(s, c, p, x, H, J) /\ Has(p, m)
    BY <1>1 DEF TrackedIn, Has
  <2>2. \A d \in Clients : m # Received(s, d)
    BY <1>8 DEF Disconnect, Received
  <2>3. Expected(s, q, J) = Expected(s, p, J)
    BY <1>7, <2>2
  <2>4. y = SM!Disconnect(x, c)
    BY <1>8
  <2>5. /\ y.sources = x.sources \ {c} /\ y.inFlight[Transit] = x.inFlight[Transit]
        /\ y.maybe <=> x.maybe /\ ~(y.sources = {} /\ y.inFlight[Transit] = 0)
    BY <2>4, MachineSteps
  <2>6. s \notin H[c] /\ \A i \in DOMAIN q : ~Uses(q[i], s, c)
    BY <1>1, <1>8, <2>1 DEF InTouch
  <2>7. ASSUME NEW d \in Clients
        PROVE  InTouch(s, d, q, y, H, J)
    BY <1>5, <2>3, <2>5, <2>6, <2>7 DEF InTouch
  <2>8. ~y.maybe => y.sources = {} /\ y.inFlight[Transit] = 0
    BY <2>5 DEF TrackedIn
  <2>9. y.inFlight[Transit] = Cardinality(Expected(s, q, J))
    BY <2>3, <2>5 DEF TrackedIn
  <2>10. QED
    BY <2>7, <2>8, <2>9 DEF TrackedIn
<1>9. CASE \A c \in Clients : m # Received(s, c) /\ m # Disconnect(s, c)
  <2>1. y = x /\ Expected(s, q, J) = Expected(s, p, J)
    BY <1>7, <1>9
  <2>2. \A c \in Clients : InTouch(s, c, q, y, H, J)
    BY <1>5, <2>1 DEF InTouch
  <2>3. QED
    BY <2>1, <2>2 DEF TrackedIn
<1>10. QED
  BY <1>6, <1>8, <1>9

Tracked == \A s \in Subs : TrackedIn(s, Pipe, sm[s], holds, joining)

\* A client sends only with a subsender that it has.
SendsWhatItHas == \A c \in Clients : sending[c] # NoSub => sending[c] \in holds[c]

LEMMA TrackedInit == Init => Tracked /\ SendsWhatItHas
<1> SUFFICES ASSUME Init PROVE Tracked /\ SendsWhatItHas
  OBVIOUS
<1>1. Pipe = <<>>
  <2>1. InHand = <<>> /\ ipc = <<>>
    BY DEF Init, InHand
  <2>2. QED
    BY <2>1 DEF Pipe
<1>2. ASSUME NEW s \in Subs
      PROVE  TrackedIn(s, <<>>, sm[s], holds, joining)
  <2>1. \A m : ~Has(<<>>, m) /\ Once(<<>>, m)
    BY DEF Has, Once
  <2>2. Expected(s, <<>>, joining) = {g \in Guests : On[g] = s}
    BY DEF Init, Expected
  <2>3. PICK n : n = Cardinality({g \in Guests : On[g] = s})
    OBVIOUS
  <2>4. sm[s] = [SM!New(Home) EXCEPT !.inFlight[Transit] = n]
    BY <2>3 DEF Init
  <2>5. sm[s].inFlight[Transit] = n /\ sm[s].maybe /\ sm[s].sources = {Home}
    BY <2>4 DEF SM!New
  <2>6. \A c \in Clients : s \in holds[c] => c = Home
    BY DEF Init
  <2>7. \A c \in Clients : InTouch(s, c, <<>>, sm[s], holds, joining)
    BY <2>1, <2>5, <2>6, DemuxAssumption DEF InTouch
  <2>8. QED
    BY <2>2, <2>3, <2>5, <2>7 DEF TrackedIn
<1>3. SendsWhatItHas
  BY DEF SendsWhatItHas, Init
<1>4. QED
  BY <1>1, <1>2, <1>3 DEF Tracked

\* What a client does.
LEMMA TrackedClient ==
  ASSUME TypeOK, Locked, Tracked, SendsWhatItHas,
         \/ \E c \in Clients : ClientStep(c)
         \/ \E g \in Guests : BeginJoin(g) \/ EndJoin(g)
  PROVE  Tracked' /\ SendsWhatItHas'
<1> USE DEF demuxerVars, receiverVars, clientVars
<1>0. /\ holds \in [Clients -> SUBSET Subs] /\ sending \in [Clients -> Subs \cup {NoSub}]
      /\ joining \in [Guests -> {"on_the_way", "connected", "joined"}]
      /\ sent \in [Clients -> [Subs -> Nat]] /\ NoSub \notin Subs
      /\ Pipe \in Seq(Messages)
  BY DemuxAssumption, PipeTyped DEF TypeOK
<1>1. \A s \in Subs : TrackedIn(s, Pipe, sm[s], holds, joining)
  BY DEF Tracked
<1>2. ASSUME NEW g \in Guests, BeginJoin(g)
      PROVE  Tracked' /\ SendsWhatItHas'
  <2>1. /\ joining[g] = "on_the_way" /\ joining' = [joining EXCEPT ![g] = "connected"]
        /\ UNCHANGED <<holds, sending, sm, demuxer, hand>> /\ Put(Connect(g))
    BY <1>2 DEF BeginJoin
  <2>2. PICK m \in Messages : m = Connect(g)
    BY MessagesTyped
  <2>3. Pipe' = Append(Pipe, m)
    BY <2>1, <2>2, PipePut
  <2>4. /\ \A s, c : ~Uses(m, s, c) /\ m # Received(s, c) /\ m # Disconnect(s, c)
    BY <2>2 DEF Uses, Connect, Received, Disconnect
  <2>5. \A h \in Guests : joining'[h] # "joined" <=> joining[h] # "joined"
    BY <1>0, <2>1
  <2>6. ASSUME NEW s \in Subs
        PROVE  TrackedIn(s, Append(Pipe, m), sm[s], holds, joining')
    BY <1>0, <1>1, <2>4, <2>5, TrackedPut
  <2>7. QED
    BY <2>1, <2>3, <2>6 DEF Tracked, SendsWhatItHas
<1>3. ASSUME NEW g \in Guests, EndJoin(g)
      PROVE  Tracked' /\ SendsWhatItHas'
  <2>1. /\ joining[g] = "connected" /\ joining' = [joining EXCEPT ![g] = "joined"]
        /\ holds' = [holds EXCEPT ![g] = {On[g]}]
        /\ UNCHANGED <<sending, sm, demuxer, hand>> /\ Put(Received(On[g], g))
    BY <1>3 DEF EndJoin
  <2>2. g \in Clients /\ On[g] \in Subs
    BY DemuxAssumption, MessagesTyped
  <2>3. PICK m \in Messages : m = Received(On[g], g)
    BY <2>2, MessagesTyped
  <2>4. Pipe' = Append(Pipe, m)
    BY <2>1, <2>3, PipePut
  <2>5. /\ \A s, c : ~Uses(m, s, c) /\ m # Disconnect(s, c)
        /\ \A s, c : m = Received(s, c) => s = On[g] /\ c = g
    BY <2>3 DEF Uses, Received, Disconnect
  <2>6. \A h \in Guests : joining'[h] # "joined" <=> joining[h] # "joined" /\ m # Received(On[h], h)
    BY <1>0, <2>1, <2>3, <2>5
  <2>7. \A s \in Subs, c \in Clients : s \in holds'[c] =>
          s \in holds[c] \/ (c = g /\ s = On[g])
    <3>1. \A c \in Clients : holds'[c] = IF c = g THEN {On[g]} ELSE holds[c]
      BY <1>0, <2>1
    <3>2. QED
      BY <3>1
  <2>8. ASSUME NEW s \in Subs
        PROVE  TrackedIn(s, Append(Pipe, m), sm[s], holds', joining')
    <3>1. \A c \in Clients : m = Received(s, c) =>
            c \in Guests /\ On[c] = s /\ joining[c] # "joined"
      BY <2>1, <2>5
    <3>2. \A c \in Clients : s \in holds'[c] =>
            \/ s \in holds[c] /\ m # Disconnect(s, c)
            \/ c \in Guests /\ On[c] = s /\ joining[c] # "joined" /\ m = Received(s, c)
      BY <2>1, <2>3, <2>5, <2>7
    <3>3. \A c \in Clients : Uses(m, s, c) => s \in holds[c]
      BY <2>5
    <3>4. QED
      BY <1>0, <1>1, <2>6, <3>1, <3>2, <3>3, TrackedPut
  <2>9. SendsWhatItHas'
    <3>1. ASSUME sending[g] # NoSub PROVE sending[g] = On[g]
      <4>1. sending[g] \in holds[g] /\ sending[g] \in Subs
        BY <1>0, <2>2, <3>1 DEF SendsWhatItHas
      <4>2. joining[g] = "joined"
        <5>1. InTouch(sending[g], g, Pipe, sm[sending[g]], holds, joining)
          BY <1>1, <2>2, <4>1 DEF TrackedIn
        <5>2. QED
          BY <4>1, <5>1 DEF InTouch
      <4>3. QED
        BY <2>1, <4>2
    <3>2. QED
      BY <1>0, <2>1, <2>2, <3>1 DEF SendsWhatItHas
  <2>10. QED
    BY <2>1, <2>4, <2>8, <2>9 DEF Tracked
<1>4. ASSUME NEW c \in Clients, NEW s \in Subs, BeginSend(c, s)
      PROVE  Tracked' /\ SendsWhatItHas'
  <2>1. /\ s \in holds[c] /\ UNCHANGED <<holds, joining, sm, ipc, demuxer, hand>>
        /\ sending' = [sending EXCEPT ![c] = NoSub] \/ sending' = [sending EXCEPT ![c] = s]
    BY <1>4 DEF BeginSend
  <2>2. Pipe' = Pipe
    BY <2>1 DEF Pipe, InHand
  <2>3. SendsWhatItHas'
    BY <1>0, <2>1 DEF SendsWhatItHas
  <2>4. QED
    BY <1>1, <2>1, <2>2, <2>3 DEF Tracked
<1>5. ASSUME NEW c \in Clients, EndSend(c)
      PROVE  Tracked' /\ SendsWhatItHas'
  <2>1. PICK s \in Subs : s = sending[c]
    BY <1>0, <1>5 DEF EndSend
  <2>2. /\ sent' = [sent EXCEPT ![c][s] = sent[c][s] + 1]
        /\ Put(Data(s, c, sent'[c][s])) /\ sending' = [sending EXCEPT ![c] = NoSub]
        /\ UNCHANGED <<holds, joining, sm, demuxer, hand>>
    BY <1>5, <2>1 DEF EndSend
  <2>3. PICK m \in Messages : m = Data(s, c, sent'[c][s])
    <3>1. sent'[c][s] \in Nat
      <4>1. sent[c] \in [Subs -> Nat]
        BY <1>0
      <4>2. sent'[c] = [sent[c] EXCEPT ![s] = sent[c][s] + 1]
        BY <1>0, <2>2
      <4>3. QED
        BY <2>1, <4>1, <4>2
    <3>2. QED
      BY <2>1, <3>1, MessagesTyped
  <2>4. Pipe' = Append(Pipe, m)
    BY <2>2, <2>3, PipePut
  <2>5. /\ \A t, d : m # Received(t, d) /\ m # Disconnect(t, d)
        /\ \A t, d : Uses(m, t, d) => t = s /\ d = c
    BY <2>3 DEF Uses, Data, Received, Disconnect
  <2>6. s \in holds[c]
    BY <2>1, <1>0 DEF SendsWhatItHas
  <2>7. ASSUME NEW t \in Subs
        PROVE  TrackedIn(t, Append(Pipe, m), sm[t], holds, joining)
    <3>1. TrackedIn(t, Pipe, sm[t], holds, joining)
      BY <1>1
    <3>2. \A d \in Clients : Uses(m, t, d) => t \in holds[d]
      BY <2>5, <2>6
    <3>3. QED
      BY <1>0, <2>5, <3>1, <3>2, TrackedPut
  <2>8. SendsWhatItHas'
    BY <1>0, <2>2 DEF SendsWhatItHas
  <2>9. QED
    BY <2>2, <2>4, <2>7, <2>8 DEF Tracked
<1>6. ASSUME NEW c \in Clients, NEW s \in Subs, DropSender(c, s)
      PROVE  Tracked' /\ SendsWhatItHas'
  <2>1. /\ s \in holds[c] /\ sending[c] = NoSub
        /\ holds' = [holds EXCEPT ![c] = holds[c] \ {s}]
        /\ UNCHANGED <<joining, sending, sm, demuxer, hand>>
        /\ UNCHANGED ipc \/ Put(Disconnect(s, c))
    BY <1>6 DEF DropSender
  <2>2. SendsWhatItHas'
    BY <1>0, <2>1 DEF SendsWhatItHas
  <2>3. /\ \A t, d : t \in holds'[d] /\ d \in Clients => t \in holds[d]
        /\ s \notin holds'[c]
    BY <1>0, <2>1
  <2>4. CASE UNCHANGED ipc
    <3>1. Pipe' = Pipe
      BY <2>1, <2>4 DEF Pipe, InHand
    <3>2. ASSUME NEW t \in Subs PROVE TrackedIn(t, Pipe, sm[t], holds', joining)
      BY <1>1, <2>3, TrackedLeft
    <3>3. QED
      BY <2>1, <2>2, <3>1, <3>2 DEF Tracked
  <2>5. CASE Put(Disconnect(s, c))
    <3>1. PICK m \in Messages : m = Disconnect(s, c)
      BY MessagesTyped
    <3>2. Pipe' = Append(Pipe, m)
      BY <2>1, <2>5, <3>1, PipePut
    <3>3. /\ \A t, d : m # Received(t, d)
          /\ \A t, d : Uses(m, t, d) => t = s /\ d = c
          /\ \A t, d : m = Disconnect(t, d) => t = s /\ d = c
      BY <3>1 DEF Uses, Received, Disconnect
    <3>4. ASSUME NEW t \in Subs
          PROVE  TrackedIn(t, Append(Pipe, m), sm[t], holds', joining)
      BY <1>0, <1>1, <2>1, <2>3, <3>3, TrackedPut
    <3>5. QED
      BY <2>1, <2>2, <3>2, <3>4 DEF Tracked
  <2>6. QED
    BY <2>1, <2>4, <2>5
<1>7. QED
  BY <1>2, <1>3, <1>4, <1>5, <1>6 DEF ClientStep

\* A message that is handled changes the state machine of its subchannel only.
LEMMA MachinesHandled ==
  ASSUME TypeOK, NEW m \in Messages, Handle(m), NEW s \in Subs
  PROVE  /\ \A c \in Clients : m = Received(s, c) => sm'[s] = SM!Received(sm[s], Transit, c)
         /\ \A c \in Clients : m = Disconnect(s, c) => sm'[s] = SM!Disconnect(sm[s], c)
         /\ (\A c \in Clients : m # Received(s, c) /\ m # Disconnect(s, c)) => sm'[s] = sm[s]
<1>0. sm \in [Subs -> Machines]
  BY DEF TypeOK, Machines
<1>1. CASE m.type \in {"Connect", "Data"}
  <2>1. sm' = sm
    BY <1>1 DEF Handle, HandleConnect, HandleData
  <2>2. \A c : m # Received(s, c) /\ m # Disconnect(s, c)
    BY <1>1 DEF Received, Disconnect
  <2>3. QED
    BY <2>1, <2>2
<1>2. CASE m.type = "Received"
  <2>1. m.sub \in Subs /\ m.client \in Clients /\ m = Received(m.sub, m.client)
    BY <1>2, MessagesTyped
  <2>2. sm' = [sm EXCEPT ![m.sub] = SM!Received(sm[m.sub], Transit, m.client)]
    BY <1>2 DEF Handle, HandleReceived
  <2>3. /\ \A c : m # Disconnect(s, c)
        /\ \A c : m = Received(s, c) => m.sub = s /\ m.client = c
    BY <1>2 DEF Received, Disconnect
  <2>4. QED
    BY <1>0, <2>1, <2>2, <2>3
<1>3. CASE m.type = "Disconnect"
  <2>1. m.sub \in Subs /\ m.client \in Clients /\ m = Disconnect(m.sub, m.client)
    BY <1>3, MessagesTyped
  <2>2. sm' = [sm EXCEPT ![m.sub] = SM!Disconnect(sm[m.sub], m.client)]
    BY <1>3 DEF Handle, HandleDisconnect
  <2>3. /\ \A c : m # Received(s, c)
        /\ \A c : m = Disconnect(s, c) => m.sub = s /\ m.client = c
    BY <1>3 DEF Received, Disconnect
  <2>4. QED
    BY <1>0, <2>1, <2>2, <2>3
<1>4. QED
  BY <1>1, <1>2, <1>3, MessagesTyped

LEMMA TrackedReceiver ==
  ASSUME TypeOK, Locked, Tracked, SendsWhatItHas, NEW s \in Subs,
         (\E method \in Methods : Call(s, method)) \/ ThreadStep(s) \/ Drop(s)
  PROVE  Tracked' /\ SendsWhatItHas'
<1>1. UNCHANGED <<joining, holds, sending>>
  BY DEF Call, Drop, ThreadStep, TakeLocal, FindNothing, LockDemuxer, LockFails, WaitEnds,
         ReceiveFromIpc, ReceiveTimesOut, HandleInHand, DeadlinePasses, TryReceive, StillEmpty,
         Drain, Broadcast, Close, Threaded, clientVars
<1>2. CASE Takes(s)
  <2>1. PICK p \in Seq(Messages) : p = Pipe
    BY PipeTyped
  <2>2. p # <<>> /\ Handle(Head(p)) /\ Pipe' = Tail(p) /\ Head(p) \in Messages
    BY <1>2, <2>1, PipeTaken, TailIndexed
  <2>3. ASSUME NEW t \in Subs
        PROVE  TrackedIn(t, Tail(p), sm'[t], holds, joining)
    <3>1. sm[t] \in Machines /\ TrackedIn(t, p, sm[t], holds, joining)
      BY <2>1 DEF TypeOK, Machines, Tracked
    <3>2. QED
      BY <2>1, <2>2, <3>1, MachinesHandled, TrackedTaken
  <2>4. QED
    BY <1>1, <2>2, <2>3 DEF Tracked, SendsWhatItHas
<1>3. CASE ~Takes(s)
  BY <1>1, <1>3, PipeQuiet DEF Tracked, SendsWhatItHas
<1>4. QED
  BY <1>2, <1>3

LEMMA TrackedAlways == Spec => [](Tracked /\ SendsWhatItHas)
<1>1. TypeOK /\ Locked /\ Tracked /\ SendsWhatItHas /\ [Next]_vars => Tracked' /\ SendsWhatItHas'
  <2>1. CASE UNCHANGED vars
    BY <2>1 DEF vars, demuxerVars, receiverVars, clientVars, Tracked, SendsWhatItHas, Pipe, InHand
  <2>2. QED
    BY <2>1, TrackedClient, TrackedReceiver DEF Next
<1>2. QED
  BY <1>1, TrackedInit, TypedAlways, PTL DEF Spec

-----------------------------------------------------------------------------
(* Payloads, from the client to the thread that receives them.             *)

IsData(m, s, c) == m.type = "Data" /\ m.sub = s /\ m.client = c

NumberOf(s, c, m) == IF IsData(m, s, c) THEN {m.number} ELSE {}

NumbersOf(s, c, q) == {q[i].number : i \in DataOf(s, c, q)}

Increasing(s, c, q) == \A i, j \in DataOf(s, c, q) : i < j => q[i].number < q[j].number

Below(A, B) == \A a \in A, b \in B : a < b

LEMMA AppendNumbered ==
  ASSUME NEW s, NEW c, NEW S, NEW q \in Seq(S), NEW m
  PROVE  /\ NumbersOf(s, c, Append(q, m)) = NumbersOf(s, c, q) \cup NumberOf(s, c, m)
         /\ Increasing(s, c, q) /\ Below(NumbersOf(s, c, q), NumberOf(s, c, m))
              => Increasing(s, c, Append(q, m))
<1> DEFINE p == Append(q, m)
           n == Len(q)
<1>0. \A k : k \in NumberOf(s, c, m) <=> IsData(m, s, c) /\ k = m.number
  BY DEF NumberOf
<1>1. /\ n \in Nat /\ DOMAIN p = DOMAIN q \cup {n + 1}
      /\ \A i \in DOMAIN q : p[i] = q[i] /\ i < n + 1 /\ ~(n + 1 < i) /\ i # n + 1
      /\ p[n + 1] = m
  <2>1. n \in Nat /\ DOMAIN q = 1 .. n /\ DOMAIN p = 1 .. n + 1
    BY AppendIndexed
  <2>2. DOMAIN p = DOMAIN q \cup {n + 1} /\ \A i \in DOMAIN q : i < n + 1 /\ ~(n + 1 < i) /\ i # n + 1
    BY <2>1
  <2>3. QED
    BY <2>1, <2>2, AppendIndexed
<1>2. /\ \A i \in DataOf(s, c, q) : i \in DataOf(s, c, p) /\ p[i] = q[i] /\ i \in DOMAIN q
      /\ \A i \in DataOf(s, c, p) : \/ i \in DataOf(s, c, q)
                                    \/ i = n + 1 /\ IsData(m, s, c)
      /\ IsData(m, s, c) => n + 1 \in DataOf(s, c, p)
  BY <1>1 DEF DataOf, IsData
<1>3. NumbersOf(s, c, p) = NumbersOf(s, c, q) \cup NumberOf(s, c, m)
  <2>1. \A k \in NumbersOf(s, c, p) : k \in NumbersOf(s, c, q) \cup NumberOf(s, c, m)
    BY <1>0, <1>1, <1>2 DEF NumbersOf
  <2>2. \A k \in NumbersOf(s, c, q) \cup NumberOf(s, c, m) : k \in NumbersOf(s, c, p)
    BY <1>0, <1>1, <1>2 DEF NumbersOf
  <2>3. QED
    BY <2>1, <2>2
<1>4. ASSUME Increasing(s, c, q), Below(NumbersOf(s, c, q), NumberOf(s, c, m))
      PROVE  Increasing(s, c, p)
  <2>1. SUFFICES ASSUME NEW i \in DataOf(s, c, p), NEW j \in DataOf(s, c, p), i < j
                 PROVE  p[i].number < p[j].number
    BY DEF Increasing
  <2>2. CASE i \in DataOf(s, c, q) /\ j \in DataOf(s, c, q)
    BY <1>2, <1>4, <2>1, <2>2 DEF Increasing
  <2>3. CASE i \in DataOf(s, c, q) /\ j = n + 1 /\ IsData(m, s, c)
    <3>1. m.number \in NumberOf(s, c, m) /\ p[j].number = m.number
      BY <1>0, <1>1, <2>3
    <3>2. q[i].number \in NumbersOf(s, c, q) /\ p[i].number = q[i].number
      BY <1>2, <2>3 DEF NumbersOf
    <3>3. QED
      BY <1>4, <3>1, <3>2 DEF Below
  <2>4. i # n + 1
    BY <1>1, <1>2, <2>1
  <2>5. QED
    BY <1>2, <2>2, <2>3, <2>4
<1>5. QED
  BY <1>0, <1>3, <1>4

LEMMA TailNumbered ==
  ASSUME NEW s, NEW c, NEW S, NEW q \in Seq(S), q # <<>>
  PROVE  /\ NumbersOf(s, c, q) = NumberOf(s, c, Head(q)) \cup NumbersOf(s, c, Tail(q))
         /\ Increasing(s, c, q) =>
              /\ Increasing(s, c, Tail(q))
              /\ Below(NumberOf(s, c, Head(q)), NumbersOf(s, c, Tail(q)))
<1> DEFINE p == Tail(q)
<1>0. \A k : k \in NumberOf(s, c, Head(q)) <=> IsData(Head(q), s, c) /\ k = Head(q).number
  BY DEF NumberOf
<1>1. /\ 1 \in DOMAIN q /\ q[1] = Head(q)
      /\ \A i \in DOMAIN p : i + 1 \in DOMAIN q /\ p[i] = q[i + 1] /\ 1 < i + 1
      /\ \A i \in DOMAIN q : i # 1 => i - 1 \in DOMAIN p /\ q[i] = p[i - 1]
      /\ \A i, j \in DOMAIN p : i < j => i + 1 < j + 1
  <2>1. Len(q) \in Nat /\ Len(q) > 0 /\ DOMAIN q = 1 .. Len(q) /\ DOMAIN p = 1 .. Len(q) - 1
    BY TailIndexed
  <2>2. /\ 1 \in DOMAIN q /\ \A i \in DOMAIN p : i + 1 \in DOMAIN q /\ 1 < i + 1
        /\ \A i \in DOMAIN q : i # 1 => i - 1 \in DOMAIN p /\ (i - 1) + 1 = i
        /\ \A i, j \in DOMAIN p : i < j => i + 1 < j + 1
    BY <2>1
  <2>3. \A i \in DOMAIN p : p[i] = q[i + 1]
    BY TailIndexed
  <2>4. QED
    BY <2>2, <2>3, TailIndexed
<1>2. /\ \A i \in DataOf(s, c, p) : i + 1 \in DataOf(s, c, q) /\ p[i] = q[i + 1] /\ i \in DOMAIN p
      /\ \A i \in DataOf(s, c, q) : \/ i = 1 /\ IsData(Head(q), s, c)
                                    \/ i - 1 \in DataOf(s, c, p) /\ q[i] = p[i - 1]
      /\ IsData(Head(q), s, c) => 1 \in DataOf(s, c, q)
  BY <1>1 DEF DataOf, IsData
<1>3. NumbersOf(s, c, q) = NumberOf(s, c, Head(q)) \cup NumbersOf(s, c, p)
  <2>1. \A k \in NumbersOf(s, c, q) : k \in NumberOf(s, c, Head(q)) \cup NumbersOf(s, c, p)
    BY <1>0, <1>1, <1>2 DEF NumbersOf
  <2>2. \A k \in NumberOf(s, c, Head(q)) \cup NumbersOf(s, c, p) : k \in NumbersOf(s, c, q)
    BY <1>0, <1>1, <1>2 DEF NumbersOf
  <2>3. QED
    BY <2>1, <2>2
<1>4. ASSUME Increasing(s, c, q)
      PROVE  Increasing(s, c, p) /\ Below(NumberOf(s, c, Head(q)), NumbersOf(s, c, p))
  <2>1. Increasing(s, c, p)
    BY <1>1, <1>2, <1>4 DEF Increasing
  <2>2. Below(NumberOf(s, c, Head(q)), NumbersOf(s, c, p))
    BY <1>0, <1>1, <1>2, <1>4 DEF Increasing, Below, NumbersOf
  <2>3. QED
    BY <2>1, <2>2
<1>5. QED
  BY <1>0, <1>3, <1>4

LEMMA ConcatNumbered ==
  ASSUME NEW s, NEW c, NEW S, NEW q \in Seq(S), NEW p \in Seq(S)
  PROVE  /\ NumbersOf(s, c, q \o p) = NumbersOf(s, c, q) \cup NumbersOf(s, c, p)
         /\ (/\ Increasing(s, c, q) /\ Increasing(s, c, p)
             /\ Below(NumbersOf(s, c, q), NumbersOf(s, c, p)))
            => Increasing(s, c, q \o p)
<1>1. PICK r : r = q \o p
  OBVIOUS
<1>2. PICK n \in Nat, m \in Nat : n = Len(q) /\ m = Len(p)
  BY ConcatIndexed
<1>3. /\ DOMAIN q = 1 .. n /\ DOMAIN p = 1 .. m /\ DOMAIN r = 1 .. n + m
      /\ \A i \in DOMAIN q : r[i] = q[i]
      /\ \A i \in DOMAIN p : r[n + i] = p[i]
  BY <1>1, <1>2, ConcatIndexed
<1>4. /\ \A i \in DOMAIN q : i \in DOMAIN r
      /\ \A i \in DOMAIN p : n + i \in DOMAIN r
      /\ \A i \in DOMAIN r : i \notin DOMAIN q => i - n \in DOMAIN p /\ n + (i - n) = i
  BY <1>3
<1>5. /\ \A i \in DataOf(s, c, q) : i \in DataOf(s, c, r) /\ r[i] = q[i]
      /\ \A i \in DataOf(s, c, p) : n + i \in DataOf(s, c, r) /\ r[n + i] = p[i]
  BY <1>3, <1>4 DEF DataOf
<1>6. \A i \in DataOf(s, c, r) : \/ i \in DataOf(s, c, q)
                                 \/ i \notin DOMAIN q /\ i - n \in DataOf(s, c, p) /\ r[i] = p[i - n]
  <2>1. \A i \in DOMAIN r : i \notin DOMAIN q => r[i] = p[i - n]
    BY <1>3, <1>4
  <2>2. QED
    BY <1>3, <1>4, <2>1 DEF DataOf
<1>7. NumbersOf(s, c, r) = NumbersOf(s, c, q) \cup NumbersOf(s, c, p)
  <2>1. \A x \in NumbersOf(s, c, r) : x \in NumbersOf(s, c, q) \/ x \in NumbersOf(s, c, p)
    BY <1>5, <1>6 DEF NumbersOf
  <2>2. \A x \in NumbersOf(s, c, q) : x \in NumbersOf(s, c, r)
    BY <1>5 DEF NumbersOf
  <2>3. \A x \in NumbersOf(s, c, p) : x \in NumbersOf(s, c, r)
    BY <1>5 DEF NumbersOf
  <2>4. QED
    BY <2>1, <2>2, <2>3
<1>8. ASSUME Increasing(s, c, q), Increasing(s, c, p),
             Below(NumbersOf(s, c, q), NumbersOf(s, c, p))
      PROVE  Increasing(s, c, r)
  <2>1. SUFFICES ASSUME NEW i \in DataOf(s, c, r), NEW j \in DataOf(s, c, r), i < j
                 PROVE  r[i].number < r[j].number
    BY DEF Increasing
  <2>2. i \in 1 .. n + m /\ j \in 1 .. n + m
    BY <1>3 DEF DataOf
  <2>3. CASE i \in DataOf(s, c, q) /\ j \in DataOf(s, c, q)
    BY <1>5, <1>8, <2>1, <2>3 DEF Increasing
  <2>4. CASE i \in DataOf(s, c, q) /\ j - n \in DataOf(s, c, p) /\ r[j] = p[j - n]
    BY <1>5, <1>8, <2>4 DEF NumbersOf, Below
  <2>5. CASE /\ i - n \in DataOf(s, c, p) /\ r[i] = p[i - n]
             /\ j - n \in DataOf(s, c, p) /\ r[j] = p[j - n]
    <3>1. i - n < j - n
      BY <1>2, <2>1, <2>2
    <3>2. QED
      BY <1>8, <2>5, <3>1 DEF Increasing
  <2>6. ~(i \notin DOMAIN q /\ j \in DataOf(s, c, q))
    BY <1>3, <2>1, <2>2 DEF DataOf
  <2>7. QED
    BY <1>6, <2>3, <2>4, <2>5, <2>6
<1>9. QED
  BY <1>1, <1>7, <1>8

\* The payloads from c to s that are in the local queue l, and behind them in p, are those
\* sent, up to number n, and not received, up to number h, in order.
NumberedIn(s, c, l, p, h, n) ==
  /\ h \in Nat /\ n \in Nat /\ h <= n
  /\ NumbersOf(s, c, l) \cup NumbersOf(s, c, p) = h + 1 .. n
  /\ Increasing(s, c, l) /\ Increasing(s, c, p)
  /\ Below(NumbersOf(s, c, l), NumbersOf(s, c, p))

Queued == Seq(Messages \cup {LocalDisconnect})

\* m is put into the IPC channel.
LEMMA NumberedPut ==
  ASSUME NEW s, NEW c, NEW l \in Queued, NEW p \in Seq(Messages), NEW h, NEW n,
         NumberedIn(s, c, l, p, h, n), NEW m, NEW n2,
         IF IsData(m, s, c) THEN m.number = n + 1 /\ n2 = n + 1 ELSE n2 = n
  PROVE  NumberedIn(s, c, l, Append(p, m), h, n2)
<1>1. PICK A, B : A = NumbersOf(s, c, l) /\ B = NumbersOf(s, c, p)
  OBVIOUS
<1>2. PICK N : /\ N = NumberOf(s, c, m)
               /\ N = IF IsData(m, s, c) THEN {m.number} ELSE {}
  BY DEF NumberOf
<1>3. h \in Nat /\ n \in Nat /\ h <= n /\ A \cup B = h + 1 .. n /\ Below(A, B)
  BY <1>1 DEF NumberedIn
<1>4. /\ NumbersOf(s, c, Append(p, m)) = B \cup N
      /\ Below(B, N) => Increasing(s, c, Append(p, m))
  <2>1. Increasing(s, c, p)
    BY DEF NumberedIn
  <2>2. /\ NumbersOf(s, c, Append(p, m)) = NumbersOf(s, c, p) \cup N
        /\ Increasing(s, c, p) /\ Below(NumbersOf(s, c, p), N) => Increasing(s, c, Append(p, m))
    BY <1>2, AppendNumbered
  <2>3. QED
    BY <1>1, <2>1, <2>2
<1>5. Below(B, N) /\ Below(A, B \cup N)
  BY <1>2, <1>3 DEF Below
<1>6. A \cup (B \cup N) = h + 1 .. n2 /\ n2 \in Nat /\ h <= n2
  BY <1>2, <1>3
<1>7. QED
  BY <1>1, <1>3, <1>4, <1>5, <1>6 DEF NumberedIn

\* The message in front is handled, and left in the local queue if it is a payload of c's.
LEMMA NumberedHandled ==
  ASSUME NEW s, NEW c, NEW l \in Queued, NEW p \in Seq(Messages), p # <<>>, NEW h, NEW n,
         NumberedIn(s, c, l, p, h, n), NEW l2,
         \/ l2 = Append(l, Head(p))
         \/ ~IsData(Head(p), s, c) /\ (l2 = l \/ l2 = Append(l, LocalDisconnect))
  PROVE  NumberedIn(s, c, l2, Tail(p), h, n)
<1>1. PICK A, B, B2 : /\ A = NumbersOf(s, c, l) /\ B = NumbersOf(s, c, p)
                      /\ B2 = NumbersOf(s, c, Tail(p))
  OBVIOUS
<1>2. PICK N : /\ N = NumberOf(s, c, Head(p))
               /\ N = IF IsData(Head(p), s, c) THEN {Head(p).number} ELSE {}
  BY DEF NumberOf
<1>3. h \in Nat /\ n \in Nat /\ h <= n /\ A \cup B = h + 1 .. n /\ Below(A, B)
  BY <1>1 DEF NumberedIn
<1>4. B = N \cup B2 /\ Increasing(s, c, Tail(p)) /\ Below(N, B2)
  BY <1>1, <1>2, TailNumbered DEF NumberedIn
<1>5. NumbersOf(s, c, l2) = A \cup N /\ Increasing(s, c, l2)
  <2>1. Increasing(s, c, l) /\ Below(A, N)
    BY <1>3, <1>4 DEF NumberedIn, Below
  <2>2. CASE l2 = Append(l, Head(p))
    BY <1>1, <1>2, <2>1, <2>2, AppendNumbered DEF Queued
  <2>3. CASE ~IsData(Head(p), s, c) /\ l2 = l
    BY <1>1, <1>2, <2>1, <2>3
  <2>4. CASE ~IsData(Head(p), s, c) /\ l2 = Append(l, LocalDisconnect)
    <3>1. PICK d : d = LocalDisconnect
      OBVIOUS
    <3>2. N = {} /\ NumberOf(s, c, d) = {}
      BY <1>2, <2>4, <3>1 DEF NumberOf, IsData, LocalDisconnect
    <3>3. l2 = Append(l, d)
      BY <2>4, <3>1
    <3>4. /\ NumbersOf(s, c, Append(l, d)) = NumbersOf(s, c, l) \cup NumberOf(s, c, d)
          /\ Increasing(s, c, l) /\ Below(NumbersOf(s, c, l), NumberOf(s, c, d))
               => Increasing(s, c, Append(l, d))
      BY AppendNumbered DEF Queued
    <3>5. QED
      BY <1>1, <2>1, <3>2, <3>3, <3>4
  <2>5. QED
    BY <2>2, <2>3, <2>4
<1>6. Below(A \cup N, B2) /\ (A \cup N) \cup B2 = h + 1 .. n
  BY <1>3, <1>4 DEF Below
<1>7. QED
  BY <1>1, <1>3, <1>4, <1>5, <1>6 DEF NumberedIn

\* The first in the local queue is taken, and received if it is a payload of c's.
LEMMA NumberedReceived ==
  ASSUME NEW s, NEW c, NEW l \in Queued, NEW p \in Seq(Messages), l # <<>>, NEW h, NEW n,
         NumberedIn(s, c, l, p, h, n), NEW h2,
         h2 = IF IsData(Head(l), s, c) THEN Head(l).number ELSE h
  PROVE  NumberedIn(s, c, Tail(l), p, h2, n)
<1>1. PICK A, A2, B : /\ A = NumbersOf(s, c, l) /\ B = NumbersOf(s, c, p)
                      /\ A2 = NumbersOf(s, c, Tail(l))
  OBVIOUS
<1>2. PICK N : /\ N = NumberOf(s, c, Head(l))
               /\ N = IF IsData(Head(l), s, c) THEN {Head(l).number} ELSE {}
  BY DEF NumberOf
<1>3. h \in Nat /\ n \in Nat /\ h <= n /\ A \cup B = h + 1 .. n /\ Below(A, B)
  BY <1>1 DEF NumberedIn
<1>4. A = N \cup A2 /\ Increasing(s, c, Tail(l)) /\ Below(N, A2)
  <2>1. Increasing(s, c, l) /\ l \in Seq(Messages \cup {LocalDisconnect})
    BY DEF NumberedIn, Queued
  <2>2. /\ NumbersOf(s, c, l) = N \cup NumbersOf(s, c, Tail(l))
        /\ Increasing(s, c, l) => /\ Increasing(s, c, Tail(l))
                                  /\ Below(N, NumbersOf(s, c, Tail(l)))
    BY <1>2, <2>1, TailNumbered
  <2>3. QED
    BY <1>1, <2>1, <2>2
<1>5. Below(A2, B)
  BY <1>3, <1>4 DEF Below
<1>6. h2 \in Nat /\ h2 <= n /\ A2 \cup B = h2 + 1 .. n
  <2>1. CASE ~IsData(Head(l), s, c)
    BY <1>2, <1>3, <1>4, <2>1
  <2>2. CASE IsData(Head(l), s, c)
    <3>1. N = {h2} /\ h2 \in h + 1 .. n
      BY <1>2, <1>3, <1>4, <2>2
    <3>2. \A k \in A2 \cup B : h2 < k /\ k \in h + 1 .. n
      BY <1>3, <1>4, <3>1 DEF Below
    <3>3. h + 1 \in {h2} \cup (A2 \cup B)
      BY <1>3, <1>4, <3>1
    <3>4. h2 = h + 1
      BY <1>3, <3>1, <3>2, <3>3
    <3>5. \A k \in h2 + 1 .. n : k \in A2 \cup B
      BY <1>3, <1>4, <3>1, <3>4
    <3>6. \A k \in A2 \cup B : k \in h2 + 1 .. n
      BY <1>3, <3>1, <3>2
    <3>7. QED
      BY <1>3, <3>1, <3>5, <3>6
  <2>3. QED
    BY <2>1, <2>2
<1>7. QED
  BY <1>1, <1>3, <1>4, <1>5, <1>6 DEF NumberedIn

-----------------------------------------------------------------------------
(* The local queues.                                                       *)

\* A local queue l has payloads for s, and at the end of it perhaps what a state machine
\* that has not got its sender any more has put into it.
LocalOf(s, l, open) ==
  \A i \in DOMAIN l : \/ l[i].type = "Data" /\ l[i].sub = s /\ l[i].client \in Clients
                      \/ l[i] = LocalDisconnect /\ i = Len(l) /\ ~open

LocalInOrder == \A s \in Subs : ~RxGone(s) => LocalOf(s, local[s], sm[s].maybe)

\* A thread that is about to drop its subreceiver, or has dropped it.
Leaving == {"drain", "broadcast", "drain_again", "close", "dropped"}

Droppers == \A s \in Subs : at[s] \in Leaving => s \in Dropping

LEMMA LocalData ==
  ASSUME NEW s, NEW l \in Queued, NEW m, LocalOf(s, l, TRUE),
         m.type = "Data" /\ m.sub = s /\ m.client \in Clients
  PROVE  LocalOf(s, Append(l, m), TRUE)
<1>1. \A i \in DOMAIN l : l[i].type = "Data" /\ l[i].sub = s /\ l[i].client \in Clients
  BY DEF LocalOf
<1>2. /\ DOMAIN Append(l, m) = DOMAIN l \cup {Len(l) + 1}
      /\ \A i \in DOMAIN l : Append(l, m)[i] = l[i]
      /\ Append(l, m)[Len(l) + 1] = m
  BY AppendIndexed DEF Queued
<1>3. QED
  BY <1>1, <1>2 DEF LocalOf

LEMMA LocalClosed ==
  ASSUME NEW s, NEW l \in Queued, LocalOf(s, l, TRUE)
  PROVE  LocalOf(s, Append(l, LocalDisconnect), FALSE)
<1>1. \A i \in DOMAIN l : l[i].type = "Data" /\ l[i].sub = s /\ l[i].client \in Clients
  BY DEF LocalOf
<1>2. PICK p : p = Append(l, LocalDisconnect)
  OBVIOUS
<1>3. /\ DOMAIN p = DOMAIN l \cup {Len(l) + 1} /\ Len(p) = Len(l) + 1
      /\ \A i \in DOMAIN l : p[i] = l[i]
      /\ p[Len(l) + 1] = LocalDisconnect
  BY <1>2, AppendIndexed DEF Queued
<1>4. LocalOf(s, p, FALSE)
  BY <1>1, <1>3 DEF LocalOf
<1>5. QED
  BY <1>2, <1>4

LEMMA LocalTaken ==
  ASSUME NEW s, NEW l \in Queued, l # <<>>, NEW open, LocalOf(s, l, open)
  PROVE  /\ LocalOf(s, Tail(l), open)
         /\ \/ Head(l).type = "Data" /\ Head(l).sub = s /\ Head(l).client \in Clients
            \/ Head(l).type # "Data" /\ Tail(l) = <<>> /\ ~open
<1>1. /\ Len(l) \in Nat /\ Len(l) > 0
      /\ DOMAIN l = 1 .. Len(l) /\ DOMAIN Tail(l) = 1 .. Len(l) - 1
      /\ \A i \in DOMAIN Tail(l) : Tail(l)[i] = l[i + 1]
      /\ Head(l) = l[1] /\ Len(Tail(l)) = Len(l) - 1
  BY TailIndexed DEF Queued
<1>2. /\ 1 \in DOMAIN l /\ \A i \in DOMAIN Tail(l) : i + 1 \in DOMAIN l
      /\ \A i \in DOMAIN Tail(l) : i + 1 = Len(l) => i = Len(Tail(l))
      /\ 1 = Len(l) => Len(Tail(l)) = 0
  BY <1>1
<1>3. LocalOf(s, Tail(l), open)
  BY <1>1, <1>2 DEF LocalOf
<1>4. CASE Head(l) = LocalDisconnect /\ 1 = Len(l) /\ ~open
  <2>1. Tail(l) = <<>>
    <3>1. Tail(l) \in Queued /\ Len(Tail(l)) = 0
      <4>1. Tail(l) \in Queued
        BY TailIndexed DEF Queued
      <4>2. Len(Tail(l)) = 0
        BY <1>2, <1>4
      <4>3. QED
        BY <4>1, <4>2
    <3>2. QED
      BY <3>1, EmptySeq DEF Queued
  <2>2. QED
    BY <1>3, <1>4, <2>1 DEF LocalDisconnect
<1>5. QED
  BY <1>1, <1>2, <1>3, <1>4 DEF LocalOf

\* Handling what comes next does this to the state machine and the local queue of s.  A
\* payload finds the state machine with a sender.
LEMMA LocalHandled ==
  ASSUME TypeOK, Tracked, Pipe \in Seq(Messages), Pipe # <<>>,
         NEW m \in Messages, m = Head(Pipe), Handle(m), NEW s \in Subs, ~RxGone(s)
  PROVE  \/ /\ m.type = "Data" /\ m.sub = s /\ m.client \in Clients /\ sm[s].maybe
            /\ sm'[s] = sm[s] /\ local'[s] = Append(local[s], m)
         \/ /\ \A c : ~IsData(m, s, c)
            /\ \/ local'[s] = local[s] /\ (sm'[s].maybe <=> sm[s].maybe)
               \/ /\ local'[s] = Append(local[s], LocalDisconnect)
                  /\ sm[s].maybe /\ ~sm'[s].maybe
<1>0. /\ sm \in [Subs -> Machines] /\ local \in [Subs -> Queued]
  BY DEF TypeOK, Machines, Queued
<1>1. CASE m.type = "Connect"
  BY <1>1 DEF Handle, HandleConnect, IsData
<1>2. CASE m.type = "Received"
  <2>1. m.sub \in Subs /\ m.client \in Clients
    BY <1>2, MessagesTyped
  <2>2. local' = local /\ sm' = [sm EXCEPT ![m.sub] = SM!Received(sm[m.sub], Transit, m.client)]
    BY <1>2 DEF Handle, HandleReceived
  <2>3. sm'[s].maybe = sm[s].maybe
    BY <1>0, <2>1, <2>2, MachineSteps
  <2>4. QED
    BY <1>2, <2>2, <2>3 DEF IsData
<1>3. CASE m.type = "Data"
  <2>1. m.sub \in Subs /\ m.client \in Clients
    BY <1>3, MessagesTyped
  <2>2. sm' = sm
    BY <1>3 DEF Handle, HandleData
  <2>3. CASE m.sub # s
    <3>1. local'[s] = local[s]
      BY <1>0, <1>3, <2>3 DEF Handle, HandleData
    <3>2. QED
      BY <2>2, <2>3, <3>1 DEF IsData
  <2>4. CASE m.sub = s
    <3>1. sm[s].maybe
      <4>1. TrackedIn(s, Pipe, sm[s], holds, joining)
        BY DEF Tracked
      <4>2. 1 \in DOMAIN Pipe /\ Pipe[1] = m
        BY TailIndexed
      <4>3. Uses(Pipe[1], s, m.client)
        BY <1>3, <2>4, <4>2 DEF Uses
      <4>4. QED
        BY <2>1, <4>1, <4>2, <4>3, NotTaken
    <3>2. local' = [local EXCEPT ![s] = Append(local[s], m)]
      BY <1>3, <2>4, <3>1 DEF Handle, HandleData
    <3>3. local'[s] = Append(local[s], m)
      BY <1>0, <3>2
    <3>4. QED
      BY <1>3, <2>1, <2>2, <2>4, <3>1, <3>3
  <2>5. QED
    BY <2>3, <2>4
<1>4. CASE m.type = "Disconnect"
  <2>1. m.sub \in Subs /\ m.client \in Clients /\ \A c : ~IsData(m, s, c)
    BY <1>4, MessagesTyped DEF IsData
  <2>2. PICK y : y = SM!Disconnect(sm[m.sub], m.client)
    OBVIOUS
  <2>3. /\ sm' = [sm EXCEPT ![m.sub] = y]
        /\ local' = IF sm[m.sub].maybe /\ ~y.maybe /\ ~RxGone(m.sub)
                    THEN [local EXCEPT ![m.sub] = Append(local[m.sub], LocalDisconnect)]
                    ELSE local
    BY <1>4, <2>2 DEF Handle, HandleDisconnect
  <2>4. CASE m.sub # s
    <3>1. local'[s] = local[s] /\ sm'[s] = sm[s]
      BY <1>0, <2>1, <2>3, <2>4
    <3>2. QED
      BY <2>1, <3>1
  <2>5. CASE m.sub = s
    <3>1. sm'[s] = y
      BY <1>0, <2>3, <2>5
    <3>2. y.maybe => sm[s].maybe
      BY <1>0, <2>1, <2>2, <2>5, MachineSteps
    <3>3. CASE sm[s].maybe /\ ~y.maybe
      <4>1. local'[s] = Append(local[s], LocalDisconnect)
        BY <1>0, <2>3, <2>5, <3>3
      <4>2. QED
        BY <2>1, <3>1, <3>3, <4>1
    <3>4. CASE ~(sm[s].maybe /\ ~y.maybe)
      <4>1. local'[s] = local[s]
        BY <2>3, <2>5, <3>4
      <4>2. QED
        BY <2>1, <3>1, <3>2, <3>4, <4>1
    <3>5. QED
      BY <3>3, <3>4
  <2>6. QED
    BY <2>4, <2>5
<1>5. QED
  BY <1>1, <1>2, <1>3, <1>4, MessagesTyped

\* While no subreceiver has been dropped, nothing that is handled fails.
LEMMA NothingFails ==
  ASSUME TypeOK, Tracked, Pipe \in Seq(Messages), Pipe # <<>>,
         NEW m \in Messages, m = Head(Pipe), Handle(m), \A s \in Subs : ~RxGone(s)
  PROVE  ~HandleFails(m)
<1>1. CASE m.type = "Data"
  <2>1. m.sub \in Subs
    BY <1>1, MessagesTyped
  <2>2. IsData(m, m.sub, m.client)
    BY <1>1 DEF IsData
  <2>3. sm[m.sub].maybe
    BY <2>1, <2>2, LocalHandled
  <2>4. QED
    BY <1>1, <2>1, <2>3 DEF HandleFails
<1>2. CASE m.type = "Disconnect"
  <2>1. m.sub \in Subs
    BY <1>2, MessagesTyped
  <2>2. QED
    BY <1>2, <2>1 DEF HandleFails
<1>3. CASE m.type \notin {"Data", "Disconnect"}
  BY <1>3 DEF HandleFails
<1>4. QED
  BY <1>1, <1>2, <1>3

LEMMA GoneForGood ==
  ASSUME TypeOK, [Next]_vars, NEW s \in Subs, RxGone(s)
  PROVE  RxGone(s)'
<1>0. at \in [Subs -> Labels] /\ at[s] = "dropped"
  BY DEF TypeOK, Labels, RxGone
<1>1. ASSUME NEW t \in Subs,
             (\E method \in Methods : Call(t, method)) \/ ThreadStep(t) \/ Drop(t)
      PROVE  t # s /\ \E label \in Labels : at' = [at EXCEPT ![t] = label]
  <2>1. t # s
    BY <1>0, <1>1 DEF Call, Drop, Between, ThreadStep, TakeLocal, FindNothing, LockDemuxer,
       LockFails, WaitEnds, ReceiveFromIpc, ReceiveTimesOut, HandleInHand, DeadlinePasses,
       TryReceive, StillEmpty, Drain, AfterDrain, Broadcast, Close
  <2>2. CASE TryReceive(t) \/ Drain(t)
    <3>1. CASE TryReceive(t)
      BY <2>1, <3>1 DEF TryReceive, GoOn, Return, GoTo, Labels
    <3>2. CASE Drain(t)
      BY <2>1, <3>2 DEF Drain, AfterDrain, GoOn, GoTo, Labels
    <3>3. QED
      BY <2>1, <2>2, <3>1, <3>2
  <2>3. CASE ~(TryReceive(t) \/ Drain(t))
    <3>1. \E label \in Labels : GoTo(t, label)
      BY <1>1, <2>3 DEF Call, Drop, ThreadStep, TakeLocal, FindNothing, LockDemuxer, LockFails,
         WaitEnds, ReceiveFromIpc, ReceiveTimesOut, HandleInHand, DeadlinePasses, StillEmpty,
         Broadcast, Close, GoOn, Return, Labels
    <3>2. QED
      BY <2>1, <3>1 DEF GoTo
  <2>4. QED
    BY <2>1, <2>2, <2>3
<1>2. CASE \/ \E c \in Clients : ClientStep(c)
           \/ \E g \in Guests : BeginJoin(g) \/ EndJoin(g)
           \/ UNCHANGED vars
  <2>1. UNCHANGED at
    BY <1>2 DEF ClientStep, BeginSend, DropSender, EndSend, BeginJoin, EndJoin, vars, receiverVars
  <2>2. QED
    BY <2>1 DEF RxGone
<1>3. CASE Next /\ ~(\/ \E c \in Clients : ClientStep(c)
                     \/ \E g \in Guests : BeginJoin(g) \/ EndJoin(g))
  <2>1. PICK t \in Subs : (\E method \in Methods : Call(t, method)) \/ ThreadStep(t) \/ Drop(t)
    BY <1>3 DEF Next
  <2>2. QED
    BY <1>0, <1>1, <2>1 DEF RxGone
<1>4. QED
  BY <1>2, <1>3

Numbered ==
  \A s \in Subs : ~RxGone(s) =>
    \A c \in Clients : NumberedIn(s, c, local[s], Pipe, got[s][c], sent[c][s])

LEMMA QueuesInit == Init => LocalInOrder /\ Numbered
<1> SUFFICES ASSUME Init PROVE LocalInOrder /\ Numbered
  OBVIOUS
<1>1. Pipe = <<>>
  <2>1. InHand = <<>> /\ ipc = <<>>
    BY DEF Init, InHand
  <2>2. QED
    BY <2>1 DEF Pipe
<1>2. \A s \in Subs : LocalOf(s, <<>>, sm[s].maybe)
  BY DEF LocalOf
<1>3. ASSUME NEW s, NEW c PROVE NumberedIn(s, c, <<>>, <<>>, 0, 0)
  <2>1. DataOf(s, c, <<>>) = {}
    BY DEF DataOf
  <2>2. NumbersOf(s, c, <<>>) = {} /\ Increasing(s, c, <<>>)
    BY <2>1 DEF NumbersOf, Increasing
  <2>3. QED
    BY <2>2 DEF NumberedIn, Below
<1>4. \A s \in Subs : local[s] = <<>> /\ \A c \in Clients : got[s][c] = 0 /\ sent[c][s] = 0
  BY DEF Init
<1>5. QED
  BY <1>1, <1>2, <1>3, <1>4 DEF LocalInOrder, Numbered

LEMMA QueuesClient ==
  ASSUME TypeOK, Locked, SendsWhatItHas, LocalInOrder, Numbered,
         \/ \E c \in Clients : ClientStep(c)
         \/ \E g \in Guests : BeginJoin(g) \/ EndJoin(g)
  PROVE  LocalInOrder' /\ Numbered'
<1> USE DEF demuxerVars, receiverVars, clientVars
<1>0. /\ sending \in [Clients -> Subs \cup {NoSub}] /\ sent \in [Clients -> [Subs -> Nat]]
      /\ local \in [Subs -> Queued] /\ Pipe \in Seq(Messages)
  BY PipeTyped DEF TypeOK, Queued
<1>1. UNCHANGED <<local, sm, at, got, demuxer, hand>>
  BY DEF ClientStep, BeginSend, DropSender, EndSend, BeginJoin, EndJoin
<1>2. LocalInOrder'
  BY <1>1 DEF LocalInOrder, RxGone
<1>3. ASSUME NEW m \in Messages, Put(m), m.type # "Data", sent' = sent
      PROVE  Numbered'
  <2>1. Pipe' = Append(Pipe, m)
    BY <1>1, <1>3, PipePut
  <2>2. ASSUME NEW s \in Subs, ~RxGone(s), NEW c \in Clients
        PROVE  NumberedIn(s, c, local[s], Append(Pipe, m), got[s][c], sent[c][s])
    <3>1. NumberedIn(s, c, local[s], Pipe, got[s][c], sent[c][s])
      BY <2>2 DEF Numbered
    <3>2. ~IsData(m, s, c)
      BY <1>3 DEF IsData
    <3>3. QED
      BY <1>0, <3>1, <3>2, NumberedPut
  <2>3. QED
    BY <1>1, <1>3, <2>1, <2>2 DEF Numbered, RxGone
<1>4. ASSUME ipc' = ipc, sent' = sent
      PROVE  Numbered'
  BY <1>1, <1>4 DEF Numbered, RxGone, Pipe, InHand
<1>5. ASSUME NEW g \in Guests, BeginJoin(g) \/ EndJoin(g)
      PROVE  Numbered'
  <2>1. PICK m \in Messages : Put(m) /\ m.type # "Data"
    <3>1. g \in Clients /\ On[g] \in Subs
      BY DemuxAssumption, MessagesTyped
    <3>2. /\ Connect(g) \in Messages /\ Connect(g).type # "Data"
          /\ Received(On[g], g) \in Messages /\ Received(On[g], g).type # "Data"
      BY <3>1, MessagesTyped DEF Connect, Received
    <3>3. QED
      BY <1>5, <3>2 DEF BeginJoin, EndJoin
  <2>2. sent' = sent
    BY <1>5 DEF BeginJoin, EndJoin
  <2>3. QED
    BY <1>3, <2>1, <2>2
<1>6. ASSUME NEW c \in Clients, NEW s \in Subs, BeginSend(c, s) \/ DropSender(c, s)
      PROVE  Numbered'
  <2>1. sent' = sent /\ (ipc' = ipc \/ Put(Disconnect(s, c)))
    BY <1>6 DEF BeginSend, DropSender
  <2>2. Disconnect(s, c) \in Messages /\ Disconnect(s, c).type # "Data"
    BY MessagesTyped DEF Disconnect
  <2>3. QED
    BY <1>3, <1>4, <2>1, <2>2
<1>7. ASSUME NEW c \in Clients, EndSend(c)
      PROVE  Numbered'
  <2>1. PICK s \in Subs : s = sending[c]
    BY <1>0, <1>7 DEF EndSend
  <2>2. PICK n \in Nat : n = sent[c][s]
    <3>1. sent[c] \in [Subs -> Nat]
      BY <1>0
    <3>2. QED
      BY <3>1
  <2>3. sent' = [sent EXCEPT ![c][s] = n + 1] /\ Put(Data(s, c, sent'[c][s]))
    BY <1>7, <2>1, <2>2 DEF EndSend
  <2>4. \A d \in Clients, t \in Subs :
          sent'[d][t] = IF d = c /\ t = s THEN n + 1 ELSE sent[d][t]
    <3>1. \A d \in Clients : sent[d] \in [Subs -> Nat]
      BY <1>0
    <3>2. \A d \in Clients : sent'[d] = IF d = c THEN [sent[c] EXCEPT ![s] = n + 1] ELSE sent[d]
      BY <1>0, <2>3
    <3>3. QED
      BY <3>1, <3>2
  <2>5. PICK m \in Messages : m = Data(s, c, n + 1)
    BY <2>1, MessagesTyped
  <2>6. Pipe' = Append(Pipe, m)
    <3>1. Put(m)
      BY <2>3, <2>4, <2>5
    <3>2. QED
      BY <1>1, <3>1, PipePut
  <2>7. ASSUME NEW t \in Subs, ~RxGone(t), NEW d \in Clients
        PROVE  NumberedIn(t, d, local[t], Append(Pipe, m), got[t][d], sent'[d][t])
    <3>1. NumberedIn(t, d, local[t], Pipe, got[t][d], sent[d][t])
      BY <2>7 DEF Numbered
    <3>2. IsData(m, t, d) <=> t = s /\ d = c
      BY <2>5 DEF IsData, Data
    <3>3. m.number = n + 1
      BY <2>5 DEF Data
    <3>4. CASE t = s /\ d = c
      <4>1. sent[d][t] = n /\ sent'[d][t] = n + 1
        BY <2>2, <2>4, <3>4
      <4>2. QED
        BY <1>0, <3>1, <3>2, <3>3, <3>4, <4>1, NumberedPut
    <3>5. CASE ~(t = s /\ d = c)
      <4>1. sent'[d][t] = sent[d][t]
        BY <2>4, <3>5
      <4>2. QED
        BY <1>0, <3>1, <3>2, <3>5, <4>1, NumberedPut
    <3>6. QED
      BY <3>4, <3>5
  <2>8. QED
    BY <1>1, <2>6, <2>7 DEF Numbered, RxGone
<1>8. QED
  BY <1>2, <1>5, <1>6, <1>7 DEF ClientStep

LEMMA QueuesReceiver ==
  ASSUME TypeOK, Locked, Tracked, LocalInOrder, Numbered, [Next]_vars, NEW s \in Subs,
         (\E method \in Methods : Call(s, method)) \/ ThreadStep(s) \/ Drop(s)
  PROVE  LocalInOrder' /\ Numbered'
<1> USE DEF demuxerVars, receiverVars, clientVars, Threaded
<1>0. /\ local \in [Subs -> Queued] /\ got \in [Subs -> [Clients -> Nat]]
      /\ Pipe \in Seq(Messages) /\ at \in [Subs -> Labels]
  BY PipeTyped DEF TypeOK, Queued, Labels
<1>1. /\ \A t \in Subs : RxGone(t) => RxGone(t)'
      /\ sent' = sent
  BY GoneForGood DEF Call, Drop, ThreadStep, TakeLocal, FindNothing, LockDemuxer, LockFails,
     WaitEnds, ReceiveFromIpc, ReceiveTimesOut, HandleInHand, DeadlinePasses, TryReceive,
     StillEmpty, Drain, Broadcast, Close
<1>2. ASSUME NEW t \in Subs, ~RxGone(t)
      PROVE  /\ LocalOf(t, local[t], sm[t].maybe)
             /\ \A c \in Clients : NumberedIn(t, c, local[t], Pipe, got[t][c], sent[c][t])
  BY <1>2 DEF LocalInOrder, Numbered
<1>3. CASE Takes(s)
  <2>1. got' = got
    BY <1>3 DEF Takes, HandleInHand, TryReceive, Drain
  <2>2. PICK p \in Seq(Messages) : p = Pipe
    BY <1>0
  <2>3. PICK m \in Messages : m = Head(p) /\ p # <<>> /\ Handle(m) /\ Pipe' = Tail(p)
    BY <1>3, <2>2, PipeTaken, TailIndexed
  <2>4. ASSUME NEW t \in Subs, ~RxGone(t)'
        PROVE  /\ LocalOf(t, local'[t], sm'[t].maybe)
               /\ \A c \in Clients : NumberedIn(t, c, local'[t], Tail(p), got[t][c], sent[c][t])
    <3>0. /\ ~RxGone(t) /\ local[t] \in Queued
          /\ LocalOf(t, local[t], sm[t].maybe) /\ sm[t].maybe \in BOOLEAN
          /\ \A c \in Clients : NumberedIn(t, c, local[t], p, got[t][c], sent[c][t])
      BY <1>0, <1>1, <1>2, <2>2, <2>4, MachineSteps, MessagesTyped DEF TypeOK, Machines
    <3>1. CASE /\ m.type = "Data" /\ m.sub = t /\ m.client \in Clients /\ sm[t].maybe
               /\ sm'[t] = sm[t] /\ local'[t] = Append(local[t], m)
      <4>1. LocalOf(t, local[t], TRUE)
        BY <3>0, <3>1
      <4>2. LocalOf(t, Append(local[t], m), TRUE)
        BY <3>0, <3>1, <4>1, LocalData
      <4>3. LocalOf(t, local'[t], sm'[t].maybe)
        BY <3>0, <3>1, <4>2
      <4>4. \A c \in Clients : NumberedIn(t, c, local'[t], Tail(p), got[t][c], sent[c][t])
        BY <2>3, <3>0, <3>1, NumberedHandled
      <4>5. QED
        BY <4>3, <4>4
    <3>2. CASE /\ \A c : ~IsData(m, t, c)
               /\ local'[t] = local[t] /\ (sm'[t].maybe <=> sm[t].maybe)
      <4>1. LocalOf(t, local'[t], sm'[t].maybe)
        BY <3>0, <3>2 DEF LocalOf
      <4>2. \A c \in Clients : NumberedIn(t, c, local'[t], Tail(p), got[t][c], sent[c][t])
        BY <2>3, <3>0, <3>2, NumberedHandled
      <4>3. QED
        BY <4>1, <4>2
    <3>3. CASE /\ \A c : ~IsData(m, t, c)
               /\ local'[t] = Append(local[t], LocalDisconnect)
               /\ sm[t].maybe /\ ~sm'[t].maybe
      <4>1. LocalOf(t, local[t], TRUE)
        BY <3>0, <3>3
      <4>2. LocalOf(t, Append(local[t], LocalDisconnect), FALSE)
        BY <3>0, <4>1, LocalClosed
      <4>3. LocalOf(t, local'[t], sm'[t].maybe)
        BY <3>3, <4>2 DEF LocalOf
      <4>4. \A c \in Clients : NumberedIn(t, c, local'[t], Tail(p), got[t][c], sent[c][t])
        BY <2>3, <3>0, <3>3, NumberedHandled
      <4>5. QED
        BY <4>3, <4>4
    <3>4. QED
      BY <2>2, <2>3, <3>0, <3>1, <3>2, <3>3, LocalHandled
  <2>5. QED
    BY <1>1, <2>1, <2>3, <2>4 DEF LocalInOrder, Numbered
<1>4. ASSUME ~Takes(s), \A t \in Subs : ~RxGone(t)' => local'[t] = local[t] /\ got'[t] = got[t]
      PROVE  LocalInOrder' /\ Numbered'
  BY <1>1, <1>4, PipeQuiet DEF LocalInOrder, Numbered
<1>5. CASE ~Takes(s) /\ ~TakeLocal(s) /\ ~Close(s)
  <2>1. local' = local /\ got' = got
    BY <1>5 DEF Takes, Call, Drop, ThreadStep, FindNothing, LockDemuxer, LockFails,
     WaitEnds, ReceiveFromIpc, ReceiveTimesOut, DeadlinePasses, TryReceive,
     StillEmpty, Drain, Broadcast
  <2>2. QED
    BY <1>4, <1>5, <2>1
<1>6. CASE Close(s)
  <2>1. ~Takes(s)
    BY <1>6 DEF Takes, Close, HandleInHand, TryReceive, Drain, AfterDrain
  <2>2. RxGone(s)' /\ got' = got /\ \A t \in Subs : t # s => local'[t] = local[t]
    BY <1>0, <1>6 DEF Close, GoOn, GoTo, RxGone
  <2>3. QED
    BY <1>4, <2>1, <2>2
<1>7. CASE TakeLocal(s)
  <2>1. ~Takes(s)
    BY <1>7 DEF Takes, TakeLocal, HandleInHand, TryReceive, Drain, AfterDrain
  <2>2. CASE local[s] = <<>>
    <3>1. got' = got /\ \A t \in Subs : local'[t] = local[t]
      BY <1>0, <1>7, <2>2 DEF TakeLocal
    <3>2. QED
      BY <1>4, <2>1, <3>1
  <2>3. CASE local[s] # <<>>
    <3>1. PICK l \in Queued : l = local[s] /\ l # <<>>
      BY <1>0, <2>3
    <3>2. ~RxGone(s) /\ LocalOf(s, l, sm[s].maybe)
      BY <1>2, <1>7, <3>1 DEF TakeLocal, RxGone
    <3>3. /\ LocalOf(s, Tail(l), sm[s].maybe)
          /\ \/ Head(l).type = "Data" /\ Head(l).sub = s /\ Head(l).client \in Clients
             \/ Head(l).type # "Data"
      BY <3>1, <3>2, LocalTaken
    <3>4. /\ local' = [local EXCEPT ![s] = Tail(l)]
          /\ IF Head(l).type = "Data"
             THEN got' = [got EXCEPT ![s][Head(l).client] = Head(l).number] ELSE got' = got
      BY <1>0, <1>7, <3>1 DEF TakeLocal
    <3>5. \A t \in Subs : /\ t # s => local'[t] = local[t] /\ got'[t] = got[t]
                          /\ t = s => local'[t] = Tail(l)
      BY <1>0, <3>4
    <3>6. \A c \in Clients : got'[s][c] = IF IsData(Head(l), s, c) THEN Head(l).number ELSE got[s][c]
      <4>1. got[s] \in [Clients -> Nat]
        BY <1>0
      <4>2. CASE Head(l).type = "Data"
        <5>1. got'[s] = [got[s] EXCEPT ![Head(l).client] = Head(l).number]
          BY <1>0, <3>4, <4>2
        <5>2. QED
          BY <3>3, <4>1, <4>2, <5>1 DEF IsData
      <4>3. CASE Head(l).type # "Data"
        BY <3>4, <4>3 DEF IsData
      <4>4. QED
        BY <4>2, <4>3
    <3>7. Pipe' = Pipe /\ sm' = sm
      BY <2>1, PipeQuiet
    <3>8. \A c \in Clients : NumberedIn(s, c, Tail(l), Pipe, got'[s][c], sent[c][s])
      <4>1. SUFFICES ASSUME NEW c \in Clients
                     PROVE  NumberedIn(s, c, Tail(l), Pipe, got'[s][c], sent[c][s])
        OBVIOUS
      <4>2. NumberedIn(s, c, l, Pipe, got[s][c], sent[c][s])
        BY <1>2, <3>1, <3>2
      <4>3. QED
        BY <1>0, <3>1, <3>6, <4>2, NumberedReceived
    <3>9. QED
      BY <1>1, <1>2, <3>3, <3>5, <3>7, <3>8 DEF LocalInOrder, Numbered
  <2>4. QED
    BY <2>2, <2>3
<1>8. QED
  BY <1>3, <1>5, <1>6, <1>7

LEMMA QueuesAlways == Spec => [](LocalInOrder /\ Numbered)
<1>1. TypeOK /\ Locked /\ Tracked /\ SendsWhatItHas /\ LocalInOrder /\ Numbered /\ [Next]_vars
        => LocalInOrder' /\ Numbered'
  <2>1. CASE UNCHANGED vars
    BY <2>1 DEF vars, demuxerVars, receiverVars, clientVars, LocalInOrder, Numbered, RxGone,
                Pipe, InHand
  <2>2. QED
    BY <2>1, QueuesClient, QueuesReceiver DEF Next
<1>2. QED
  BY <1>1, QueuesInit, TypedAlways, TrackedAlways, PTL DEF Spec

\* Between a client and a thread that receives, no payload gets lost, doubled or out of
\* order, whichever threads take it out of the IPC channel, and whichever subreceivers of
\* other subchannels are dropped (InOrder in Demux).
THEOREM ReceivedInOrder == Spec => []InOrder
<1>1. ASSUME TypeOK, Locked, Numbered PROVE InOrder
  <2>1. SUFFICES ASSUME NEW s \in Subs, ~RxGone(s), NEW c \in Clients,
                        NEW q, q = OnTheWay(s)
                 PROVE  /\ got[s][c] <= sent[c][s]
                        /\ {q[i].number : i \in DataOf(s, c, q)} = got[s][c] + 1 .. sent[c][s]
                        /\ \A i, j \in DataOf(s, c, q) : i < j => q[i].number < q[j].number
    BY DEF InOrder
  <2>2. NumberedIn(s, c, local[s], Pipe, got[s][c], sent[c][s])
    BY <1>1, <2>1 DEF Numbered
  <2>3. PICK S : S = Messages \cup {LocalDisconnect}
    OBVIOUS
  <2>4. /\ local[s] \in Seq(S) /\ ipc \in Seq(S) /\ Pipe \in Seq(S) /\ InHand \in Seq(S)
    <3>1. local[s] \in Seq(S)
      BY <1>1, <2>3 DEF TypeOK
    <3>2. ipc \in Seq(Messages) /\ Pipe \in Seq(Messages)
      BY <1>1, PipeTyped DEF TypeOK
    <3>3. InHand \in Seq(S)
      <4>1. CASE InHand = <<>>
        BY <4>1
      <4>2. CASE InHand # <<>>
        <5>1. InHand = <<hand[demuxer]>> /\ hand[demuxer] \in S
          BY <1>1, <2>3, <4>2 DEF InHand, TypeOK
        <5>2. QED
          BY <5>1
      <4>3. QED
        BY <4>1, <4>2
    <3>4. QED
      BY <2>3, <3>1, <3>2, <3>3
  <2>5. q = local[s] \o Pipe
    <3>1. PICK l \in Seq(S), h \in Seq(S), p \in Seq(S) : l = local[s] /\ h = InHand /\ p = ipc
      BY <2>4
    <3>2. q = (l \o h) \o p /\ Pipe = h \o p
      BY <2>1, <3>1 DEF OnTheWay, Pipe
    <3>3. (l \o h) \o p = l \o (h \o p)
      BY ConcatAssociative
    <3>4. QED
      BY <3>1, <3>2, <3>3
  <2>6. /\ NumbersOf(s, c, q) = NumbersOf(s, c, local[s]) \cup NumbersOf(s, c, Pipe)
        /\ Increasing(s, c, q)
    <3>1. /\ NumbersOf(s, c, local[s] \o Pipe) = NumbersOf(s, c, local[s]) \cup NumbersOf(s, c, Pipe)
          /\ (/\ Increasing(s, c, local[s]) /\ Increasing(s, c, Pipe)
              /\ Below(NumbersOf(s, c, local[s]), NumbersOf(s, c, Pipe)))
             => Increasing(s, c, local[s] \o Pipe)
      BY <2>4, ConcatNumbered
    <3>2. QED
      BY <2>2, <2>5, <3>1 DEF NumberedIn
  <2>7. QED
    BY <2>2, <2>6 DEF NumberedIn, NumbersOf, Increasing
<1>2. QED
  BY <1>1, TypedAlways, QueuesAlways, PTL

-----------------------------------------------------------------------------
(* What a thread tells of a disconnection.                                 *)

\* If no subreceiver is dropped, a thread that has reported a disconnection has a state
\* machine that has not got its sender any more, and an empty local queue.
Told == \A s \in Subs : at[s] = "told" => ~sm[s].maybe /\ local[s] = <<>>

LEMMA DroppersInit == Init => Droppers
BY DEF Init, Droppers, Leaving

LEMMA DroppersStep ==
  ASSUME TypeOK, Droppers, [Next]_vars
  PROVE  Droppers'
<1> USE DEF Leaving
<1>0. at \in [Subs -> Labels]
  BY DEF TypeOK, Labels
<1>1. CASE UNCHANGED at
  BY <1>1 DEF Droppers
<1>2. ASSUME NEW s \in Subs, NEW label \in Labels, GoTo(s, label),
             label \in Leaving => s \in Dropping
      PROVE  Droppers'
  BY <1>0, <1>2 DEF GoTo, Droppers
<1>3. ASSUME NEW s \in Subs,
             (\E method \in Methods : Call(s, method)) \/ ThreadStep(s) \/ Drop(s)
      PROVE  Droppers'
  <2>1. CASE TryReceive(s)
    BY <1>2, <2>1 DEF TryReceive, GoOn, Return, Labels
  <2>2. CASE Drain(s)
    <3>1. at[s] \in Leaving
      BY <2>2 DEF Drain, AfterDrain
    <3>2. s \in Dropping
      BY <3>1 DEF Droppers
    <3>3. \E label \in Labels : GoTo(s, label)
      BY <2>2 DEF Drain, AfterDrain, GoOn, Labels
    <3>4. QED
      BY <1>2, <3>2, <3>3
  <2>3. CASE Broadcast(s) \/ Close(s) \/ Drop(s)
    <3>1. s \in Dropping
      BY <2>3 DEF Broadcast, Close, Drop, Droppers
    <3>2. \E label \in Labels : GoTo(s, label)
      BY <2>3 DEF Broadcast, Close, Drop, GoOn, Labels
    <3>3. QED
      BY <1>2, <3>1, <3>2
  <2>4. CASE \/ \E method \in Methods : Call(s, method)
             \/ TakeLocal(s) \/ FindNothing(s) \/ LockDemuxer(s) \/ LockFails(s) \/ WaitEnds(s)
             \/ ReceiveFromIpc(s) \/ ReceiveTimesOut(s) \/ HandleInHand(s)
             \/ DeadlinePasses(s) \/ StillEmpty(s)
    <3>1. PICK label \in Labels \ Leaving : GoTo(s, label)
      BY <2>4 DEF Call, TakeLocal, FindNothing, LockDemuxer, LockFails, WaitEnds, ReceiveFromIpc,
         ReceiveTimesOut, HandleInHand, DeadlinePasses, StillEmpty, GoOn, Return, Labels
    <3>2. QED
      BY <1>2, <3>1
  <2>5. QED
    BY <1>3, <2>1, <2>2, <2>3, <2>4 DEF ThreadStep
<1>4. CASE \/ \E c \in Clients : ClientStep(c)
           \/ \E g \in Guests : BeginJoin(g) \/ EndJoin(g)
           \/ UNCHANGED vars
  BY <1>1, <1>4 DEF ClientStep, BeginSend, DropSender, EndSend, BeginJoin, EndJoin, vars, receiverVars
<1>5. QED
  BY <1>3, <1>4 DEF Next

LEMMA DroppersAlways == Spec => []Droppers
<1>1. TypeOK /\ Droppers /\ [Next]_vars => Droppers'
  BY DroppersStep
<1>2. QED
  BY <1>1, DroppersInit, TypedAlways, PTL DEF Spec

LEMMA ToldStep ==
  ASSUME Dropping = {}, TypeOK, Locked, Tracked, LocalInOrder, Droppers, Told, [Next]_vars
  PROVE  Told'
<1> USE DEF demuxerVars, receiverVars, clientVars, Threaded
<1>0. /\ at \in [Subs -> Labels] /\ local \in [Subs -> Queued] /\ Pipe \in Seq(Messages)
  BY PipeTyped DEF TypeOK, Labels, Queued
<1>1. \A s \in Subs : at[s] \notin Leaving /\ ~RxGone(s)
  BY DEF Droppers, Leaving, RxGone
<1>2. CASE UNCHANGED <<at, sm, local>>
  BY <1>2 DEF Told
<1>3. ASSUME NEW s \in Subs, NEW label \in Labels, GoTo(s, label), UNCHANGED <<sm, local>>,
             label = "told" => ~sm[s].maybe /\ local[s] = <<>>
      PROVE  Told'
  BY <1>0, <1>3 DEF GoTo, Told
<1>4. ASSUME NEW s \in Subs, Takes(s)
      PROVE  Told'
  <2>1. PICK p \in Seq(Messages) : p = Pipe
    BY <1>0
  <2>2. PICK m \in Messages : m = Head(p) /\ p # <<>> /\ Handle(m)
    BY <1>4, <2>1, PipeTaken, TailIndexed
  <2>3. ~HandleFails(m)
    BY <1>1, <2>1, <2>2, NothingFails
  <2>4. \A t \in Subs : ~sm[t].maybe => local'[t] = local[t] /\ ~sm'[t].maybe
    BY <1>1, <2>1, <2>2, LocalHandled
  <2>5. \E label \in Labels : GoTo(s, label) /\ label # "told"
    <3>1. CASE HandleInHand(s)
      <4>1. m = hand[s]
        <5>1. demuxer = s /\ hand[s] # NoMessage /\ s # NoSub
          BY <3>1, DemuxAssumption DEF HandleInHand, Locked
        <5>2. hand[s] \in Messages /\ ipc \in Seq(Messages)
          BY <5>1 DEF TypeOK
        <5>3. p = <<hand[s]>> \o ipc
          BY <2>1, <5>1 DEF Pipe, InHand
        <5>4. QED
          BY <2>2, <5>2, <5>3, OneInFront
      <4>2. QED
        BY <2>3, <3>1, <4>1 DEF HandleInHand, GoOn, Labels
    <3>2. CASE TryReceive(s) /\ ipc # <<>>
      <4>1. m = Head(ipc)
        BY <2>1, <2>2, <3>2, PipeTyped DEF TryReceive
      <4>2. QED
        BY <2>3, <3>2, <4>1 DEF TryReceive, GoOn, Labels
    <3>3. ~Drain(s)
      BY <1>1 DEF Drain, AfterDrain, Leaving
    <3>4. QED
      BY <1>4, <3>1, <3>2, <3>3 DEF Takes
  <2>6. QED
    BY <1>0, <2>4, <2>5 DEF GoTo, Told
<1>5. ASSUME NEW s \in Subs, TakeLocal(s)
      PROVE  Told'
  <2>1. sm' = sm /\ at[s] # "told"
    BY <1>5 DEF TakeLocal
  <2>2. CASE local[s] = <<>>
    <3>1. ~sm[s].maybe /\ GoTo(s, "told") /\ \A t \in Subs : local'[t] = local[t]
      BY <1>0, <1>5, <2>2 DEF TakeLocal, Ready, Return
    <3>2. QED
      BY <1>0, <2>1, <2>2, <3>1 DEF GoTo, Told
  <2>3. CASE local[s] # <<>>
    <3>1. PICK l \in Queued : l = local[s] /\ l # <<>>
      BY <1>0, <2>3
    <3>2. LocalOf(s, l, sm[s].maybe)
      BY <1>1, <3>1 DEF LocalInOrder
    <3>3. Head(l).type # "Data" => Tail(l) = <<>> /\ ~sm[s].maybe
      BY <3>1, <3>2, LocalTaken
    <3>4. /\ local' = [local EXCEPT ![s] = Tail(l)]
          /\ IF Head(l).type = "Data" THEN GoTo(s, "idle") ELSE GoTo(s, "told")
      BY <1>0, <1>5, <3>1 DEF TakeLocal, Return
    <3>5. QED
      BY <1>0, <2>1, <3>3, <3>4 DEF GoTo, Told
  <2>4. QED
    BY <2>2, <2>3
<1>6. ASSUME NEW s \in Subs,
             \/ \E method \in Methods : Call(s, method)
             \/ FindNothing(s) \/ LockDemuxer(s) \/ LockFails(s) \/ WaitEnds(s)
             \/ ReceiveFromIpc(s) \/ ReceiveTimesOut(s) \/ DeadlinePasses(s) \/ StillEmpty(s)
             \/ TryReceive(s) /\ ipc = <<>>
      PROVE  Told'
  <2>1. UNCHANGED <<sm, local>>
    BY <1>6 DEF Call, FindNothing, LockDemuxer, LockFails, WaitEnds, ReceiveFromIpc,
       ReceiveTimesOut, DeadlinePasses, StillEmpty, TryReceive
  <2>2. \E label \in Labels : GoTo(s, label) /\ label # "told"
    BY <1>6 DEF Call, FindNothing, LockDemuxer, LockFails, WaitEnds, ReceiveFromIpc,
       ReceiveTimesOut, DeadlinePasses, StillEmpty, TryReceive, GoOn, Return, Labels
  <2>3. QED
    BY <1>3, <2>1, <2>2
<1>7. ASSUME NEW s \in Subs
      PROVE  ~(Drop(s) \/ Drain(s) \/ Broadcast(s) \/ Close(s))
  BY <1>1 DEF Drop, Drain, AfterDrain, Broadcast, Close, Leaving
<1>8. CASE \/ \E c \in Clients : ClientStep(c)
           \/ \E g \in Guests : BeginJoin(g) \/ EndJoin(g)
           \/ UNCHANGED vars
  BY <1>2, <1>8 DEF ClientStep, BeginSend, DropSender, EndSend, BeginJoin, EndJoin, vars
<1>9. ASSUME NEW s \in Subs, ThreadStep(s)
      PROVE  Told'
  BY <1>4, <1>5, <1>6, <1>7, <1>9 DEF ThreadStep, Takes
<1>10. QED
  BY <1>6, <1>7, <1>8, <1>9 DEF Next

\* If no subreceiver is dropped, a receive returns Disconnected only when no subsender is
\* left and there is nothing to receive (DisconnectedIsTrue in Demux).
THEOREM DisconnectedTruly ==
  ASSUME Dropping = {}
  PROVE  Spec => []DisconnectedIsTrue
<1>1. Init => Told
  BY DEF Init, Told
<1>2. TypeOK /\ Locked /\ Tracked /\ LocalInOrder /\ Droppers /\ Told /\ [Next]_vars => Told'
  BY ToldStep
<1>3. ASSUME TypeOK, Locked, Tracked, Droppers, Numbered, Told
      PROVE  DisconnectedIsTrue
  <2>1. SUFFICES ASSUME NEW s \in Subs, at[s] = "told"
                 PROVE  ~SenderLeft(s) /\ \A c \in Clients : got[s][c] = sent[c][s]
    BY DEF DisconnectedIsTrue
  <2>2. ~sm[s].maybe /\ local[s] = <<>> /\ ~RxGone(s)
    BY <1>3, <2>1 DEF Told, RxGone
  <2>3. TrackedIn(s, Pipe, sm[s], holds, joining)
    BY <1>3 DEF Tracked
  <2>4. \A c \in Clients : /\ s \notin holds[c] /\ c \notin Expected(s, Pipe, joining)
                           /\ \A i \in DOMAIN Pipe : ~Uses(Pipe[i], s, c)
    BY <2>2, <2>3, NotTaken
  <2>5. ~SenderLeft(s)
    BY <2>4, MessagesTyped DEF SenderLeft, Expected
  <2>6. ASSUME NEW c \in Clients
        PROVE  got[s][c] = sent[c][s]
    <3>1. NumberedIn(s, c, <<>>, Pipe, got[s][c], sent[c][s])
      BY <1>3, <2>2 DEF Numbered
    <3>2. DataOf(s, c, <<>>) = {} /\ DataOf(s, c, Pipe) = {}
      BY <2>4 DEF DataOf, Uses
    <3>3. PICK h \in Nat, n \in Nat : h = got[s][c] /\ n = sent[c][s]
      BY <3>1 DEF NumberedIn
    <3>4. h <= n /\ h + 1 .. n = {}
      BY <3>1, <3>2, <3>3 DEF NumberedIn, NumbersOf
    <3>5. h < n => n \in h + 1 .. n
      BY <3>3
    <3>6. QED
      BY <3>3, <3>4, <3>5
  <2>7. QED
    BY <2>5, <2>6
<1>4. QED
  BY <1>1, <1>2, <1>3, TypedAlways, TrackedAlways, QueuesAlways, DroppersAlways, PTL DEF Spec

-----------------------------------------------------------------------------
(* Who is told that a subreceiver is dropped.                              *)

\* What is known to the Demuxer, or will be when the IPC channel has been drained.
Connecting(c) == c \in ipcSenders \/ Has(Pipe, Connect(c))

Announced(s, c) == s \in Proxies(c) => s \in responses[c] \cup known[c]

\* The clients that are to be told are known to the Demuxer when the first drain ends.
DueKnown ==
  \A s \in Subs :
    /\ at[s] = "drain" => \A c \in due[s] : Connecting(c)
    /\ at[s] = "broadcast" => due[s] \subseteq ipcSenders

LEMMA ConnectsKept ==
  ASSUME TypeOK, Locked, [Next]_vars
  PROVE  /\ ipcSenders \subseteq ipcSenders'
         /\ \A c \in Clients : Connecting(c) => Connecting(c)'
<1> USE DEF demuxerVars, receiverVars, clientVars
<1>0. Pipe \in Seq(Messages)
  BY PipeTyped
<1>1. CASE Pipe' = Pipe /\ ipcSenders' = ipcSenders
  BY <1>1 DEF Connecting
<1>2. ASSUME NEW m \in Messages, Put(m), UNCHANGED <<demuxer, hand, ipcSenders>>
      PROVE  /\ ipcSenders \subseteq ipcSenders'
             /\ \A c \in Clients : Connecting(c) => Connecting(c)'
  <2>1. Pipe' = Append(Pipe, m)
    BY <1>2, PipePut
  <2>2. \A k : Has(Pipe, k) => Has(Pipe', k)
    BY <1>0, <2>1, HasAppended
  <2>3. QED
    BY <1>2, <2>2 DEF Connecting
<1>3. ASSUME NEW s \in Subs, Takes(s)
      PROVE  /\ ipcSenders \subseteq ipcSenders'
             /\ \A c \in Clients : Connecting(c) => Connecting(c)'
  <2>1. PICK p \in Seq(Messages) : p = Pipe
    BY <1>0
  <2>2. PICK m \in Messages : m = Head(p) /\ p # <<>> /\ Handle(m) /\ Pipe' = Tail(p)
    BY <1>3, <2>1, PipeTaken, TailIndexed
  <2>3. ipcSenders' = IF m.type = "Connect" THEN ipcSenders \cup {m.client} ELSE ipcSenders
    <3>1. CASE m.type = "Connect"
      BY <2>2, <3>1 DEF Handle, HandleConnect
    <3>2. CASE m.type # "Connect"
      BY <2>2, <3>2, MessagesTyped DEF Handle, HandleData, HandleReceived, HandleDisconnect
    <3>3. QED
      BY <3>1, <3>2
  <2>4. ASSUME NEW c \in Clients, Has(p, Connect(c)), ~Has(Tail(p), Connect(c))
        PROVE  c \in ipcSenders'
    <3>1. m = Connect(c)
      BY <2>2, <2>4, HasTaken
    <3>2. QED
      BY <2>3, <3>1 DEF Connect
  <2>5. QED
    BY <2>1, <2>2, <2>3, <2>4 DEF Connecting
<1>4. CASE \E s \in Subs : (\E method \in Methods : Call(s, method)) \/ ThreadStep(s) \/ Drop(s)
  BY <1>1, <1>3, <1>4, PipeQuiet
<1>5. CASE UNCHANGED vars
  <2>1. Pipe' = Pipe /\ ipcSenders' = ipcSenders
    BY <1>5 DEF vars, Pipe, InHand
  <2>2. QED
    BY <1>1, <2>1
<1>6. ASSUME NEW g \in Guests, BeginJoin(g) \/ EndJoin(g)
      PROVE  /\ ipcSenders \subseteq ipcSenders'
             /\ \A c \in Clients : Connecting(c) => Connecting(c)'
  <2>1. g \in Clients /\ On[g] \in Subs
    BY DemuxAssumption, MessagesTyped
  <2>2. Connect(g) \in Messages /\ Received(On[g], g) \in Messages
    BY <2>1, MessagesTyped
  <2>3. QED
    BY <1>2, <1>6, <2>2 DEF BeginJoin, EndJoin
<1>7. ASSUME NEW c \in Clients, NEW s \in Subs, BeginSend(c, s) \/ DropSender(c, s)
      PROVE  /\ ipcSenders \subseteq ipcSenders'
             /\ \A d \in Clients : Connecting(d) => Connecting(d)'
  <2>1. /\ UNCHANGED <<demuxer, hand, ipcSenders>>
        /\ UNCHANGED ipc \/ Put(Disconnect(s, c))
    BY <1>7 DEF BeginSend, DropSender
  <2>2. CASE UNCHANGED ipc
    BY <1>1, <2>1, <2>2 DEF Pipe, InHand
  <2>3. CASE Put(Disconnect(s, c))
    BY <1>2, <2>1, <2>3, MessagesTyped
  <2>4. QED
    BY <2>1, <2>2, <2>3
<1>8. ASSUME NEW c \in Clients, EndSend(c)
      PROVE  /\ ipcSenders \subseteq ipcSenders'
             /\ \A d \in Clients : Connecting(d) => Connecting(d)'
  <2>1. PICK s \in Subs : s = sending[c]
    BY <1>8, DemuxAssumption DEF EndSend, TypeOK
  <2>2. /\ sent' = [sent EXCEPT ![c][s] = sent[c][s] + 1] /\ Put(Data(s, c, sent'[c][s]))
        /\ UNCHANGED <<demuxer, hand, ipcSenders>>
    BY <1>8, <2>1 DEF EndSend
  <2>3. sent'[c][s] \in Nat
    <3>1. sent[c] \in [Subs -> Nat]
      BY DEF TypeOK
    <3>2. sent'[c] = [sent[c] EXCEPT ![s] = sent[c][s] + 1]
      BY <2>2 DEF TypeOK
    <3>3. QED
      BY <2>1, <3>1, <3>2
  <2>4. QED
    BY <1>2, <2>1, <2>2, <2>3, MessagesTyped
<1>9. QED
  BY <1>4, <1>5, <1>6, <1>7, <1>8 DEF Next, ClientStep

LEMMA AnswersKept ==
  ASSUME TypeOK, [Next]_vars, NEW s \in Subs, NEW c \in Clients, Announced(s, c)
  PROVE  Announced(s, c)'
<1> USE DEF demuxerVars, receiverVars, clientVars, Threaded
<1>0. responses \in [Clients -> SUBSET Subs] /\ known \in [Clients -> SUBSET Subs]
  BY DEF TypeOK
<1>1. CASE UNCHANGED <<responses, known>>
  BY <1>1 DEF Announced, Proxies
<1>2. ASSUME NEW d \in Clients, DrainResponses(d)
      PROVE  Announced(s, c)'
  <2>1. /\ c = d => known'[c] = known[c] \cup (responses[c] \cap Proxies(c))
        /\ c # d => known'[c] = known[c] /\ responses'[c] = responses[c]
    BY <1>0, <1>2 DEF DrainResponses
  <2>2. QED
    BY <2>1 DEF Announced, Proxies
<1>3. ASSUME NEW t \in Subs, Broadcast(t)
      PROVE  Announced(s, c)'
  <2>1. known' = known /\ responses[c] \subseteq responses'[c]
    BY <1>3 DEF Broadcast
  <2>2. QED
    BY <2>1 DEF Announced, Proxies
<1>4. ASSUME NEW t \in Subs, (\E method \in Methods : Call(t, method)) \/ ThreadStep(t) \/ Drop(t),
             ~Broadcast(t)
      PROVE  UNCHANGED <<responses, known>>
  BY <1>4 DEF Call, Drop, ThreadStep, TakeLocal, FindNothing, LockDemuxer, LockFails, WaitEnds,
     ReceiveFromIpc, ReceiveTimesOut, HandleInHand, DeadlinePasses, TryReceive, StillEmpty, Drain,
     Close
<1>5. ASSUME NEW d \in Clients, ClientStep(d)
      PROVE  Announced(s, c)'
  BY <1>1, <1>2, <1>5 DEF ClientStep, BeginSend, DropSender, EndSend
<1>6. ASSUME NEW g \in Guests, BeginJoin(g) \/ EndJoin(g)
      PROVE  Announced(s, c)'
  BY <1>1, <1>6 DEF BeginJoin, EndJoin
<1>7. CASE UNCHANGED vars
  BY <1>1, <1>7 DEF vars
<1>8. QED
  BY <1>1, <1>3, <1>4, <1>5, <1>6, <1>7 DEF Next

LEMMA AnnouncedStep ==
  ASSUME \A s, t \in Dropping : s = t,
         TypeOK, Locked, Tracked, Droppers, DueKnown, DropAnnounced, [Next]_vars
  PROVE  DueKnown' /\ DropAnnounced'
<1> USE DEF demuxerVars, receiverVars, clientVars, Threaded
<1> DEFINE Last == {"drain_again", "close", "dropped"}
           Fine(s) == /\ at[s] = "drain" => \A c \in due[s] : Connecting(c)
                      /\ at[s] = "broadcast" => due[s] \subseteq ipcSenders
                      /\ at[s] \in Last => \A c \in due[s] : Announced(s, c)
<1>0. /\ at \in [Subs -> Labels] /\ due \in [Subs -> SUBSET Clients] /\ Pipe \in Seq(Messages)
      /\ hand \in [Subs -> Messages \cup {NoMessage}] /\ responses \in [Clients -> SUBSET Subs]
  BY PipeTyped DEF TypeOK, Labels
<1>1. \A s \in Subs : Fine(s)
  BY DEF DueKnown, DropAnnounced, Announced
<1>2. (\A s \in Subs : Fine(s)') => DueKnown' /\ DropAnnounced'
  BY DEF DueKnown, DropAnnounced, Announced
<1>3. /\ ipcSenders \subseteq ipcSenders'
      /\ \A c \in Clients : Connecting(c) => Connecting(c)'
      /\ \A s \in Subs, c \in Clients : Announced(s, c) => Announced(s, c)'
  BY ConnectsKept, AnswersKept
<1>4. ASSUME NEW s \in Subs, at'[s] = at[s], due'[s] = due[s]
      PROVE  Fine(s)'
  BY <1>0, <1>1, <1>3, <1>4
<1>5. CASE \/ \E c \in Clients : ClientStep(c)
           \/ \E g \in Guests : BeginJoin(g) \/ EndJoin(g)
           \/ UNCHANGED vars
  <2>1. UNCHANGED <<at, due>>
    BY <1>5 DEF ClientStep, BeginSend, DropSender, EndSend, BeginJoin, EndJoin, vars
  <2>2. QED
    BY <1>2, <1>4, <2>1
<1>6. ASSUME NEW s \in Subs,
             (\E method \in Methods : Call(s, method)) \/ ThreadStep(s) \/ Drop(s)
      PROVE  DueKnown' /\ DropAnnounced'
  <2>1. ASSUME NEW t \in Subs, t # s
        PROVE  Fine(t)'
    <3>1. at'[t] = at[t]
      <4>1. CASE TryReceive(s) \/ Drain(s)
        BY <1>0, <2>1, <4>1 DEF TryReceive, Drain, GoOn, Return, GoTo
      <4>2. CASE ~(TryReceive(s) \/ Drain(s))
        BY <1>0, <1>6, <2>1, <4>2 DEF Call, Drop, ThreadStep, TakeLocal, FindNothing, LockDemuxer,
           LockFails, WaitEnds, ReceiveFromIpc, ReceiveTimesOut, HandleInHand, DeadlinePasses,
           StillEmpty, Broadcast, Close, GoOn, Return, GoTo
      <4>3. QED
        BY <4>1, <4>2
    <3>2. due'[t] = due[t]
      <4>1. CASE Drop(s)
        BY <1>0, <2>1, <4>1 DEF Drop
      <4>2. CASE ~Drop(s)
        <5>1. due' = due
          BY <1>6, <4>2 DEF Call, ThreadStep, TakeLocal, FindNothing, LockDemuxer,
           LockFails, WaitEnds, ReceiveFromIpc, ReceiveTimesOut, HandleInHand, DeadlinePasses,
           TryReceive, StillEmpty, Drain, Broadcast, Close
        <5>2. QED
          BY <5>1
      <4>3. QED
        BY <4>1, <4>2
    <3>3. QED
      BY <1>4, <2>1, <3>1, <3>2
  <2>2. CASE Drop(s)
    <3>1. at'[s] = "drain" /\ due'[s] = {c \in Clients : ConnectSent(c)}
      BY <1>0, <2>2 DEF Drop, GoOn, GoTo
    <3>2. ASSUME NEW c \in Clients, ConnectSent(c)
          PROVE  Connecting(c)
      <4>1. CASE c \in ipcSenders
        BY <4>1 DEF Connecting
      <4>2. ASSUME NEW t \in Subs, hand[t] = Connect(c)
            PROVE  Connecting(c)
        <5>1. hand[t] # NoMessage
          BY <4>2, MessagesTyped, NoMessageAssumption
        <5>2. demuxer = t /\ t # NoSub
          BY <5>1, DemuxAssumption DEF Locked
        <5>3. Pipe = <<Connect(c)>> \o ipc /\ ipc \in Seq(Messages) /\ Connect(c) \in Messages
          BY <1>0, <4>2, <5>1, <5>2 DEF Pipe, InHand, TypeOK
        <5>4. Pipe # <<>> /\ Head(Pipe) = Connect(c)
          BY <5>3, OneInFront
        <5>5. QED
          BY <1>0, <5>4, HasTaken DEF Connecting
      <4>3. ASSUME NEW i \in DOMAIN ipc, ipc[i] = Connect(c)
            PROVE  Connecting(c)
        <5>1. CASE InHand = <<>>
          <6>1. Pipe = ipc
            BY <5>1, OneInFront, ConcatEmptySeq DEF Pipe, TypeOK
          <6>2. QED
            BY <4>3, <6>1 DEF Connecting, Has
        <5>2. CASE InHand # <<>>
          <6>1. PICK m \in Messages : InHand = <<m>>
            BY <1>0, <5>2 DEF InHand, TypeOK
          <6>2. Pipe # <<>> /\ Tail(Pipe) = ipc
            <7>1. Pipe = <<m>> \o ipc /\ ipc \in Seq(Messages)
              BY <6>1 DEF Pipe, TypeOK
            <7>2. QED
              BY <7>1, OneInFront
          <6>3. QED
            BY <1>0, <4>3, <6>2, HasTaken DEF Connecting, Has
        <5>3. QED
          BY <5>1, <5>2
      <4>4. QED
        BY <3>2, <4>1, <4>2, <4>3 DEF ConnectSent
    <3>3. Fine(s)'
      BY <1>3, <3>1, <3>2
    <3>4. QED
      BY <1>2, <2>1, <3>3
  <2>3. CASE Drain(s) /\ at[s] = "drain"
    <3>0. due' = due
      BY <2>3 DEF Drain
    <3>1. CASE ipc = <<>>
      <4>1. at'[s] = "broadcast" /\ demuxer = NoSub
        BY <1>0, <2>3, <3>1 DEF Drain, AfterDrain, GoOn, GoTo
      <4>2. Pipe = <<>>
        BY <3>1, <4>1, PipeTyped
      <4>3. \A c \in due[s] : c \in ipcSenders
        <5>1. \A m : ~Has(<<>>, m)
          BY DEF Has
        <5>2. \A c \in due[s] : Connecting(c)
          BY <1>1, <2>3
        <5>3. QED
          BY <4>2, <5>1, <5>2 DEF Connecting
      <4>4. Fine(s)'
        BY <1>3, <3>0, <4>1, <4>3
      <4>5. QED
        BY <1>2, <2>1, <4>4
    <3>2. CASE ipc # <<>>
      <4>1. \A t \in Subs : ~RxGone(t)
        BY <2>3 DEF Droppers, Leaving, RxGone
      <4>2. Takes(s) /\ demuxer = NoSub
        BY <2>3, <3>2 DEF Takes, Drain
      <4>3. Pipe = ipc /\ Pipe # <<>> /\ Handle(Head(Pipe)) /\ Head(Pipe) \in Messages
        BY <1>0, <4>2, PipeTyped, PipeTaken, TailIndexed
      <4>4. ~HandleFails(Head(ipc))
        BY <1>0, <4>1, <4>3, NothingFails
      <4>5. at'[s] = at[s]
        BY <1>0, <2>3, <3>2, <4>4 DEF Drain, GoOn, GoTo
      <4>6. QED
        BY <1>2, <1>4, <2>1, <3>0, <4>5
    <3>3. QED
      BY <3>1, <3>2
  <2>4. CASE (Drain(s) /\ at[s] = "drain_again") \/ Close(s)
    <3>1. at'[s] \in {"drain_again", "close", "dropped"} /\ at[s] \in Last /\ due' = due
      BY <1>0, <2>4 DEF Drain, AfterDrain, Close, GoOn, GoTo
    <3>2. Fine(s)'
      BY <1>0, <1>1, <1>3, <3>1
    <3>3. QED
      BY <1>2, <2>1, <3>2
  <2>5. CASE Broadcast(s)
    <3>1. at'[s] = "drain_again" /\ due' = due /\ due[s] \subseteq ipcSenders
      BY <1>0, <1>1, <2>5 DEF Broadcast, GoOn, GoTo
    <3>2. \A c \in Clients : c \in ipcSenders => s \in responses'[c]
      BY <2>5 DEF Broadcast
    <3>3. \A c \in due[s] : Announced(s, c)'
      BY <1>0, <3>1, <3>2 DEF Announced
    <3>4. Fine(s)'
      BY <3>1, <3>3
    <3>5. QED
      BY <1>2, <2>1, <3>4
  <2>6. CASE ~Drop(s) /\ ~Drain(s) /\ ~Close(s) /\ ~Broadcast(s)
    <3>1. PICK label \in Labels \ Leaving : GoTo(s, label)
      <4>1. CASE TryReceive(s)
        BY <4>1 DEF TryReceive, GoOn, Return, Labels, Leaving
      <4>2. CASE ~TryReceive(s)
        BY <1>6, <2>6, <4>2 DEF Call, ThreadStep, TakeLocal, FindNothing, LockDemuxer, LockFails,
           WaitEnds, ReceiveFromIpc, ReceiveTimesOut, HandleInHand, DeadlinePasses, StillEmpty,
           GoOn, Return, Labels, Leaving
      <4>3. QED
        BY <4>1, <4>2
    <3>2. at'[s] \notin Leaving
      BY <1>0, <3>1 DEF GoTo
    <3>3. Fine(s)'
      BY <3>2 DEF Leaving
    <3>4. QED
      BY <1>2, <2>1, <3>3
  <2>7. Drain(s) => at[s] \in {"drain", "drain_again"}
    BY DEF Drain, AfterDrain
  <2>8. QED
    BY <2>2, <2>3, <2>4, <2>5, <2>6, <2>7
<1>7. QED
  BY <1>5, <1>6 DEF Next

\* If no two subreceivers are dropped, the clients that sent Connect before one began to be
\* dropped are told (DropAnnounced in Demux).
THEOREM DropsAnnounced ==
  ASSUME \A s, t \in Dropping : s = t
  PROVE  Spec => []DropAnnounced
<1>1. Init => DueKnown /\ DropAnnounced
  BY DEF Init, DueKnown, DropAnnounced
<1>2. TypeOK /\ Locked /\ Tracked /\ Droppers /\ DueKnown /\ DropAnnounced /\ [Next]_vars
        => DueKnown' /\ DropAnnounced'
  BY AnnouncedStep
<1>3. QED
  BY <1>1, <1>2, TypedAlways, TrackedAlways, DroppersAlways, PTL DEF Spec
===============================================================================
