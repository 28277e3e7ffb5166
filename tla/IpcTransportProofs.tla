-------------------------- MODULE IpcTransportProofs --------------------------
(***************************************************************************)
(* Proofs about IpcTransport, for any numbers of transports, copies and    *)
(* messages.  Transports may overlap: the owner disconnects too early only *)
(* once a poll has written off a transport under way.  Where a transport   *)
(* starts after the owner has seen the end of the last one (OneAtATime),   *)
(* wrappers are watched by their own keepalives.                           *)
(***************************************************************************)
EXTENDS IpcTransport, FiniteSetTheorems, WellFoundedInduction, TLAPS

-----------------------------------------------------------------------------
(* The inductive invariants.                                               *)

\* What the owner has been told and has yet to handle.
Told == {queue[i] : i \in DOMAIN queue}

InQueue(m) == m \in Told

\* No transport is under way, for its wrapper or for the owner.
Idle ==
  /\ NoneUnderWay
  /\ \A k \in Transports : wrapper[k] # "wrapped"

\* What is in the queue about k is there once and in order.
Ordered(k) ==
  \A i, j \in DOMAIN queue :
    /\ queue[i] = SendingViaIpcChannel(k) /\ queue[j] = SendingViaIpcChannel(k) => i = j
    /\ queue[i] = Received(k) /\ queue[j] = Received(k) => i = j
    /\ queue[i] = SendingViaIpcChannel(k) /\ queue[j] = Received(k) => i < j

\* All that is in the queue about transports is about k, in order.
AboutQueue(k) ==
  /\ \A i \in DOMAIN queue :
       \/ queue[i].type \in {"Data", "Disconnect"}
       \/ queue[i] = SendingViaIpcChannel(k) \/ queue[i] = Received(k)
  /\ Ordered(k)

\* Transport k is the one under way.
About(k) ==
  /\ wrapper[k] # "unused" /\ \A u \in Transports \ {k} : wrapper[u] # "wrapped"
  /\ AboutQueue(k)
  /\ wrapper[k] \in {"unwrapped", "crashed"} <=> InQueue(Received(k))

\* The owner has yet to handle the announcement of k; it watches the keepalive of
\* k; or it has seen the keepalive closed before it handled the receipt.
Announced(k) == InQueue(SendingViaIpcChannel(k)) /\ sm.inFlight[Empty] = 0

Watched(k) ==
  /\ ~InQueue(SendingViaIpcChannel(k))
  /\ sm.inFlight[Empty] = 1 /\ sm.probes[Empty] = k

WrittenOff(k) ==
  /\ ~InQueue(SendingViaIpcChannel(k)) /\ InQueue(Received(k))
  /\ sm.inFlight[Empty] = 0
  /\ held[k] = 0 /\ k \notin dropping

OneUnderWay ==
  \/ Idle
  \/ \E k \in Transports : About(k) /\ (Announced(k) \/ Watched(k) \/ WrittenOff(k))

\* The owner knows, or will, every source with copies, and is told of its drop
\* after the last copy is gone.
SourcesKnown ==
  \A s \in Sources :
    /\ held[s] > 0 \/ s \in dropping =>
         /\ s \in sm.sources \/ InQueue(Received(s))
         /\ ~InQueue(Disconnect(s))
    /\ s \in dropping => held[s] = 0

\* Nothing has happened at a source where no subsender has arrived.
NotArrived ==
  \A k \in Transports :
    wrapper[k] \in {"unused", "wrapped", "lost"} =>
      held[k] = 0 /\ k \notin dropping /\ ~InQueue(Disconnect(k)) /\ ~InQueue(Received(k))

Base == TypeOK /\ SourcesKnown /\ NotArrived

\* For transports that do not overlap.
Core == Base /\ OneUnderWay

\* A transport is announced once, when it starts.
Orderly ==
  \A k \in Transports :
    Ordered(k) /\ (wrapper[k] = "unused" => ~InQueue(SendingViaIpcChannel(k)))

\* Payloads and wrapped copies come from a source that the owner knows, or hears
\* of before it handles the message, and hears the end of afterwards.
FromSource(i, s) ==
  /\ s \in sm.sources \/ \E h \in DOMAIN queue : h < i /\ queue[h] = Received(s)
  /\ \A j \in DOMAIN queue : j < i => queue[j] # Disconnect(s)

SentFromSource ==
  \A i \in DOMAIN queue :
    queue[i].type \in {"Data", "SendingViaIpcChannel"} =>
      \E s \in Sources : FromSource(i, s)

\* Each transport under way has its entry, though all have the same key.
Counted == IsFiniteSet(UnderWay) /\ Cardinality(UnderWay) <= sm.inFlight[Empty]

Ledger == Base /\ Orderly /\ SentFromSource /\ Counted

IInv == Ledger /\ NoPrematureDisconnect /\ NoDataLost

-----------------------------------------------------------------------------
(* The queue and the methods.                                              *)

\* Messages are what they were made of.
LEMMA MessagesTold ==
  /\ Data.type = "Data"
  /\ \A k : /\ SendingViaIpcChannel(k).type = "SendingViaIpcChannel"
            /\ SendingViaIpcChannel(k).transport = k
            /\ Received(k).type = "Received" /\ Received(k).transport = k
  /\ \A s : Disconnect(s).type = "Disconnect" /\ Disconnect(s).source = s
BY DEF Data, SendingViaIpcChannel, Received, Disconnect

LEMMA MessagesTyped ==
  /\ Data \in Messages
  /\ \A k \in Transports : SendingViaIpcChannel(k) \in Messages /\ Received(k) \in Messages
  /\ \A s \in Sources : Disconnect(s) \in Messages
BY DEF Messages, Data, SendingViaIpcChannel, Received, Disconnect

\* A message is one of these.
LEMMA MessageKinds ==
  ASSUME NEW m \in Messages
  PROVE  \/ m.type = "Data"
         \/ \E k \in Transports : m = SendingViaIpcChannel(k)
         \/ \E k \in Transports : m = Received(k)
         \/ \E s \in Sources : m = Disconnect(s)
BY DEF Messages, Data, SendingViaIpcChannel, Received, Disconnect

LEMMA AppendIndexed ==
  ASSUME NEW S, NEW q \in Seq(S), NEW m \in S
  PROVE  /\ Append(q, m) \in Seq(S) /\ Len(q) \in Nat
         /\ DOMAIN q = 1 .. Len(q) /\ DOMAIN Append(q, m) = 1 .. Len(q) + 1
         /\ \A i \in DOMAIN q : Append(q, m)[i] = q[i]
         /\ Append(q, m)[Len(q) + 1] = m
OBVIOUS

LEMMA TailIndexed ==
  ASSUME NEW S, NEW q \in Seq(S), q # <<>>
  PROVE  /\ Tail(q) \in Seq(S) /\ Len(q) \in Nat /\ Len(q) > 0
         /\ DOMAIN q = 1 .. Len(q) /\ DOMAIN Tail(q) = 1 .. Len(q) - 1
         /\ \A i \in DOMAIN Tail(q) : Tail(q)[i] = q[i + 1]
         /\ Head(q) = q[1] /\ Head(q) \in S
OBVIOUS

\* What is in the queue when a message is added, and when one is taken.
LEMMA Appended ==
  ASSUME TypeOK, NEW m \in Messages, ToOwner(m)
  PROVE  /\ queue' \in Seq(Messages)
         /\ \A x : InQueue(x)' <=> InQueue(x) \/ x = m
<1>1. PICK q \in Seq(Messages) : q = queue
  BY DEF TypeOK
<1>2. queue' = Append(q, m)
  BY <1>1 DEF ToOwner
<1>3. QED
  BY <1>1, <1>2, AppendIndexed DEF InQueue, Told

LEMMA Taken ==
  ASSUME TypeOK, queue # <<>>, queue' = Tail(queue)
  PROVE  /\ queue' \in Seq(Messages) /\ Head(queue) \in Messages
         /\ \A x : InQueue(x) <=> InQueue(x)' \/ x = Head(queue)
<1>1. PICK q \in Seq(Messages) : q = queue
  BY DEF TypeOK
<1>2. /\ queue' \in Seq(Messages) /\ Len(q) \in Nat /\ Len(q) > 0
      /\ DOMAIN q = 1 .. Len(q) /\ DOMAIN queue' = 1 .. Len(q) - 1
      /\ \A i \in DOMAIN queue' : queue'[i] = q[i + 1]
      /\ Head(q) = q[1] /\ Head(q) \in Messages
  BY <1>1, TailIndexed
<1>3. ASSUME NEW x, InQueue(x) PROVE InQueue(x)' \/ x = Head(queue)
  <2>1. PICK i \in DOMAIN q : q[i] = x
    BY <1>1, <1>3 DEF InQueue, Told
  <2>2. CASE i = 1
    BY <1>1, <1>2, <2>1, <2>2
  <2>3. CASE i # 1
    <3>1. i - 1 \in DOMAIN queue' /\ (i - 1) + 1 = i
      BY <1>2, <2>1, <2>3
    <3>2. queue'[i - 1] = x
      BY <1>2, <2>1, <3>1
    <3>3. QED
      BY <3>1, <3>2 DEF InQueue, Told
  <2>4. QED
    BY <2>2, <2>3
<1>4. ASSUME NEW x, InQueue(x)' PROVE InQueue(x)
  <2>1. PICK i \in DOMAIN queue' : queue'[i] = x
    BY <1>4 DEF InQueue, Told
  <2>2. i + 1 \in DOMAIN q /\ q[i + 1] = x
    BY <1>2, <2>1
  <2>3. QED
    BY <1>1, <2>2 DEF InQueue, Told
<1>5. InQueue(Head(queue))
  BY <1>1, <1>2 DEF InQueue, Told
<1>6. QED
  BY <1>1, <1>2, <1>3, <1>4, <1>5

Machines == SM!StateMachines(Transports)

\* The methods, as far as they matter for a single key.
LEMMA Methods ==
  ASSUME NEW x \in Machines, NEW k \in Transports
  PROVE  /\ SM!ToBeSent(x, Empty, k) \in Machines
         /\ SM!ToBeSent(x, Empty, k).maybe = x.maybe
         /\ SM!ToBeSent(x, Empty, k).sources = x.sources
         /\ SM!ToBeSent(x, Empty, k).inFlight[Empty] = x.inFlight[Empty] + 1
         /\ SM!ToBeSent(x, Empty, k).probes[Empty] = k
<1>1. /\ x.maybe \in BOOLEAN /\ x.sources \in SUBSET Sources /\ x.inFlight \in [{Empty} -> Nat]
      /\ x.probes \in [{Empty} -> Transports \cup {NoProbe}]
  BY DEF Machines, SM!StateMachines
<1>a. PICK n \in Nat : n = x.inFlight[Empty]
  BY <1>1
<1>b. SM!WithOne(x.inFlight, Empty) = [x.inFlight EXCEPT ![Empty] = n + 1]
  BY <1>a DEF SM!WithOne
<1>c. [x.inFlight EXCEPT ![Empty] = n + 1] \in [{Empty} -> Nat]
  BY <1>1, <1>a
<1>2. PICK bag \in [{Empty} -> Nat] : bag = SM!WithOne(x.inFlight, Empty)
  BY <1>b, <1>c
<1>3. PICK probes \in [{Empty} -> Transports \cup {NoProbe}] :
        probes = [x.probes EXCEPT ![Empty] = k]
  BY <1>1
<1>4. bag[Empty] = x.inFlight[Empty] + 1 /\ probes[Empty] = k
  BY <1>1, <1>a, <1>b, <1>2, <1>3
<1>5. SM!ToBeSent(x, Empty, k) = [x EXCEPT !.inFlight = bag, !.probes = probes]
  BY <1>2, <1>3 DEF SM!ToBeSent
<1>6. QED
  BY <1>1, <1>4, <1>5 DEF Machines, SM!StateMachines

LEMMA ReceivedMethod ==
  ASSUME NEW x \in Machines, NEW k \in Transports
  PROVE  /\ SM!Received(x, Empty, k) \in Machines
         /\ SM!Received(x, Empty, k).maybe = x.maybe
         /\ SM!Received(x, Empty, k).sources = x.sources \cup {k}
         /\ SM!Received(x, Empty, k).inFlight[Empty]
              = IF x.inFlight[Empty] = 0 THEN 0 ELSE x.inFlight[Empty] - 1
<1>1. /\ x.maybe \in BOOLEAN /\ x.sources \in SUBSET Sources /\ x.inFlight \in [{Empty} -> Nat]
      /\ x.probes \in [{Empty} -> Transports \cup {NoProbe}]
  BY DEF Machines, SM!StateMachines
<1>a. PICK n \in Nat : n = x.inFlight[Empty]
  BY <1>1
<1>b. SM!WithoutOne(x.inFlight, Empty) = [x.inFlight EXCEPT ![Empty] = IF n = 0 THEN 0 ELSE n - 1]
  BY <1>a DEF SM!WithoutOne
<1>c. [x.inFlight EXCEPT ![Empty] = IF n = 0 THEN 0 ELSE n - 1] \in [{Empty} -> Nat]
  BY <1>1, <1>a
<1>2. PICK bag \in [{Empty} -> Nat] : bag = SM!WithoutOne(x.inFlight, Empty)
  BY <1>b, <1>c
<1>3. PICK probes \in [{Empty} -> Transports \cup {NoProbe}] :
        probes = [x.probes EXCEPT ![Empty] = NoProbe]
  BY <1>1
<1>4. bag[Empty] = IF x.inFlight[Empty] = 0 THEN 0 ELSE x.inFlight[Empty] - 1
  BY <1>1, <1>a, <1>b, <1>2
<1>5. PICK sources \in SUBSET Sources : sources = x.sources \cup {k}
  BY <1>1 DEF Sources
<1>6. SM!Received(x, Empty, k)
        = [x EXCEPT !.inFlight = bag, !.sources = sources, !.probes = probes]
  BY <1>2, <1>3, <1>5 DEF SM!Received
<1>7. QED
  BY <1>1, <1>4, <1>5, <1>6 DEF Machines, SM!StateMachines

LEMMA TakeMethod ==
  ASSUME NEW x \in Machines
  PROVE  /\ SM!TakeIfVacant(x) \in Machines
         /\ SM!TakeIfVacant(x).sources = x.sources
         /\ SM!TakeIfVacant(x).inFlight = x.inFlight
         /\ SM!TakeIfVacant(x).probes = x.probes
         /\ x.maybe /\ ~SM!TakeIfVacant(x).maybe => x.sources = {} /\ x.inFlight[Empty] = 0
BY DEF Machines, SM!StateMachines, SM!TakeIfVacant, SM!Vacant, SM!NoneInFlight

LEMMA DisconnectMethod ==
  ASSUME NEW x \in Machines, NEW s \in Sources, NEW y, y = SM!Disconnect(x, s)
  PROVE  /\ y \in Machines
         /\ y.sources = x.sources \ {s} /\ y.inFlight = x.inFlight /\ y.probes = x.probes
         /\ x.maybe /\ ~y.maybe => y.sources = {} /\ y.inFlight[Empty] = 0
<1>1. PICK w : w = [x EXCEPT !.sources = x.sources \ {s}]
  OBVIOUS
<1>2. /\ w \in Machines /\ w.maybe = x.maybe /\ w.sources = x.sources \ {s}
      /\ w.inFlight = x.inFlight /\ w.probes = x.probes
  BY <1>1 DEF Machines, SM!StateMachines
<1>3. y = SM!TakeIfVacant(w)
  BY <1>1 DEF SM!Disconnect
<1>4. QED
  BY <1>2, <1>3, TakeMethod

LEMMA PollMethod ==
  ASSUME NEW x \in Machines, NEW failing, NEW y, y = SM!Poll(x, failing)
  PROVE  /\ y \in Machines /\ y.sources = x.sources
         /\ \/ y.inFlight[Empty] = x.inFlight[Empty] /\ y.probes[Empty] = x.probes[Empty]
            \/ /\ x.probes[Empty] \in failing /\ x.inFlight[Empty] > 0
               /\ y.inFlight[Empty] = 0
         /\ x.maybe /\ ~y.maybe => y.sources = {} /\ y.inFlight[Empty] = 0
<1>1. PICK lost : lost = SM!LostVias(x, failing)
  OBVIOUS
<1>2. PICK w : w = SM!WriteOff(x, lost)
  OBVIOUS
<1>3. /\ w \in Machines /\ w.maybe = x.maybe /\ w.sources = x.sources
      /\ w.inFlight[Empty] = IF Empty \in lost THEN 0 ELSE x.inFlight[Empty]
      /\ w.probes[Empty] = IF Empty \in lost THEN NoProbe ELSE x.probes[Empty]
  BY <1>2 DEF Machines, SM!StateMachines, SM!WriteOff
<1>4. Empty \in lost <=> x.probes[Empty] \in failing /\ x.inFlight[Empty] > 0
  BY <1>1 DEF SM!LostVias
<1>5. y = IF x.maybe THEN SM!TakeIfVacant(w) ELSE x
  BY <1>1, <1>2 DEF SM!Poll
<1>6. CASE x.maybe
  <2>1. /\ y \in Machines /\ y.sources = w.sources
        /\ y.inFlight = w.inFlight /\ y.probes = w.probes
        /\ w.maybe /\ ~y.maybe => w.sources = {} /\ w.inFlight[Empty] = 0
    BY <1>3, <1>5, <1>6, TakeMethod
  <2>2. QED
    BY <1>3, <1>4, <2>1
<1>7. CASE ~x.maybe
  BY <1>5, <1>7
<1>8. QED
  BY <1>6, <1>7

-----------------------------------------------------------------------------
(* What a message added or taken leaves true of the queue.                 *)

QuietQueue == \A i \in DOMAIN queue : queue[i].type \in {"Data", "Disconnect"}

LEMMA MessagesDistinct ==
  /\ \A k, u : /\ SendingViaIpcChannel(k) = SendingViaIpcChannel(u) => k = u
               /\ Received(k) = Received(u) => k = u
               /\ SendingViaIpcChannel(k) # Received(u)
               /\ SendingViaIpcChannel(k).type \notin {"Data", "Disconnect", "Received"}
               /\ Received(k).type \notin {"Data", "Disconnect", "SendingViaIpcChannel"}
  /\ \A s, r : Disconnect(s) = Disconnect(r) => s = r
  /\ \A k, s : Disconnect(s) # SendingViaIpcChannel(k) /\ Disconnect(s) # Received(k)
BY MessagesTold

LEMMA OrderedAppended ==
  ASSUME TypeOK, NEW k \in Transports, Ordered(k), NEW m \in Messages, ToOwner(m),
         m = SendingViaIpcChannel(k)
           => ~InQueue(SendingViaIpcChannel(k)) /\ ~InQueue(Received(k)),
         m = Received(k) => ~InQueue(Received(k))
  PROVE  Ordered(k)'
<1>1. PICK q \in Seq(Messages) : q = queue
  BY DEF TypeOK
<1>2. queue' = Append(q, m)
  BY <1>1 DEF ToOwner
<1>3. PICK p : p = Append(q, m)
  OBVIOUS
<1>4. /\ p \in Seq(Messages) /\ Len(q) \in Nat
      /\ DOMAIN q = 1 .. Len(q) /\ DOMAIN p = 1 .. Len(q) + 1
      /\ \A i \in DOMAIN q : p[i] = q[i]
      /\ p[Len(q) + 1] = m
  BY <1>3, AppendIndexed
<1>5. PICK a, r : a = SendingViaIpcChannel(k) /\ r = Received(k)
  OBVIOUS
<1>6. /\ a # r
      /\ m = a => \A i \in DOMAIN q : q[i] # a /\ q[i] # r
      /\ m = r => \A i \in DOMAIN q : q[i] # r
  BY <1>1, <1>5, MessagesDistinct DEF InQueue, Told
<1>7. \A i, j \in DOMAIN q :
           /\ q[i] = a /\ q[j] = a => i = j
           /\ q[i] = r /\ q[j] = r => i = j
           /\ q[i] = a /\ q[j] = r => i < j
  BY <1>1, <1>5 DEF Ordered
<1>8. \A i, j \in DOMAIN p :
           /\ p[i] = a /\ p[j] = a => i = j
           /\ p[i] = r /\ p[j] = r => i = j
           /\ p[i] = a /\ p[j] = r => i < j
  BY <1>4, <1>6, <1>7
<1>9. QED
  BY <1>2, <1>3, <1>5, <1>8 DEF Ordered

LEMMA AboutAppended ==
  ASSUME TypeOK, NEW k \in Transports, AboutQueue(k), NEW m \in Messages, ToOwner(m),
         \/ m.type \in {"Data", "Disconnect"}
         \/ m = Received(k) /\ ~InQueue(Received(k))
  PROVE  AboutQueue(k)'
<1>1. PICK q \in Seq(Messages) : q = queue
  BY DEF TypeOK
<1>2. queue' = Append(q, m)
  BY <1>1 DEF ToOwner
<1>3. PICK p : p = Append(q, m)
  OBVIOUS
<1>4. /\ Len(q) \in Nat /\ DOMAIN q = 1 .. Len(q) /\ DOMAIN p = 1 .. Len(q) + 1
      /\ \A i \in DOMAIN q : p[i] = q[i]
      /\ p[Len(q) + 1] = m
  BY <1>3, AppendIndexed
<1>5. PICK a, r : a = SendingViaIpcChannel(k) /\ r = Received(k)
  OBVIOUS
<1>6. \A i \in DOMAIN q : q[i].type \in {"Data", "Disconnect"} \/ q[i] = a \/ q[i] = r
  BY <1>1, <1>5 DEF AboutQueue
<1>7. \A i \in DOMAIN p : p[i].type \in {"Data", "Disconnect"} \/ p[i] = a \/ p[i] = r
  BY <1>4, <1>5, <1>6
<1>8. Ordered(k)'
  <2>1. m # SendingViaIpcChannel(k) /\ (m = Received(k) => ~InQueue(Received(k)))
    BY MessagesDistinct
  <2>2. QED
    BY <2>1, OrderedAppended DEF AboutQueue
<1>9. QED
  BY <1>2, <1>3, <1>5, <1>7, <1>8 DEF AboutQueue

LEMMA OrderedTaken ==
  ASSUME TypeOK, NEW k \in Transports, Ordered(k), queue # <<>>, queue' = Tail(queue)
  PROVE  /\ Ordered(k)'
         /\ Head(queue) = SendingViaIpcChannel(k) => ~InQueue(SendingViaIpcChannel(k))'
         /\ Head(queue) = Received(k) =>
              ~InQueue(Received(k))' /\ ~InQueue(SendingViaIpcChannel(k))
<1>1. PICK q \in Seq(Messages) : q = queue
  BY DEF TypeOK
<1>2. PICK p : p = Tail(q)
  OBVIOUS
<1>3. /\ Len(q) \in Nat /\ Len(q) > 0
      /\ DOMAIN q = 1 .. Len(q) /\ DOMAIN p = 1 .. Len(q) - 1
      /\ \A i \in DOMAIN p : p[i] = q[i + 1]
      /\ Head(q) = q[1]
  BY <1>1, <1>2, TailIndexed
<1>4. PICK a, r : a = SendingViaIpcChannel(k) /\ r = Received(k)
  OBVIOUS
<1>5. \A i, j \in DOMAIN q :
           /\ q[i] = a /\ q[j] = a => i = j
           /\ q[i] = r /\ q[j] = r => i = j
           /\ q[i] = a /\ q[j] = r => i < j
  BY <1>1, <1>4 DEF Ordered
<1>6. \A i \in DOMAIN p : i \in 1 .. Len(q) - 1 /\ i + 1 \in DOMAIN q /\ i + 1 # 1
  BY <1>3
<1>7. 1 \in DOMAIN q
  BY <1>3
<1>8. \A i, j \in DOMAIN p :
           /\ p[i] = a /\ p[j] = a => i = j
           /\ p[i] = r /\ p[j] = r => i = j
           /\ p[i] = a /\ p[j] = r => i < j
  BY <1>3, <1>5, <1>6
<1>9. Ordered(k)'
  BY <1>1, <1>2, <1>4, <1>8 DEF Ordered
<1>10. q[1] = a => \A i \in DOMAIN p : p[i] # a
  BY <1>3, <1>5, <1>6, <1>7
<1>11. q[1] = r => /\ \A i \in DOMAIN p : p[i] # r
                   /\ \A i \in DOMAIN q : q[i] # a
  BY <1>3, <1>5, <1>6, <1>7
<1>12. QED
  BY <1>1, <1>2, <1>3, <1>4, <1>9, <1>10, <1>11 DEF InQueue, Told

LEMMA AboutTaken ==
  ASSUME TypeOK, NEW k \in Transports, AboutQueue(k), queue # <<>>, queue' = Tail(queue)
  PROVE  /\ AboutQueue(k)'
         /\ Head(queue) = SendingViaIpcChannel(k) => ~InQueue(SendingViaIpcChannel(k))'
         /\ Head(queue) = Received(k) =>
              ~InQueue(Received(k))' /\ ~InQueue(SendingViaIpcChannel(k))
         /\ Head(queue).type \in {"SendingViaIpcChannel", "Received"} =>
              Head(queue) \in {SendingViaIpcChannel(k), Received(k)}
<1>1. PICK q \in Seq(Messages) : q = queue
  BY DEF TypeOK
<1>2. PICK p : p = Tail(q)
  OBVIOUS
<1>3. /\ Len(q) \in Nat /\ Len(q) > 0
      /\ DOMAIN q = 1 .. Len(q) /\ DOMAIN p = 1 .. Len(q) - 1
      /\ \A i \in DOMAIN p : p[i] = q[i + 1]
      /\ Head(q) = q[1]
  BY <1>1, <1>2, TailIndexed
<1>4. PICK a, r : a = SendingViaIpcChannel(k) /\ r = Received(k)
  OBVIOUS
<1>5. \A i \in DOMAIN q : q[i].type \in {"Data", "Disconnect"} \/ q[i] = a \/ q[i] = r
  BY <1>1, <1>4 DEF AboutQueue
<1>6. \A i \in DOMAIN p : p[i].type \in {"Data", "Disconnect"} \/ p[i] = a \/ p[i] = r
  BY <1>3, <1>5
<1>7. q[1].type \in {"SendingViaIpcChannel", "Received"} => q[1] \in {a, r}
  BY <1>3, <1>5
<1>8. QED
  BY <1>1, <1>2, <1>3, <1>4, <1>6, <1>7, OrderedTaken DEF AboutQueue

LEMMA QuietTaken ==
  ASSUME TypeOK, QuietQueue, queue # <<>>, queue' = Tail(queue)
  PROVE  QuietQueue' /\ Head(queue).type \in {"Data", "Disconnect"}
<1>1. PICK q \in Seq(Messages) : q = queue
  BY DEF TypeOK
<1>2. /\ Len(q) \in Nat /\ Len(q) > 0
      /\ DOMAIN q = 1 .. Len(q) /\ DOMAIN Tail(q) = 1 .. Len(q) - 1
      /\ \A i \in DOMAIN Tail(q) : Tail(q)[i] = q[i + 1]
      /\ Head(q) = q[1]
  BY <1>1, TailIndexed
<1>3. \A i \in DOMAIN Tail(q) : i + 1 \in DOMAIN q
  BY <1>2
<1>4. 1 \in DOMAIN q
  BY <1>2
<1>5. QED
  BY <1>1, <1>2, <1>3, <1>4 DEF QuietQueue

LEMMA QuietAppended ==
  ASSUME TypeOK, QuietQueue, NEW m \in Messages, ToOwner(m)
  PROVE  /\ m.type \in {"Data", "Disconnect"} => QuietQueue'
         /\ \A k \in Transports : m = SendingViaIpcChannel(k) => AboutQueue(k)'
<1>1. PICK q \in Seq(Messages) : q = queue
  BY DEF TypeOK
<1>2. queue' = Append(q, m)
  BY <1>1 DEF ToOwner
<1>3. /\ Len(q) \in Nat
      /\ DOMAIN q = 1 .. Len(q) /\ DOMAIN Append(q, m) = 1 .. Len(q) + 1
      /\ \A i \in DOMAIN q : Append(q, m)[i] = q[i]
      /\ Append(q, m)[Len(q) + 1] = m
  BY AppendIndexed
<1>4. \A i \in DOMAIN queue' : \/ queue'[i].type \in {"Data", "Disconnect"}
                               \/ i = Len(q) + 1 /\ queue'[i] = m
  BY <1>1, <1>2, <1>3 DEF QuietQueue
<1>5. QED
  BY <1>4, MessagesDistinct DEF QuietQueue, AboutQueue, Ordered

\* A queue about k with nothing of it left in it is quiet.
LEMMA AboutNothing ==
  ASSUME NEW k, AboutQueue(k), ~InQueue(SendingViaIpcChannel(k)), ~InQueue(Received(k))
  PROVE  QuietQueue
BY DEF AboutQueue, Ordered, InQueue, Told, QuietQueue

LEMMA QuietHasNone ==
  ASSUME QuietQueue, NEW k
  PROVE  ~InQueue(SendingViaIpcChannel(k)) /\ ~InQueue(Received(k))
BY MessagesDistinct DEF QuietQueue, InQueue, Told

\* Others' messages are not in a queue about k.
LEMMA AboutOneOnly ==
  ASSUME NEW k, AboutQueue(k), NEW u, u # k
  PROVE  ~InQueue(SendingViaIpcChannel(u)) /\ ~InQueue(Received(u))
BY MessagesDistinct DEF AboutQueue, Ordered, InQueue, Told

-----------------------------------------------------------------------------
(* Where payloads and wrapped copies come from.                            *)

LEMMA SentAppended ==
  ASSUME TypeOK, SentFromSource, NEW m \in Messages, ToOwner(m), UNCHANGED sm,
         m.type \in {"Data", "SendingViaIpcChannel"} =>
           \E s \in Sources : /\ s \in sm.sources \/ InQueue(Received(s))
                             /\ ~InQueue(Disconnect(s))
  PROVE  SentFromSource'
<1>1. PICK q \in Seq(Messages) : q = queue
  BY DEF TypeOK
<1>2. queue' = Append(q, m)
  BY <1>1 DEF ToOwner
<1>3. /\ Len(q) \in Nat
      /\ DOMAIN q = 1 .. Len(q) /\ DOMAIN Append(q, m) = 1 .. Len(q) + 1
      /\ \A i \in DOMAIN q : Append(q, m)[i] = q[i]
      /\ Append(q, m)[Len(q) + 1] = m
  BY AppendIndexed
<1>4. SUFFICES ASSUME NEW i \in DOMAIN queue',
                      queue'[i].type \in {"Data", "SendingViaIpcChannel"}
               PROVE  \E s \in Sources : FromSource(i, s)'
  BY DEF SentFromSource
<1>5. \A j \in DOMAIN queue' : j < i => j \in DOMAIN q /\ queue'[j] = q[j]
  BY <1>2, <1>3, <1>4
<1>6. CASE i \in DOMAIN q
  <2>1. PICK s \in Sources : FromSource(i, s)
    BY <1>1, <1>2, <1>3, <1>4, <1>6 DEF SentFromSource
  <2>2. s \in sm'.sources \/ \E h \in DOMAIN queue' : h < i /\ queue'[h] = Received(s)
    BY <1>1, <1>2, <1>3, <2>1 DEF FromSource
  <2>3. \A j \in DOMAIN queue' : j < i => queue'[j] # Disconnect(s)
    BY <1>1, <1>5, <2>1 DEF FromSource
  <2>4. QED
    BY <2>2, <2>3 DEF FromSource
<1>7. CASE i = Len(q) + 1
  <2>1. PICK s \in Sources : /\ s \in sm.sources \/ InQueue(Received(s))
                             /\ ~InQueue(Disconnect(s))
    BY <1>2, <1>3, <1>4, <1>7
  <2>2. InQueue(Received(s)) => \E h \in DOMAIN queue' : h < i /\ queue'[h] = Received(s)
    BY <1>1, <1>2, <1>3, <1>7 DEF InQueue, Told
  <2>3. \A j \in DOMAIN queue' : j < i => queue'[j] # Disconnect(s)
    BY <1>1, <1>5, <2>1 DEF InQueue, Told
  <2>4. QED
    BY <2>1, <2>2, <2>3 DEF FromSource
<1>8. QED
  BY <1>2, <1>3, <1>6, <1>7

LEMMA SentTaken ==
  ASSUME TypeOK, SentFromSource, queue # <<>>, queue' = Tail(queue),
         \A s \in sm.sources : s \in sm'.sources \/ Head(queue) = Disconnect(s),
         \A s \in Sources : Head(queue) = Received(s) => s \in sm'.sources
  PROVE  SentFromSource'
<1>1. PICK q \in Seq(Messages) : q = queue
  BY DEF TypeOK
<1>2. /\ Len(q) \in Nat /\ Len(q) > 0
      /\ DOMAIN q = 1 .. Len(q) /\ DOMAIN Tail(q) = 1 .. Len(q) - 1
      /\ \A i \in DOMAIN Tail(q) : Tail(q)[i] = q[i + 1]
      /\ Head(q) = q[1]
  BY <1>1, TailIndexed
<1>3. SUFFICES ASSUME NEW i \in DOMAIN queue',
                      queue'[i].type \in {"Data", "SendingViaIpcChannel"}
               PROVE  \E s \in Sources : FromSource(i, s)'
  BY DEF SentFromSource
<1>4. i \in Nat /\ i + 1 \in DOMAIN q /\ q[i + 1].type \in {"Data", "SendingViaIpcChannel"}
  BY <1>1, <1>2, <1>3
<1>5. PICK s \in Sources : FromSource(i + 1, s)
  BY <1>1, <1>4 DEF SentFromSource
<1>6. 1 \in DOMAIN q /\ 1 < i + 1 /\ q[1] # Disconnect(s)
  BY <1>1, <1>2, <1>3, <1>5 DEF FromSource
<1>7. s \in sm'.sources \/ \E h \in DOMAIN queue' : h < i /\ queue'[h] = Received(s)
  <2>1. CASE s \in sm.sources
    BY <1>1, <1>2, <1>6, <2>1
  <2>2. CASE \E h \in DOMAIN q : h < i + 1 /\ q[h] = Received(s)
    <3>1. PICK h \in DOMAIN q : h < i + 1 /\ q[h] = Received(s)
      BY <2>2
    <3>2. CASE h = 1
      BY <1>1, <1>2, <3>1, <3>2
    <3>3. CASE h # 1
      <4>1. h - 1 \in DOMAIN queue' /\ h - 1 < i /\ (h - 1) + 1 = h
        BY <1>1, <1>2, <1>4, <3>1, <3>3
      <4>2. QED
        BY <1>1, <1>2, <3>1, <4>1
    <3>4. QED
      BY <3>2, <3>3
  <2>3. QED
    BY <1>1, <1>5, <2>1, <2>2 DEF FromSource
<1>8. \A j \in DOMAIN queue' : j < i => j + 1 \in DOMAIN q /\ j + 1 < i + 1
  BY <1>1, <1>2, <1>4
<1>9. \A j \in DOMAIN queue' : j < i => queue'[j] # Disconnect(s)
  BY <1>1, <1>2, <1>5, <1>8 DEF FromSource
<1>10. QED
  BY <1>7, <1>9 DEF FromSource

-----------------------------------------------------------------------------
(* Types.                                                                  *)

LEMMA OwnerMachine ==
  ASSUME TypeOK
  PROVE  /\ sm \in Machines
         /\ sm.maybe \in BOOLEAN /\ sm.sources \subseteq Sources /\ sm.inFlight[Empty] \in Nat
BY DEF TypeOK, Machines, SM!StateMachines

LEMMA InitTyped == Init => TypeOK
<1>1. ASSUME Init PROVE TypeOK
  <2>1. SM!New(Origin) \in SM!StateMachines(Transports)
    BY DEF SM!New, SM!StateMachines, Sources
  <2>2. sm \in SM!StateMachines(Transports)
    BY <1>1, <2>1 DEF Init
  <2>3. queue \in Seq(Messages)
    BY <1>1 DEF Init
  <2>4. held \in [Sources -> Nat] /\ dropping \subseteq Sources /\ sent \in Nat
    BY <1>1 DEF Init
  <2>5. wrapper \in [Transports -> {"unused", "wrapped", "unwrapped", "lost", "crashed"}]
        /\ polling \in BOOLEAN
    BY <1>1 DEF Init
  <2>6. QED
    BY <2>2, <2>3, <2>4, <2>5 DEF TypeOK
<1>2. QED
  BY <1>1

\* What the owner's handlers do to its state machine and queue.
LEMMA HandlersTyped ==
  ASSUME TypeOK, NEW type, Handle(type)
  PROVE  /\ queue' \in Seq(Messages) /\ Head(queue) \in Messages /\ Head(queue).type = type
         /\ UNCHANGED <<polling, wrapper, held, dropping, sent>>
BY Taken DEF Handle

LEMMA HandleSendingStep ==
  ASSUME TypeOK, HandleSendingViaIpcChannel,
         NEW k \in Transports, Head(queue) = SendingViaIpcChannel(k)
  PROVE  /\ sm' \in Machines
         /\ sm'.maybe = sm.maybe /\ sm'.sources = sm.sources
         /\ sm'.inFlight[Empty] = sm.inFlight[Empty] + 1 /\ sm'.probes[Empty] = k
<1>1. PICK x \in Machines : x = sm
  BY OwnerMachine
<1>2. sm' = SM!ToBeSent(x, Empty, k)
  BY <1>1, MessagesTold DEF HandleSendingViaIpcChannel
<1>3. QED
  BY <1>1, <1>2, Methods

LEMMA HandleReceivedStep ==
  ASSUME TypeOK, HandleReceived, NEW k \in Transports, Head(queue) = Received(k)
  PROVE  /\ sm' \in Machines
         /\ sm'.maybe = sm.maybe /\ sm'.sources = sm.sources \cup {k}
         /\ sm'.inFlight[Empty] = IF sm.inFlight[Empty] = 0 THEN 0 ELSE sm.inFlight[Empty] - 1
<1>1. PICK x \in Machines : x = sm
  BY OwnerMachine
<1>2. sm' = SM!Received(x, Empty, k)
  BY <1>1, MessagesTold DEF HandleReceived
<1>3. QED
  BY <1>1, <1>2, ReceivedMethod

LEMMA HandleDisconnectStep ==
  ASSUME TypeOK, HandleDisconnect, NEW s \in Sources, Head(queue) = Disconnect(s)
  PROVE  /\ sm' \in Machines
         /\ sm'.sources = sm.sources \ {s}
         /\ sm'.inFlight = sm.inFlight /\ sm'.probes = sm.probes
         /\ sm.maybe /\ ~sm'.maybe => sm'.sources = {} /\ sm'.inFlight[Empty] = 0
<1>1. PICK x \in Machines : x = sm
  BY OwnerMachine
<1>2. PICK y : y = SM!Disconnect(x, s)
  OBVIOUS
<1>3. sm' = y
  BY <1>1, <1>2, MessagesTold DEF HandleDisconnect
<1>4. QED
  BY <1>1, <1>2, <1>3, DisconnectMethod

LEMMA PollStep ==
  ASSUME TypeOK, Poll
  PROVE  /\ sm' \in Machines /\ sm'.sources = sm.sources
         /\ \/ sm'.inFlight[Empty] = sm.inFlight[Empty] /\ sm'.probes[Empty] = sm.probes[Empty]
            \/ /\ sm.probes[Empty] \in Transports /\ ~KeepaliveOpen(sm.probes[Empty])
               /\ sm'.inFlight[Empty] = 0
         /\ sm.maybe /\ ~sm'.maybe => sm'.sources = {} /\ sm'.inFlight[Empty] = 0
<1>1. PICK x \in Machines : x = sm
  BY OwnerMachine
<1>2. PICK failing : failing = FailingProbes
  OBVIOUS
<1>3. PICK y : y = SM!Poll(x, failing)
  OBVIOUS
<1>4. sm' = y
  BY <1>1, <1>2, <1>3 DEF Poll
<1>5. PICK k : k = x.probes[Empty]
  OBVIOUS
<1>6. k \in failing => k \in Transports /\ ~KeepaliveOpen(k)
  BY <1>2 DEF FailingProbes
<1>7. sm.probes[Empty] \in failing
        => sm.probes[Empty] \in Transports /\ ~KeepaliveOpen(sm.probes[Empty])
  BY <1>1, <1>5, <1>6 DEF KeepaliveOpen
<1>8. QED
  BY <1>1, <1>3, <1>4, <1>7, PollMethod

\* The head of the queue when a handler of its type runs.
LEMMA HeadOfType ==
  ASSUME TypeOK, NEW type, Handle(type)
  PROVE  /\ type = "SendingViaIpcChannel" =>
              \E k \in Transports : Head(queue) = SendingViaIpcChannel(k)
         /\ type = "Received" => \E k \in Transports : Head(queue) = Received(k)
         /\ type = "Disconnect" => \E s \in Sources : Head(queue) = Disconnect(s)
BY HandlersTyped, MessageKinds, MessagesTold

LEMMA HolderTyped ==
  ASSUME TypeOK, NEW s \in Sources, HolderStep(s)
  PROVE  TypeOK'
<1>1. CASE SendData(s)
  BY <1>1, Appended, MessagesTyped DEF SendData, TypeOK
<1>2. CASE Clone(s)
  BY <1>2 DEF Clone, TypeOK
<1>3. CASE DropCopy(s)
  BY <1>3 DEF DropCopy, GiveUp, TypeOK
<1>4. CASE FinishDrop(s)
  BY <1>4, Appended, MessagesTyped DEF FinishDrop, TypeOK
<1>5. CASE \E k \in Transports : Wrap(s, k)
  <2>1. PICK k \in Transports : Wrap(s, k)
    BY <1>5
  <2>2. queue' \in Seq(Messages)
    BY <2>1, Appended, MessagesTyped DEF Wrap
  <2>3. QED
    BY <2>1, <2>2 DEF Wrap, GiveUp, TypeOK
<1>6. QED
  BY <1>1, <1>2, <1>3, <1>4, <1>5 DEF HolderStep

LEMMA TransportTyped ==
  ASSUME TypeOK, NEW k \in Transports, TransportStep(k)
  PROVE  TypeOK'
<1>1. CASE Unwrap(k)
  <2>1. queue' \in Seq(Messages)
    BY <1>1, Appended, MessagesTyped DEF Unwrap
  <2>2. QED
    BY <1>1, <2>1 DEF Unwrap, TypeOK, Sources
<1>2. CASE LoseWrapper(k)
  BY <1>2 DEF LoseWrapper, TypeOK
<1>3. CASE Crash(k)
  BY <1>3 DEF Crash, TypeOK, Sources
<1>4. QED
  BY <1>1, <1>2, <1>3 DEF TransportStep

LEMMA OwnerTyped ==
  ASSUME TypeOK, OwnerStep
  PROVE  TypeOK'
<1>1. CASE HandleData
  BY <1>1, HandlersTyped DEF HandleData, TypeOK
<1>2. CASE HandleSendingViaIpcChannel
  BY <1>2, HandlersTyped, HeadOfType, HandleSendingStep
     DEF HandleSendingViaIpcChannel, TypeOK, Machines
<1>3. CASE HandleReceived
  BY <1>3, HandlersTyped, HeadOfType, HandleReceivedStep DEF HandleReceived, TypeOK, Machines
<1>4. CASE HandleDisconnect
  BY <1>4, HandlersTyped, HeadOfType, HandleDisconnectStep
     DEF HandleDisconnect, TypeOK, Machines
<1>5. CASE TimeOut
  BY <1>5 DEF TimeOut, TypeOK
<1>6. CASE Poll
  BY <1>6, PollStep DEF Poll, TypeOK, Machines
<1>7. QED
  BY <1>1, <1>2, <1>3, <1>4, <1>5, <1>6 DEF OwnerStep

LEMMA TypedStep == TypeOK /\ [Next]_vars => TypeOK'
<1>1. ASSUME TypeOK, UNCHANGED vars PROVE TypeOK'
  BY <1>1 DEF TypeOK, vars
<1>2. QED
  BY <1>1, HolderTyped, TransportTyped, OwnerTyped DEF Next

-----------------------------------------------------------------------------
(* The transport under way, step by step.                                  *)

\* No source comes back to life.
NoneRevived ==
  \A k \in Transports : held[k] = 0 /\ k \notin dropping => held'[k] = 0 /\ k \notin dropping'

LEMMA OneStays ==
  ASSUME OneUnderWay, UNCHANGED <<queue, wrapper>>, NoneRevived,
         sm'.inFlight[Empty] = sm.inFlight[Empty], sm'.probes[Empty] = sm.probes[Empty]
  PROVE  OneUnderWay'
<1>1. CASE Idle
  BY <1>1 DEF OneUnderWay, Idle, NoneUnderWay
<1>2. ASSUME NEW k \in Transports, About(k), Announced(k) \/ Watched(k) \/ WrittenOff(k)
      PROVE  OneUnderWay'
  <2>1. About(k)'
    BY <1>2 DEF About, AboutQueue, Ordered, InQueue, Told
  <2>2. Announced(k) => Announced(k)'
    BY DEF Announced, InQueue, Told
  <2>3. Watched(k) => Watched(k)'
    BY DEF Watched, InQueue, Told
  <2>4. WrittenOff(k) => WrittenOff(k)'
    BY DEF WrittenOff, InQueue, Told, NoneRevived
  <2>5. QED
    BY <1>2, <2>1, <2>2, <2>3, <2>4 DEF OneUnderWay
<1>3. QED
  BY <1>1, <1>2 DEF OneUnderWay

LEMMA OneAppended ==
  ASSUME TypeOK, OneUnderWay, UNCHANGED <<wrapper, sm>>, NoneRevived,
         NEW m \in Messages, m.type \in {"Data", "Disconnect"}, ToOwner(m)
  PROVE  OneUnderWay'
<1>1. CASE Idle
  <2>1. QuietQueue'
    BY <1>1, QuietAppended DEF Idle, NoneUnderWay, QuietQueue
  <2>2. QED
    BY <1>1, <2>1 DEF OneUnderWay, Idle, NoneUnderWay, QuietQueue
<1>2. ASSUME NEW k \in Transports, About(k), Announced(k) \/ Watched(k) \/ WrittenOff(k)
      PROVE  OneUnderWay'
  <2>1. m # SendingViaIpcChannel(k) /\ m # Received(k)
    BY MessagesDistinct
  <2>2. /\ InQueue(SendingViaIpcChannel(k))' <=> InQueue(SendingViaIpcChannel(k))
        /\ InQueue(Received(k))' <=> InQueue(Received(k))
    <3>1. PICK a, r : a = SendingViaIpcChannel(k) /\ r = Received(k)
      OBVIOUS
    <3>2. (InQueue(a)' <=> InQueue(a)) /\ (InQueue(r)' <=> InQueue(r))
      BY <2>1, <3>1, Appended
    <3>3. QED
      BY <3>1, <3>2
  <2>3. About(k)'
    BY <1>2, <2>2, AboutAppended DEF About
  <2>4. Announced(k) => Announced(k)'
    BY <2>2 DEF Announced
  <2>5. Watched(k) => Watched(k)'
    BY <2>2 DEF Watched
  <2>6. WrittenOff(k) => WrittenOff(k)'
    BY <2>2 DEF WrittenOff, NoneRevived
  <2>7. QED
    BY <1>2, <2>3, <2>4, <2>5, <2>6 DEF OneUnderWay
<1>3. QED
  BY <1>1, <1>2 DEF OneUnderWay

LEMMA OneTaken ==
  ASSUME TypeOK, OneUnderWay, UNCHANGED <<wrapper, held, dropping>>,
         sm'.inFlight = sm.inFlight, sm'.probes = sm.probes,
         queue # <<>>, queue' = Tail(queue), Head(queue).type \in {"Data", "Disconnect"}
  PROVE  OneUnderWay'
<1>1. CASE Idle
  <2>1. QuietQueue'
    BY <1>1, QuietTaken DEF Idle, NoneUnderWay, QuietQueue
  <2>2. QED
    BY <1>1, <2>1 DEF OneUnderWay, Idle, NoneUnderWay, QuietQueue
<1>2. ASSUME NEW k \in Transports, About(k), Announced(k) \/ Watched(k) \/ WrittenOff(k)
      PROVE  OneUnderWay'
  <2>2. /\ InQueue(SendingViaIpcChannel(k))' <=> InQueue(SendingViaIpcChannel(k))
        /\ InQueue(Received(k))' <=> InQueue(Received(k))
    <3>1. PICK a, r, h : a = SendingViaIpcChannel(k) /\ r = Received(k) /\ h = Head(queue)
      OBVIOUS
    <3>2. a # h /\ r # h
      BY <3>1, MessagesDistinct
    <3>3. (InQueue(a)' <=> InQueue(a)) /\ (InQueue(r)' <=> InQueue(r))
      BY <3>1, <3>2, Taken
    <3>4. QED
      BY <3>1, <3>3
  <2>3. About(k)'
    BY <1>2, <2>2, AboutTaken DEF About
  <2>4. Announced(k) => Announced(k)'
    BY <2>2 DEF Announced
  <2>5. Watched(k) => Watched(k)'
    BY <2>2 DEF Watched
  <2>6. WrittenOff(k) => WrittenOff(k)'
    BY <2>2 DEF WrittenOff
  <2>7. QED
    BY <1>2, <2>3, <2>4, <2>5, <2>6 DEF OneUnderWay
<1>3. QED
  BY <1>1, <1>2 DEF OneUnderWay

\* A transport starts when none is under way.
LEMMA OneStarts ==
  ASSUME TypeOK, OneUnderWay, NotArrived, OneAtATime,
         NEW s \in Sources, NEW k \in Transports, Wrap(s, k)
  PROVE  OneUnderWay'
<1>1. NoneUnderWay /\ QuietQueue
  BY DEF Wrap, QuietQueue, NoneUnderWay
<1>2. \A u \in Transports : wrapper[u] # "wrapped"
  <2>1. SUFFICES ASSUME NEW u \in Transports, About(u),
                        Announced(u) \/ Watched(u) \/ WrittenOff(u)
                 PROVE  FALSE
    BY DEF OneUnderWay, Idle
  <2>2. ~InQueue(SendingViaIpcChannel(u)) /\ ~InQueue(Received(u))
    BY <1>1, QuietHasNone
  <2>3. QED
    BY <1>1, <2>1, <2>2 DEF NoneUnderWay, Announced, Watched, WrittenOff
<1>3. AboutQueue(k)'
  BY <1>1, QuietAppended, MessagesTyped DEF Wrap
<1>4. InQueue(SendingViaIpcChannel(k))' /\ ~InQueue(Received(k))'
  <2>1. PICK a, r : a = SendingViaIpcChannel(k) /\ r = Received(k)
    OBVIOUS
  <2>2. a # r /\ ~InQueue(r)
    BY <1>1, <2>1, QuietHasNone, MessagesDistinct
  <2>3. InQueue(a)' /\ ~InQueue(r)'
    BY <2>1, <2>2, Appended, MessagesTyped DEF Wrap
  <2>4. QED
    BY <2>1, <2>3
<1>5. wrapper'[k] = "wrapped" /\ \A u \in Transports \ {k} : wrapper'[u] = wrapper[u]
  BY DEF Wrap, TypeOK
<1>6. About(k)'
  BY <1>2, <1>3, <1>4, <1>5 DEF About
<1>7. Announced(k)'
  BY <1>1, <1>4 DEF Announced, NoneUnderWay, Wrap
<1>8. QED
  BY <1>6, <1>7 DEF OneUnderWay

\* A transport whose wrapper is still out is the one under way.
LEMMA WrappedUnderWay ==
  ASSUME OneUnderWay, NEW k \in Transports, wrapper[k] = "wrapped"
  PROVE  About(k) /\ (Announced(k) \/ Watched(k)) /\ ~InQueue(Received(k))
<1>1. PICK u \in Transports : About(u) /\ (Announced(u) \/ Watched(u) \/ WrittenOff(u))
  BY DEF OneUnderWay, Idle
<1>2. u = k
  BY <1>1 DEF About
<1>3. ~InQueue(Received(k))
  BY <1>1, <1>2 DEF About
<1>4. QED
  BY <1>1, <1>2, <1>3 DEF WrittenOff

LEMMA OneArrives ==
  ASSUME TypeOK, OneUnderWay, NEW k \in Transports, Unwrap(k)
  PROVE  OneUnderWay'
<1>1. About(k) /\ (Announced(k) \/ Watched(k)) /\ ~InQueue(Received(k))
  BY WrappedUnderWay DEF Unwrap
<1>2. AboutQueue(k)'
  BY <1>1, AboutAppended, MessagesTyped DEF Unwrap, About
<1>3. /\ InQueue(SendingViaIpcChannel(k))' <=> InQueue(SendingViaIpcChannel(k))
      /\ InQueue(Received(k))'
  <2>1. PICK a, r : a = SendingViaIpcChannel(k) /\ r = Received(k)
    OBVIOUS
  <2>2. a # r
    BY <2>1, MessagesDistinct
  <2>3. (InQueue(a)' <=> InQueue(a)) /\ InQueue(r)'
    BY <2>1, <2>2, Appended, MessagesTyped DEF Unwrap
  <2>4. QED
    BY <2>1, <2>3
<1>4. wrapper'[k] = "unwrapped" /\ \A u \in Transports \ {k} : wrapper'[u] = wrapper[u]
  BY DEF Unwrap, TypeOK
<1>5. About(k)'
  BY <1>1, <1>2, <1>3, <1>4 DEF About
<1>6. Announced(k)' \/ Watched(k)'
  BY <1>1, <1>3 DEF Announced, Watched, Unwrap
<1>7. QED
  BY <1>5, <1>6 DEF OneUnderWay

LEMMA OneLost ==
  ASSUME TypeOK, OneUnderWay, NEW k \in Transports, LoseWrapper(k)
  PROVE  OneUnderWay'
<1>1. About(k) /\ (Announced(k) \/ Watched(k)) /\ ~InQueue(Received(k))
  BY WrappedUnderWay DEF LoseWrapper
<1>2. wrapper'[k] = "lost" /\ \A u \in Transports \ {k} : wrapper'[u] = wrapper[u]
  BY DEF LoseWrapper, TypeOK
<1>3. AboutQueue(k)' /\ ~InQueue(Received(k))'
  BY <1>1 DEF About, AboutQueue, Ordered, InQueue, Told, LoseWrapper
<1>4. About(k)'
  BY <1>1, <1>2, <1>3 DEF About
<1>5. Announced(k)' \/ Watched(k)'
  BY <1>1 DEF Announced, Watched, InQueue, Told, LoseWrapper
<1>6. QED
  BY <1>4, <1>5 DEF OneUnderWay

\* Only a process that has unwrapped the subsender crashes.
LEMMA OneCrashes ==
  ASSUME TypeOK, OneUnderWay, NotArrived, NEW k \in Transports, Crash(k)
  PROVE  OneUnderWay'
<1>1. wrapper[k] \in {"unwrapped", "crashed"}
  BY DEF Crash, NotArrived, TypeOK
<1>2. wrapper'[k] = "crashed" /\ \A u \in Transports \ {k} : wrapper'[u] = wrapper[u]
  BY DEF Crash, TypeOK
<1>3. NoneRevived
  BY DEF Crash, TypeOK, NoneRevived, Sources
<1>4. CASE Idle
  BY <1>2, <1>4 DEF OneUnderWay, Idle, NoneUnderWay, Crash
<1>5. ASSUME NEW u \in Transports, About(u), Announced(u) \/ Watched(u) \/ WrittenOff(u)
      PROVE  OneUnderWay'
  <2>1. AboutQueue(u)' /\ (InQueue(Received(u))' <=> InQueue(Received(u)))
    BY <1>5 DEF About, AboutQueue, Ordered, InQueue, Told, Crash
  <2>2. About(u)'
    BY <1>1, <1>2, <1>5, <2>1 DEF About
  <2>3. Announced(u) => Announced(u)'
    BY DEF Announced, InQueue, Told, Crash
  <2>4. Watched(u) => Watched(u)'
    BY DEF Watched, InQueue, Told, Crash
  <2>5. WrittenOff(u) => WrittenOff(u)'
    BY <1>3 DEF WrittenOff, InQueue, Told, NoneRevived, Crash
  <2>6. QED
    BY <1>5, <2>2, <2>3, <2>4, <2>5 DEF OneUnderWay
<1>6. QED
  BY <1>4, <1>5 DEF OneUnderWay

LEMMA OneAnnounced ==
  ASSUME TypeOK, OneUnderWay, HandleSendingViaIpcChannel
  PROVE  OneUnderWay'
<1>1. PICK u \in Transports : Head(queue) = SendingViaIpcChannel(u)
  BY HeadOfType DEF HandleSendingViaIpcChannel
<1>2. queue # <<>> /\ queue' = Tail(queue) /\ UNCHANGED <<wrapper, held, dropping>>
  BY DEF HandleSendingViaIpcChannel, Handle
<1>3. ~QuietQueue
  BY <1>1, <1>2, QuietTaken, MessagesDistinct
<1>4. PICK k \in Transports : About(k) /\ (Announced(k) \/ Watched(k) \/ WrittenOff(k))
  BY <1>3 DEF OneUnderWay, Idle, NoneUnderWay, QuietQueue
<1>5. Head(queue) \in {SendingViaIpcChannel(k), Received(k)}
  BY <1>1, <1>2, <1>4, AboutTaken, MessagesTold DEF About
<1>6. u = k
  BY <1>1, <1>5, MessagesDistinct
<1>7. PICK a, r : a = SendingViaIpcChannel(k) /\ r = Received(k)
  OBVIOUS
<1>8. InQueue(a) /\ ~InQueue(a)' /\ (InQueue(r)' <=> InQueue(r)) /\ AboutQueue(k)'
  <2>1. a # r
    BY <1>7, MessagesDistinct
  <2>2. InQueue(a) /\ (InQueue(r)' <=> InQueue(r))
    BY <1>1, <1>2, <1>6, <1>7, <2>1, Taken
  <2>3. ~InQueue(SendingViaIpcChannel(k))' /\ AboutQueue(k)'
    BY <1>1, <1>2, <1>4, <1>6, AboutTaken DEF About
  <2>4. QED
    BY <1>7, <2>2, <2>3
<1>9. Announced(k)
  BY <1>4, <1>7, <1>8 DEF Watched, WrittenOff
<1>10. sm'.inFlight[Empty] = 1 /\ sm'.probes[Empty] = k
  BY <1>1, <1>6, <1>9, HandleSendingStep, OwnerMachine DEF Announced
<1>11. Watched(k)'
  BY <1>7, <1>8, <1>10 DEF Watched
<1>12. About(k)'
  BY <1>2, <1>4, <1>7, <1>8 DEF About
<1>13. QED
  BY <1>11, <1>12 DEF OneUnderWay

LEMMA OneReceived ==
  ASSUME TypeOK, OneUnderWay, HandleReceived
  PROVE  Idle'
<1>1. PICK u \in Transports : Head(queue) = Received(u)
  BY HeadOfType DEF HandleReceived
<1>2. queue # <<>> /\ queue' = Tail(queue) /\ UNCHANGED <<wrapper, held, dropping>>
  BY DEF HandleReceived, Handle
<1>3. ~QuietQueue
  BY <1>1, <1>2, QuietTaken, MessagesDistinct
<1>4. PICK k \in Transports : About(k) /\ (Announced(k) \/ Watched(k) \/ WrittenOff(k))
  BY <1>3 DEF OneUnderWay, Idle, NoneUnderWay, QuietQueue
<1>5. Head(queue) \in {SendingViaIpcChannel(k), Received(k)}
  BY <1>1, <1>2, <1>4, AboutTaken, MessagesTold DEF About
<1>6. Head(queue) = Received(k)
  BY <1>1, <1>5, MessagesDistinct
<1>7. AboutQueue(k)' /\ ~InQueue(Received(k))' /\ ~InQueue(SendingViaIpcChannel(k))
  BY <1>2, <1>4, <1>6, AboutTaken DEF About
<1>8. PICK a, r : a = SendingViaIpcChannel(k) /\ r = Received(k)
  OBVIOUS
<1>9. InQueue(r) /\ ~InQueue(a)'
  BY <1>2, <1>6, <1>7, <1>8, Taken
<1>10. QuietQueue'
  BY <1>7, <1>8, <1>9 DEF AboutQueue, Ordered, InQueue, Told, QuietQueue
<1>11. wrapper[k] # "wrapped"
  BY <1>4, <1>8, <1>9 DEF About
<1>12. sm.inFlight[Empty] \in {0, 1}
  BY <1>4, <1>7 DEF Announced, Watched, WrittenOff
<1>13. sm'.inFlight[Empty] = 0
  BY <1>6, <1>12, HandleReceivedStep
<1>14. QED
  BY <1>2, <1>4, <1>10, <1>11, <1>13 DEF Idle, NoneUnderWay, QuietQueue, About

\* The keepalive that has closed is that of the transport under way.
LEMMA OnePolled ==
  ASSUME TypeOK, OneUnderWay, Poll
  PROVE  OneUnderWay'
<1>1. UNCHANGED <<queue, wrapper, held, dropping>> /\ NoneRevived
  BY DEF Poll, NoneRevived
<1>2. CASE sm'.inFlight[Empty] = sm.inFlight[Empty] /\ sm'.probes[Empty] = sm.probes[Empty]
  BY <1>1, <1>2, OneStays
<1>3. CASE /\ sm.probes[Empty] \in Transports /\ ~KeepaliveOpen(sm.probes[Empty])
           /\ sm'.inFlight[Empty] = 0
  <2>1. CASE Idle
    BY <1>1, <1>3, <2>1 DEF OneUnderWay, Idle, NoneUnderWay
  <2>2. ASSUME NEW k \in Transports, About(k), Announced(k) \/ Watched(k) \/ WrittenOff(k)
        PROVE  OneUnderWay'
    <3>1. About(k)'
      BY <1>1, <2>2 DEF About, AboutQueue, Ordered, InQueue, Told
    <3>2. CASE Announced(k)
      BY <1>1, <1>3, <3>1, <3>2 DEF OneUnderWay, Announced, InQueue, Told
    <3>3. CASE WrittenOff(k)
      BY <1>1, <1>3, <3>1, <3>3 DEF OneUnderWay, WrittenOff, InQueue, Told
    <3>4. CASE Watched(k)
      <4>1. wrapper[k] # "wrapped" /\ ~(held[k] > 0) /\ k \notin dropping
        BY <1>3, <3>4 DEF Watched, KeepaliveOpen
      <4>2. held[k] = 0
        BY <4>1 DEF TypeOK, Sources
      <4>3. CASE InQueue(Received(k))
        BY <1>1, <1>3, <3>1, <3>4, <4>1, <4>2, <4>3
           DEF OneUnderWay, Watched, WrittenOff, InQueue, Told
      <4>4. CASE ~InQueue(Received(k))
        <5>1. QuietQueue
          BY <2>2, <3>4, <4>4, AboutNothing DEF About, Watched
        <5>2. QED
          BY <1>1, <1>3, <2>2, <4>1, <5>1 DEF OneUnderWay, Idle, NoneUnderWay, QuietQueue, About
      <4>5. QED
        BY <4>3, <4>4
    <3>5. QED
      BY <2>2, <3>2, <3>3, <3>4
  <2>3. QED
    BY <2>1, <2>2 DEF OneUnderWay
<1>4. QED
  BY <1>2, <1>3, PollStep

LEMMA OneStep ==
  ASSUME OneAtATime, TypeOK, OneUnderWay, NotArrived, [Next]_vars
  PROVE  OneUnderWay'
<1>1. CASE UNCHANGED vars
  BY <1>1, OneStays DEF vars, NoneRevived
<1>2. ASSUME NEW s \in Sources, HolderStep(s) PROVE OneUnderWay'
  <2>1. CASE SendData(s)
    BY <2>1, OneAppended, MessagesTyped, MessagesTold DEF SendData, NoneRevived
  <2>2. CASE Clone(s)
    BY <2>2, OneStays DEF Clone, NoneRevived, TypeOK
  <2>3. CASE DropCopy(s)
    <3>1. NoneRevived
      BY <2>3 DEF DropCopy, GiveUp, NoneRevived, TypeOK
    <3>2. QED
      BY <2>3, <3>1, OneStays DEF DropCopy
  <2>4. CASE FinishDrop(s)
    BY <2>4, OneAppended, MessagesTyped, MessagesTold DEF FinishDrop, NoneRevived
  <2>5. ASSUME NEW k \in Transports, Wrap(s, k) PROVE OneUnderWay'
    BY <2>5, OneStarts
  <2>6. QED
    BY <1>2, <2>1, <2>2, <2>3, <2>4, <2>5 DEF HolderStep
<1>3. ASSUME NEW k \in Transports, TransportStep(k) PROVE OneUnderWay'
  BY <1>3, OneArrives, OneLost, OneCrashes DEF TransportStep
<1>4. CASE HandleData
  BY <1>4, OneTaken DEF HandleData, Handle
<1>5. CASE HandleDisconnect
  <2>1. PICK s \in Sources : Head(queue) = Disconnect(s)
    BY <1>5, HeadOfType DEF HandleDisconnect
  <2>2. sm'.inFlight = sm.inFlight /\ sm'.probes = sm.probes
    BY <1>5, <2>1, HandleDisconnectStep
  <2>3. QED
    BY <1>5, <2>2, OneTaken DEF HandleDisconnect, Handle
<1>6. CASE TimeOut
  BY <1>6, OneStays DEF TimeOut, NoneRevived
<1>7. CASE HandleSendingViaIpcChannel \/ HandleReceived \/ Poll
  BY <1>7, OneAnnounced, OneReceived, OnePolled DEF OneUnderWay
<1>8. QED
  BY <1>1, <1>2, <1>3, <1>4, <1>5, <1>6, <1>7 DEF Next, OwnerStep

-----------------------------------------------------------------------------
(* The sources and the wrapped copy, step by step.                         *)

LEMMA ToldAppended ==
  ASSUME TypeOK, NEW m \in Messages, ToOwner(m)
  PROVE  Told' = Told \cup {m}
BY Appended DEF InQueue

LEMMA ToldTaken ==
  ASSUME TypeOK, NEW type, Handle(type)
  PROVE  Told' \subseteq Told /\ Told \subseteq Told' \cup {Head(queue)} /\ Head(queue) \in Told
<1>1. queue # <<>> /\ queue' = Tail(queue)
  BY DEF Handle
<1>2. \A x : InQueue(x) <=> InQueue(x)' \/ x = Head(queue)
  BY <1>1, Taken
<1>3. QED
  BY <1>2 DEF InQueue

LEMMA GivenUp ==
  ASSUME TypeOK, SourcesKnown, NEW r \in Sources, held[r] > 0, GiveUp(r)
  PROVE  \A s \in Sources :
           /\ held'[s] > 0 \/ s \in dropping' => held[s] > 0 \/ s \in dropping
           /\ s \in dropping' => held'[s] = 0
           /\ s # r => held'[s] = held[s] /\ (s \in dropping' <=> s \in dropping)
BY DEF TypeOK, SourcesKnown, GiveUp

LEMMA KnownHolder ==
  ASSUME TypeOK, SourcesKnown, NEW r \in Sources, HolderStep(r)
  PROVE  SourcesKnown'
<1>1. CASE SendData(r)
  <2>1. Told' = Told \cup {Data}
    BY <1>1, ToldAppended, MessagesTyped DEF SendData
  <2>2. \A s : Data # Disconnect(s)
    BY MessagesTold
  <2>3. QED
    BY <1>1, <2>1, <2>2 DEF SendData, SourcesKnown, InQueue
<1>2. CASE Clone(r)
  BY <1>2 DEF Clone, SourcesKnown, InQueue, Told, TypeOK
<1>3. CASE DropCopy(r)
  <2>1. held[r] > 0 /\ GiveUp(r) /\ Told' = Told /\ sm' = sm
    BY <1>3 DEF DropCopy, Told
  <2>2. QED
    BY <2>1, GivenUp DEF SourcesKnown, InQueue
<1>4. CASE FinishDrop(r)
  <2>1. Told' = Told \cup {Disconnect(r)}
    BY <1>4, ToldAppended, MessagesTyped DEF FinishDrop
  <2>2. \A s : s # r => Disconnect(s) # Disconnect(r)
    BY MessagesTold
  <2>3. QED
    BY <1>4, <2>1, <2>2 DEF FinishDrop, SourcesKnown, InQueue, TypeOK
<1>5. ASSUME NEW k \in Transports, Wrap(r, k) PROVE SourcesKnown'
  <2>1. Told' = Told \cup {SendingViaIpcChannel(k)}
    BY <1>5, ToldAppended, MessagesTyped DEF Wrap
  <2>2. \A s : SendingViaIpcChannel(k) # Disconnect(s)
    BY MessagesTold
  <2>3. held[r] > 0 /\ GiveUp(r) /\ sm' = sm
    BY <1>5 DEF Wrap
  <2>4. QED
    BY <2>1, <2>2, <2>3, GivenUp DEF SourcesKnown, InQueue
<1>6. QED
  BY <1>1, <1>2, <1>3, <1>4, <1>5 DEF HolderStep

LEMMA KnownTransport ==
  ASSUME TypeOK, SourcesKnown, NotArrived, NEW k \in Transports, TransportStep(k)
  PROVE  SourcesKnown'
<1>1. CASE Unwrap(k)
  <2>1. Told' = Told \cup {Received(k)}
    BY <1>1, ToldAppended, MessagesTyped DEF Unwrap
  <2>2. \A s : Received(k) # Disconnect(s)
    BY MessagesTold
  <2>3. k \in Sources /\ ~InQueue(Disconnect(k)) /\ k \notin dropping
    BY <1>1 DEF Unwrap, NotArrived, Sources
  <2>4. QED
    BY <1>1, <2>1, <2>2, <2>3 DEF Unwrap, SourcesKnown, InQueue, TypeOK
<1>2. CASE LoseWrapper(k)
  BY <1>2 DEF LoseWrapper, SourcesKnown, InQueue, Told
<1>3. CASE Crash(k)
  <2>1. Told' = Told /\ sm' = sm
    BY <1>3 DEF Crash, Told
  <2>2. QED
    BY <1>3, <2>1 DEF Crash, SourcesKnown, InQueue, TypeOK, Sources
<1>4. QED
  BY <1>1, <1>2, <1>3 DEF TransportStep

LEMMA KnownOwner ==
  ASSUME TypeOK, SourcesKnown, OwnerStep
  PROVE  SourcesKnown'
<1>1. CASE HandleData
  <2>1. /\ Told' \subseteq Told /\ Told \subseteq Told' \cup {Head(queue)}
        /\ Head(queue).type = "Data" /\ UNCHANGED <<held, dropping, sm>>
    BY <1>1, ToldTaken, HandlersTyped DEF HandleData
  <2>2. \A s : Received(s) # Head(queue)
    BY <2>1, MessagesTold
  <2>3. QED
    BY <2>1, <2>2 DEF SourcesKnown, InQueue
<1>2. CASE HandleSendingViaIpcChannel
  <2>1. /\ Told' \subseteq Told /\ Told \subseteq Told' \cup {Head(queue)}
        /\ Head(queue).type = "SendingViaIpcChannel" /\ UNCHANGED <<held, dropping>>
    BY <1>2, ToldTaken, HandlersTyped DEF HandleSendingViaIpcChannel
  <2>2. \A s : Received(s) # Head(queue)
    BY <2>1, MessagesTold
  <2>3. sm'.sources = sm.sources
    BY <1>2, HeadOfType, HandleSendingStep DEF HandleSendingViaIpcChannel
  <2>4. QED
    BY <2>1, <2>2, <2>3 DEF SourcesKnown, InQueue
<1>3. CASE HandleReceived
  <2>1. /\ Told' \subseteq Told /\ Told \subseteq Told' \cup {Head(queue)}
        /\ UNCHANGED <<held, dropping>>
    BY <1>3, ToldTaken, HandlersTyped DEF HandleReceived
  <2>2. PICK k \in Transports : Head(queue) = Received(k)
    BY <1>3, HeadOfType DEF HandleReceived
  <2>3. sm'.sources = sm.sources \cup {k}
    BY <1>3, <2>2, HandleReceivedStep
  <2>4. \A s : Received(s) = Head(queue) => s = k
    BY <2>2, MessagesTold
  <2>5. QED
    BY <2>1, <2>3, <2>4 DEF SourcesKnown, InQueue
<1>4. CASE HandleDisconnect
  <2>1. /\ Told' \subseteq Told /\ Told \subseteq Told' \cup {Head(queue)}
        /\ Head(queue) \in Told /\ UNCHANGED <<held, dropping>>
    BY <1>4, ToldTaken, HandlersTyped DEF HandleDisconnect
  <2>2. PICK r \in Sources : Head(queue) = Disconnect(r)
    BY <1>4, HeadOfType DEF HandleDisconnect
  <2>3. sm'.sources = sm.sources \ {r}
    BY <1>4, <2>2, HandleDisconnectStep
  <2>4. \A s : Received(s) # Head(queue)
    BY <2>2, MessagesTold
  <2>5. ~(held[r] > 0 \/ r \in dropping)
    BY <2>1, <2>2 DEF SourcesKnown, InQueue
  <2>6. QED
    BY <2>1, <2>3, <2>4, <2>5 DEF SourcesKnown, InQueue
<1>5. CASE TimeOut
  BY <1>5 DEF TimeOut, SourcesKnown, InQueue, Told
<1>6. CASE Poll
  BY <1>6, PollStep DEF Poll, SourcesKnown, InQueue, Told
<1>7. QED
  BY <1>1, <1>2, <1>3, <1>4, <1>5, <1>6 DEF OwnerStep

LEMMA KnownStep ==
  ASSUME TypeOK, SourcesKnown, NotArrived, [Next]_vars
  PROVE  SourcesKnown'
<1>1. CASE UNCHANGED vars
  BY <1>1 DEF vars, SourcesKnown, InQueue, Told
<1>2. QED
  BY <1>1, KnownHolder, KnownTransport, KnownOwner DEF Next

LEMMA NotArrivedHolder ==
  ASSUME TypeOK, SourcesKnown, NotArrived, NEW r \in Sources, HolderStep(r)
  PROVE  NotArrived'
<1>1. CASE SendData(r)
  <2>1. Told' = Told \cup {Data}
    BY <1>1, ToldAppended, MessagesTyped DEF SendData
  <2>2. \A s : Data # Disconnect(s) /\ Data # Received(s)
    BY MessagesTold
  <2>3. QED
    BY <1>1, <2>1, <2>2 DEF SendData, NotArrived, InQueue
<1>2. CASE Clone(r)
  BY <1>2 DEF Clone, NotArrived, InQueue, Told, TypeOK
<1>3. CASE DropCopy(r)
  <2>1. held[r] > 0 /\ GiveUp(r) /\ Told' = Told /\ wrapper' = wrapper
    BY <1>3 DEF DropCopy, Told
  <2>2. QED
    BY <2>1, GivenUp DEF NotArrived, InQueue, Sources
<1>4. CASE FinishDrop(r)
  <2>1. Told' = Told \cup {Disconnect(r)}
    BY <1>4, ToldAppended, MessagesTyped DEF FinishDrop
  <2>2. \A s : (s # r => Disconnect(s) # Disconnect(r)) /\ Received(s) # Disconnect(r)
    BY MessagesTold
  <2>3. QED
    BY <1>4, <2>1, <2>2 DEF FinishDrop, NotArrived, InQueue
<1>5. ASSUME NEW k \in Transports, Wrap(r, k) PROVE NotArrived'
  <2>1. Told' = Told \cup {SendingViaIpcChannel(k)}
    BY <1>5, ToldAppended, MessagesTyped DEF Wrap
  <2>2. \A s : SendingViaIpcChannel(k) # Disconnect(s) /\ SendingViaIpcChannel(k) # Received(s)
    BY MessagesTold
  <2>3. held[r] > 0 /\ GiveUp(r) /\ wrapper[k] = "unused"
    BY <1>5 DEF Wrap
  <2>4. \A u \in Transports : u # k => wrapper'[u] = wrapper[u]
    BY <1>5 DEF Wrap, TypeOK
  <2>5. QED
    BY <2>1, <2>2, <2>3, <2>4, GivenUp DEF NotArrived, InQueue, Sources
<1>6. QED
  BY <1>1, <1>2, <1>3, <1>4, <1>5 DEF HolderStep

LEMMA NotArrivedTransport ==
  ASSUME TypeOK, NotArrived, NEW k \in Transports, TransportStep(k)
  PROVE  NotArrived'
<1>1. CASE Unwrap(k)
  <2>1. Told' = Told \cup {Received(k)}
    BY <1>1, ToldAppended, MessagesTyped DEF Unwrap
  <2>2. \A s : Received(k) # Disconnect(s) /\ (s # k => Received(s) # Received(k))
    BY MessagesTold
  <2>3. QED
    BY <1>1, <2>1, <2>2 DEF Unwrap, NotArrived, InQueue, TypeOK, Sources
<1>2. CASE LoseWrapper(k)
  BY <1>2 DEF LoseWrapper, NotArrived, InQueue, Told, TypeOK
<1>3. CASE Crash(k)
  <2>1. Told' = Told
    BY <1>3 DEF Crash, Told
  <2>2. QED
    BY <1>3, <2>1 DEF Crash, NotArrived, InQueue, TypeOK, Sources
<1>4. QED
  BY <1>1, <1>2, <1>3 DEF TransportStep

LEMMA NotArrivedStep ==
  ASSUME TypeOK, SourcesKnown, NotArrived, [Next]_vars
  PROVE  NotArrived'
<1>1. CASE UNCHANGED vars
  BY <1>1 DEF vars, NotArrived, InQueue, Told
<1>2. CASE TimeOut \/ Poll
  BY <1>2 DEF TimeOut, Poll, NotArrived, InQueue, Told
<1>3. ASSUME NEW type, Handle(type) PROVE NotArrived'
  <2>1. Told' \subseteq Told /\ UNCHANGED <<wrapper, held, dropping>>
    BY <1>3, ToldTaken, HandlersTyped
  <2>2. QED
    BY <2>1 DEF NotArrived, InQueue
<1>4. CASE OwnerStep
  BY <1>2, <1>3, <1>4 DEF OwnerStep, HandleData, HandleSendingViaIpcChannel, HandleReceived,
     HandleDisconnect
<1>5. QED
  BY <1>1, <1>4, NotArrivedHolder, NotArrivedTransport DEF Next

\* A payload or a wrapped copy comes from a source the owner knows.
LEMMA SentStep ==
  ASSUME TypeOK, SourcesKnown, SentFromSource, [Next]_vars
  PROVE  SentFromSource'
<1>1. ASSUME queue' = queue, sm'.sources = sm.sources PROVE SentFromSource'
  BY <1>1 DEF SentFromSource, FromSource
<1>2. ASSUME NEW m \in Messages, ToOwner(m), UNCHANGED sm,
             m.type \in {"Data", "SendingViaIpcChannel"} => \E s \in Sources : held[s] > 0
      PROVE  SentFromSource'
  BY <1>2, SentAppended DEF SourcesKnown
<1>3. ASSUME NEW s \in Sources, HolderStep(s) PROVE SentFromSource'
  <2>1. CASE SendData(s)
    BY <1>2, <2>1, MessagesTyped DEF SendData
  <2>2. CASE Clone(s) \/ DropCopy(s)
    BY <1>1, <2>2 DEF Clone, DropCopy
  <2>3. CASE FinishDrop(s)
    BY <1>2, <2>3, MessagesTyped, MessagesTold DEF FinishDrop
  <2>4. ASSUME NEW k \in Transports, Wrap(s, k) PROVE SentFromSource'
    BY <1>2, <2>4, MessagesTyped DEF Wrap
  <2>5. QED
    BY <1>3, <2>1, <2>2, <2>3, <2>4 DEF HolderStep
<1>4. ASSUME NEW k \in Transports, TransportStep(k) PROVE SentFromSource'
  <2>1. CASE Unwrap(k)
    BY <1>2, <2>1, MessagesTyped, MessagesTold DEF Unwrap
  <2>2. CASE LoseWrapper(k) \/ Crash(k)
    BY <1>1, <2>2 DEF LoseWrapper, Crash
  <2>3. QED
    BY <1>4, <2>1, <2>2 DEF TransportStep
<1>5. ASSUME NEW type, Handle(type),
             \A s \in sm.sources : s \in sm'.sources \/ Head(queue) = Disconnect(s),
             \A s \in Sources : Head(queue) = Received(s) => s \in sm'.sources
      PROVE  SentFromSource'
  BY <1>5, SentTaken DEF Handle
<1>6. CASE HandleData
  <2>1. \A s : Head(queue) # Received(s)
    BY <1>6, HandlersTyped, MessagesTold DEF HandleData
  <2>2. QED
    BY <1>5, <1>6, <2>1 DEF HandleData
<1>7. CASE HandleSendingViaIpcChannel
  <2>1. PICK k \in Transports : Head(queue) = SendingViaIpcChannel(k)
    BY <1>7, HeadOfType DEF HandleSendingViaIpcChannel
  <2>2. sm'.sources = sm.sources
    BY <1>7, <2>1, HandleSendingStep
  <2>3. \A s : Head(queue) # Received(s)
    BY <2>1, MessagesDistinct
  <2>4. QED
    BY <1>5, <1>7, <2>2, <2>3 DEF HandleSendingViaIpcChannel
<1>8. CASE HandleReceived
  <2>1. PICK k \in Transports : Head(queue) = Received(k)
    BY <1>8, HeadOfType DEF HandleReceived
  <2>2. sm'.sources = sm.sources \cup {k}
    BY <1>8, <2>1, HandleReceivedStep
  <2>3. \A s : Head(queue) = Received(s) => s = k
    BY <2>1, MessagesDistinct
  <2>4. QED
    BY <1>5, <1>8, <2>2, <2>3 DEF HandleReceived
<1>9. CASE HandleDisconnect
  <2>1. PICK r \in Sources : Head(queue) = Disconnect(r)
    BY <1>9, HeadOfType DEF HandleDisconnect
  <2>2. sm'.sources = sm.sources \ {r}
    BY <1>9, <2>1, HandleDisconnectStep
  <2>3. \A s : Head(queue) # Received(s)
    BY <2>1, MessagesDistinct
  <2>4. QED
    BY <1>5, <1>9, <2>1, <2>2, <2>3 DEF HandleDisconnect
<1>10. CASE Poll
  BY <1>1, <1>10, PollStep DEF Poll
<1>11. CASE UNCHANGED vars \/ TimeOut
  BY <1>1, <1>11 DEF vars, TimeOut
<1>12. QED
  BY <1>3, <1>4, <1>6, <1>7, <1>8, <1>9, <1>10, <1>11 DEF Next, OwnerStep

-----------------------------------------------------------------------------
(* Overlapping transports, step by step.                                   *)

\* The transports under way in terms of what the owner has yet to handle.
UnderWayByTold ==
  {k \in Transports : /\ ~InQueue(SendingViaIpcChannel(k))
                      /\ wrapper[k] = "wrapped" \/ InQueue(Received(k))}

LEMMA UnderWayAre == UnderWay = UnderWayByTold /\ UnderWay' = UnderWayByTold'
BY DEF UnderWay, UnderWayByTold, InQueue, Told

\* A message that announces no transport and its receipt leaves the order alone.
LEMMA OrderlyAppended ==
  ASSUME TypeOK, Orderly, NEW m \in Messages, ToOwner(m), UNCHANGED wrapper,
         m.type \in {"Data", "Disconnect"}
  PROVE  Orderly' /\ UnderWay' = UnderWay
<1>1. \A k \in Transports : m # SendingViaIpcChannel(k) /\ m # Received(k)
  BY MessagesDistinct
<1>2. \A k \in Transports : Ordered(k)'
  BY <1>1, OrderedAppended DEF Orderly
<1>3. \A k \in Transports : /\ InQueue(SendingViaIpcChannel(k))' <=> InQueue(SendingViaIpcChannel(k))
                            /\ InQueue(Received(k))' <=> InQueue(Received(k))
  <2>1. Told' = Told \cup {m}
    BY ToldAppended
  <2>2. QED
    BY <1>1, <2>1 DEF InQueue
<1>4. Orderly'
  BY <1>2, <1>3 DEF Orderly
<1>5. UnderWay' = UnderWay
  BY <1>3, UnderWayAre DEF UnderWayByTold
<1>6. QED
  BY <1>4, <1>5

LEMMA OrderlyStays ==
  ASSUME Orderly, UNCHANGED queue,
         \A k \in Transports : wrapper'[k] = wrapper[k] \/ wrapper'[k] \in {"lost", "crashed"}
  PROVE  Orderly' /\ UnderWay' \subseteq UnderWay
<1>1. Told' = Told
  BY DEF Told
<1>2. \A k \in Transports : Ordered(k)'
  BY DEF Orderly, Ordered
<1>3. QED
  BY <1>1, <1>2, UnderWayAre DEF UnderWayByTold, Orderly, InQueue

LEMMA OrderlyTaken ==
  ASSUME TypeOK, Orderly, NEW type, Handle(type)
  PROVE  /\ Orderly'
         /\ \A k \in UnderWay' : k \in UnderWay \/ Head(queue) = SendingViaIpcChannel(k)
         /\ \A k \in Transports : Head(queue) = Received(k) =>
              k \in UnderWay /\ (wrapper[k] # "wrapped" => k \notin UnderWay')
<1>1. queue # <<>> /\ queue' = Tail(queue) /\ UNCHANGED wrapper
  BY DEF Handle
<1>2. \A k \in Transports :
        /\ Ordered(k)'
        /\ Head(queue) = Received(k) =>
              ~InQueue(Received(k))' /\ ~InQueue(SendingViaIpcChannel(k))
  BY <1>1, OrderedTaken DEF Orderly
<1>3. Told' \subseteq Told /\ Told \subseteq Told' \cup {Head(queue)} /\ Head(queue) \in Told
  BY ToldTaken
<1>4. Orderly'
  BY <1>1, <1>2, <1>3 DEF Orderly, InQueue
<1>5. QED
  BY <1>1, <1>2, <1>3, <1>4, UnderWayAre DEF UnderWayByTold, InQueue

LEMMA OrderlyWrapped ==
  ASSUME TypeOK, NotArrived, Orderly, NEW s \in Sources, NEW k \in Transports, Wrap(s, k)
  PROVE  Orderly' /\ UnderWay' \subseteq UnderWay
<1>1. /\ wrapper[k] = "unused" /\ wrapper'[k] = "wrapped"
      /\ \A u \in Transports : u # k => wrapper'[u] = wrapper[u]
  BY DEF Wrap, TypeOK
<1>2. ~InQueue(SendingViaIpcChannel(k)) /\ ~InQueue(Received(k))
  BY <1>1 DEF Orderly, NotArrived
<1>3. \A u \in Transports : /\ SendingViaIpcChannel(k) # Received(u)
                            /\ SendingViaIpcChannel(k) = SendingViaIpcChannel(u) => u = k
  BY MessagesDistinct
<1>4. \A u \in Transports : Ordered(u)'
  BY <1>2, <1>3, OrderedAppended, MessagesTyped DEF Orderly, Wrap
<1>5. Told' = Told \cup {SendingViaIpcChannel(k)}
  BY ToldAppended, MessagesTyped DEF Wrap
<1>6. Orderly'
  BY <1>1, <1>3, <1>4, <1>5 DEF Orderly, InQueue
<1>7. QED
  BY <1>1, <1>3, <1>5, <1>6, UnderWayAre DEF UnderWayByTold, InQueue

LEMMA OrderlyUnwrapped ==
  ASSUME TypeOK, NotArrived, Orderly, NEW k \in Transports, Unwrap(k)
  PROVE  Orderly' /\ UnderWay' \subseteq UnderWay
<1>1. /\ wrapper[k] = "wrapped" /\ wrapper'[k] = "unwrapped"
      /\ \A u \in Transports : u # k => wrapper'[u] = wrapper[u]
  BY DEF Unwrap, TypeOK
<1>2. ~InQueue(Received(k))
  BY <1>1 DEF NotArrived
<1>3. \A u \in Transports : /\ Received(k) # SendingViaIpcChannel(u)
                            /\ Received(k) = Received(u) => u = k
  BY MessagesDistinct
<1>4. \A u \in Transports : Ordered(u)'
  BY <1>2, <1>3, OrderedAppended, MessagesTyped DEF Orderly, Unwrap
<1>5. Told' = Told \cup {Received(k)}
  BY ToldAppended, MessagesTyped DEF Unwrap
<1>6. Orderly'
  BY <1>1, <1>3, <1>4, <1>5 DEF Orderly, InQueue
<1>7. QED
  BY <1>1, <1>3, <1>5, <1>6, UnderWayAre DEF UnderWayByTold, InQueue

\* A poll takes entries off for a probe that fails, and then all of them.
LEMMA PollTakes ==
  ASSUME TypeOK, Poll, sm'.inFlight[Empty] # sm.inFlight[Empty]
  PROVE  SM!LostVias(sm, FailingProbes) # {}
<1>1. PICK x \in Machines : x = sm
  BY OwnerMachine
<1>2. PICK failing : failing = FailingProbes
  OBVIOUS
<1>3. PICK y : y = SM!Poll(x, failing)
  OBVIOUS
<1>4. sm' = y
  BY <1>1, <1>2, <1>3 DEF Poll
<1>5. x.probes[Empty] \in failing /\ x.inFlight[Empty] > 0
  BY <1>1, <1>3, <1>4, PollMethod
<1>6. Empty \in SM!LostVias(x, failing)
  BY <1>5 DEF SM!LostVias
<1>7. QED
  BY <1>1, <1>2, <1>6

\* How the transports under way and the entries go together.
EntriesFollow ==
  \/ UnderWay' \subseteq UnderWay /\ sm'.inFlight[Empty] = sm.inFlight[Empty]
  \/ UnderWay' = {} /\ sm'.inFlight[Empty] \in Nat
  \/ \E k \in Transports :
       UnderWay' \subseteq UnderWay \cup {k} /\ sm'.inFlight[Empty] = sm.inFlight[Empty] + 1
  \/ \E k \in UnderWay :
       /\ UnderWay' \subseteq UnderWay \ {k}
       /\ sm'.inFlight[Empty] = IF sm.inFlight[Empty] = 0 THEN 0 ELSE sm.inFlight[Empty] - 1

LEMMA OrderlyOwner ==
  ASSUME TypeOK, NotArrived, Orderly, OwnerStep, ~WritesOffUnderWay
  PROVE  Orderly' /\ EntriesFollow
<1>1. CASE HandleData
  <2>1. Orderly' /\ \A k \in UnderWay' : k \in UnderWay \/ Head(queue) = SendingViaIpcChannel(k)
    BY <1>1, OrderlyTaken DEF HandleData
  <2>2. \A k : Head(queue) # SendingViaIpcChannel(k)
    BY <1>1, HandlersTyped, MessagesTold DEF HandleData
  <2>3. QED
    BY <1>1, <2>1, <2>2 DEF HandleData, EntriesFollow
<1>2. CASE HandleSendingViaIpcChannel
  <2>1. PICK k \in Transports : Head(queue) = SendingViaIpcChannel(k)
    BY <1>2, HeadOfType DEF HandleSendingViaIpcChannel
  <2>2. Orderly' /\ \A u \in UnderWay' : u \in UnderWay \/ Head(queue) = SendingViaIpcChannel(u)
    BY <1>2, OrderlyTaken DEF HandleSendingViaIpcChannel
  <2>3. \A u : Head(queue) = SendingViaIpcChannel(u) => u = k
    BY <2>1, MessagesDistinct
  <2>4. sm'.inFlight[Empty] = sm.inFlight[Empty] + 1
    BY <1>2, <2>1, HandleSendingStep
  <2>5. QED
    BY <2>2, <2>3, <2>4 DEF EntriesFollow
<1>3. CASE HandleReceived
  <2>1. PICK k \in Transports : Head(queue) = Received(k)
    BY <1>3, HeadOfType DEF HandleReceived
  <2>2. /\ Orderly' /\ \A u \in UnderWay' : u \in UnderWay \/ Head(queue) = SendingViaIpcChannel(u)
        /\ k \in UnderWay /\ (wrapper[k] # "wrapped" => k \notin UnderWay')
    BY <1>3, <2>1, OrderlyTaken DEF HandleReceived
  <2>3. \A u : Head(queue) # SendingViaIpcChannel(u)
    BY <2>1, MessagesDistinct
  <2>4. InQueue(Received(k))
    BY <1>3, <2>1, ToldTaken DEF HandleReceived, InQueue
  <2>5. wrapper[k] # "wrapped"
    BY <2>4 DEF NotArrived
  <2>6. sm'.inFlight[Empty] = IF sm.inFlight[Empty] = 0 THEN 0 ELSE sm.inFlight[Empty] - 1
    BY <1>3, <2>1, HandleReceivedStep
  <2>7. QED
    BY <2>2, <2>3, <2>5, <2>6 DEF EntriesFollow
<1>4. CASE HandleDisconnect
  <2>1. PICK r \in Sources : Head(queue) = Disconnect(r)
    BY <1>4, HeadOfType DEF HandleDisconnect
  <2>2. Orderly' /\ \A k \in UnderWay' : k \in UnderWay \/ Head(queue) = SendingViaIpcChannel(k)
    BY <1>4, OrderlyTaken DEF HandleDisconnect
  <2>3. \A k : Head(queue) # SendingViaIpcChannel(k)
    BY <2>1, MessagesDistinct
  <2>4. sm'.inFlight = sm.inFlight
    BY <1>4, <2>1, HandleDisconnectStep
  <2>5. QED
    BY <2>2, <2>3, <2>4 DEF EntriesFollow
<1>5. CASE TimeOut
  BY <1>5, OrderlyStays DEF TimeOut, EntriesFollow
<1>6. CASE Poll
  <2>1. Orderly' /\ UnderWay' \subseteq UnderWay
    BY <1>6, OrderlyStays DEF Poll
  <2>2. sm'.inFlight[Empty] \in Nat
    BY <1>6, PollStep DEF Machines, SM!StateMachines
  <2>3. sm'.inFlight[Empty] # sm.inFlight[Empty] => UnderWay = {}
    BY <1>6, PollTakes DEF WritesOffUnderWay
  <2>4. QED
    BY <2>1, <2>2, <2>3 DEF EntriesFollow
<1>7. QED
  BY <1>1, <1>2, <1>3, <1>4, <1>5, <1>6 DEF OwnerStep

LEMMA OrderlyStep ==
  ASSUME TypeOK, NotArrived, Orderly, [Next]_vars, ~WritesOffUnderWay
  PROVE  Orderly' /\ EntriesFollow
<1>1. CASE UNCHANGED vars
  BY <1>1, OrderlyStays DEF vars, EntriesFollow
<1>2. ASSUME NEW s \in Sources, HolderStep(s)
      PROVE  Orderly' /\ UnderWay' \subseteq UnderWay /\ UNCHANGED sm
  <2>1. CASE SendData(s)
    BY <2>1, OrderlyAppended, MessagesTyped, MessagesTold DEF SendData
  <2>2. CASE Clone(s) \/ DropCopy(s)
    BY <2>2, OrderlyStays DEF Clone, DropCopy
  <2>3. CASE FinishDrop(s)
    BY <2>3, OrderlyAppended, MessagesTyped, MessagesTold DEF FinishDrop
  <2>4. ASSUME NEW k \in Transports, Wrap(s, k)
        PROVE  Orderly' /\ UnderWay' \subseteq UnderWay /\ UNCHANGED sm
    BY <2>4, OrderlyWrapped DEF Wrap
  <2>5. QED
    BY <1>2, <2>1, <2>2, <2>3, <2>4 DEF HolderStep
<1>3. ASSUME NEW k \in Transports, TransportStep(k)
      PROVE  Orderly' /\ UnderWay' \subseteq UnderWay /\ UNCHANGED sm
  <2>1. CASE Unwrap(k)
    BY <2>1, OrderlyUnwrapped DEF Unwrap
  <2>2. CASE LoseWrapper(k)
    BY <2>2, OrderlyStays DEF LoseWrapper, TypeOK
  <2>3. CASE Crash(k)
    BY <2>3, OrderlyStays DEF Crash, TypeOK
  <2>4. QED
    BY <1>3, <2>1, <2>2, <2>3 DEF TransportStep
<1>4. QED
  BY <1>1, <1>2, <1>3, OrderlyOwner DEF Next, EntriesFollow

\* Transports under way keep their entries, however many there are.
LEMMA CountedStep ==
  ASSUME TypeOK, Counted, EntriesFollow
  PROVE  Counted'
<1>1. PICK n \in Nat : n = sm.inFlight[Empty]
  BY OwnerMachine
<1>2. PICK S : S = UnderWay
  OBVIOUS
<1>3. PICK T : T = UnderWay'
  OBVIOUS
<1>4. IsFiniteSet(S) /\ Cardinality(S) \in Nat /\ Cardinality(S) <= n
  BY <1>1, <1>2, FS_CardinalityType DEF Counted
<1>5. SUFFICES IsFiniteSet(T) /\ Cardinality(T) <= sm'.inFlight[Empty]
  BY <1>3 DEF Counted
<1>6. CASE T \subseteq S /\ sm'.inFlight[Empty] = n
  BY <1>4, <1>6, FS_Subset, FS_CardinalityType
<1>7. CASE T = {} /\ sm'.inFlight[Empty] \in Nat
  BY <1>7, FS_EmptySet
<1>8. ASSUME NEW k, T \subseteq S \cup {k}, sm'.inFlight[Empty] = n + 1
      PROVE  IsFiniteSet(T) /\ Cardinality(T) <= sm'.inFlight[Empty]
  <2>1. IsFiniteSet(S \cup {k}) /\ Cardinality(S \cup {k}) <= n + 1
    BY <1>4, FS_AddElement
  <2>2. IsFiniteSet(T) /\ Cardinality(T) <= Cardinality(S \cup {k})
    BY <1>8, <2>1, FS_Subset
  <2>3. Cardinality(T) \in Nat /\ Cardinality(S \cup {k}) \in Nat
    BY <2>1, <2>2, FS_CardinalityType
  <2>4. QED
    BY <1>8, <2>1, <2>2, <2>3
<1>9. ASSUME NEW k \in S, T \subseteq S \ {k},
             sm'.inFlight[Empty] = IF n = 0 THEN 0 ELSE n - 1
      PROVE  IsFiniteSet(T) /\ Cardinality(T) <= sm'.inFlight[Empty]
  <2>1. IsFiniteSet(S \ {k}) /\ Cardinality(S \ {k}) = Cardinality(S) - 1
    BY <1>4, FS_RemoveElement
  <2>2. IsFiniteSet(T) /\ Cardinality(T) <= Cardinality(S \ {k})
    BY <1>9, <2>1, FS_Subset
  <2>3. Cardinality(T) \in Nat /\ Cardinality(S \ {k}) \in Nat
    BY <2>1, <2>2, FS_CardinalityType
  <2>4. QED
    BY <1>4, <1>9, <2>1, <2>2, <2>3
<1>10. QED
  BY <1>1, <1>2, <1>3, <1>6, <1>7, <1>8, <1>9 DEF EntriesFollow

-----------------------------------------------------------------------------
(* The invariants and what follows.                                        *)

LEMMA InitBase == Init => Base /\ OneUnderWay /\ Orderly /\ SentFromSource /\ Counted
<1>1. ASSUME Init PROVE Base /\ OneUnderWay /\ Orderly /\ SentFromSource /\ Counted
  <2>1. sm = SM!New(Origin) /\ queue = <<>> /\ dropping = {}
        /\ wrapper = [k \in Transports |-> "unused"]
        /\ held = [s \in Sources |-> IF s = Origin THEN 1 ELSE 0]
    BY <1>1 DEF Init
  <2>2. sm.inFlight[Empty] = 0 /\ sm.sources = {Origin}
    BY <2>1 DEF SM!New
  <2>3. Told = {} /\ DOMAIN queue = {}
    BY <2>1 DEF Told
  <2>4. OneUnderWay
    BY <2>1, <2>2, <2>3 DEF OneUnderWay, Idle, NoneUnderWay
  <2>5. SourcesKnown
    BY <2>1, <2>2, <2>3 DEF SourcesKnown, InQueue
  <2>6. NotArrived
    BY <2>1, <2>3, IpcTransportAssumption DEF NotArrived, InQueue, Sources
  <2>7. Orderly /\ SentFromSource
    BY <2>3 DEF Orderly, Ordered, InQueue, SentFromSource
  <2>8. UnderWay = {}
    BY <2>1, <2>3, UnderWayAre DEF UnderWayByTold, InQueue
  <2>9. Counted
    BY <2>2, <2>8, FS_EmptySet DEF Counted
  <2>10. QED
    BY <1>1, <2>4, <2>5, <2>6, <2>7, <2>9, InitTyped DEF Base
<1>2. QED
  BY <1>1

LEMMA BaseStep == Base /\ [Next]_vars => Base'
BY TypedStep, KnownStep, NotArrivedStep DEF Base

LEMMA CoreStep == OneAtATime /\ Core /\ [Next]_vars => Core'
BY BaseStep, OneStep DEF Core, Base

LEMMA LedgerStep == Ledger /\ [Next]_vars /\ ~WritesOffUnderWay => Ledger'
BY BaseStep, SentStep, OrderlyStep, CountedStep DEF Ledger, Base

LEMMA Least ==
  ASSUME NEW T \in SUBSET Nat, T # {}
  PROVE  \E n \in T : \A m \in T : n <= m
<1>1. PICK n \in T : \A m \in T : ~(<<m, n>> \in OpToRel(<, Nat))
  BY NatLessThanWellFounded, WFMin, Zenon
<1>2. \A m \in T : ~(m < n)
  BY <1>1 DEF OpToRel
<1>3. QED
  BY <1>2

\* With no source left and no transport under way, no wrapped copy is announced:
\* the first to be would have come from one of these.
LEMMA NoneAnnounced ==
  ASSUME Ledger, sm.sources = {}, UnderWay = {}
  PROVE  \A i \in DOMAIN queue : queue[i].type # "SendingViaIpcChannel"
<1>1. SUFFICES ASSUME \E i \in DOMAIN queue : queue[i].type = "SendingViaIpcChannel"
               PROVE  FALSE
  OBVIOUS
<1>2. PICK q \in Seq(Messages) : q = queue
  BY DEF Ledger, Base, TypeOK
<1>3. DOMAIN q \subseteq Nat
  OBVIOUS
<1>4. PICK T : T = {i \in DOMAIN q : q[i].type = "SendingViaIpcChannel"}
  OBVIOUS
<1>5. PICK i \in T : \A j \in T : i <= j
  BY <1>1, <1>2, <1>3, <1>4, Least
<1>6. PICK s \in Sources : FromSource(i, s)
  BY <1>2, <1>4, <1>5 DEF Ledger, SentFromSource
<1>7. PICK h \in DOMAIN q : h < i /\ q[h] = Received(s)
  BY <1>2, <1>6 DEF FromSource
<1>8. s \in Transports
  <2>1. q[h] \in Messages
    BY <1>7
  <2>2. QED
    BY <1>7, <2>1, MessageKinds, MessagesDistinct, MessagesTold
<1>9. ~InQueue(SendingViaIpcChannel(s))
  <2>1. ASSUME NEW j \in DOMAIN q, q[j] = SendingViaIpcChannel(s) PROVE FALSE
    <3>1. j < h
      BY <1>2, <1>7, <1>8, <2>1 DEF Ledger, Orderly, Ordered
    <3>2. j \in T
      BY <1>4, <2>1, MessagesTold
    <3>3. QED
      BY <1>3, <1>4, <1>5, <1>7, <3>1, <3>2
  <2>2. QED
    BY <1>2, <2>1 DEF InQueue, Told
<1>10. InQueue(Received(s))
  BY <1>2, <1>7 DEF InQueue, Told
<1>11. QED
  BY <1>8, <1>9, <1>10, UnderWayAre DEF UnderWayByTold

\* Where nothing is recorded, no subsender and no wrapper is left and no payload.
LEMMA VacantUnusable ==
  ASSUME Ledger, sm.sources = {}, sm.inFlight[Empty] = 0
  PROVE  ~Usable /\ \A i \in DOMAIN queue : queue[i].type # "Data"
<1>1. UnderWay = {}
  <2>1. IsFiniteSet(UnderWay) /\ Cardinality(UnderWay) <= 0
    BY DEF Ledger, Counted
  <2>2. Cardinality(UnderWay) = 0
    BY <2>1, FS_CardinalityType
  <2>3. QED
    BY <2>1, <2>2, FS_EmptySet
<1>2. \A k \in Transports : ~InQueue(SendingViaIpcChannel(k))
  BY <1>1, NoneAnnounced, MessagesTold DEF InQueue, Told
<1>3. \A k \in Transports : wrapper[k] # "wrapped" /\ ~InQueue(Received(k))
  BY <1>1, <1>2, UnderWayAre DEF UnderWayByTold
<1>4. \A s : ~InQueue(Received(s))
  <2>1. Told \subseteq Messages
    BY DEF Ledger, Base, TypeOK, Told
  <2>2. \A s : Received(s) \in Messages => s \in Transports
    BY MessageKinds, MessagesDistinct, MessagesTold
  <2>3. QED
    BY <1>3, <2>1, <2>2 DEF InQueue
<1>5. \A s \in Sources : ~(held[s] > 0)
  BY <1>4 DEF Ledger, Base, SourcesKnown
<1>6. ASSUME NEW i \in DOMAIN queue, queue[i].type = "Data" PROVE FALSE
  <2>1. PICK s \in Sources : FromSource(i, s)
    BY <1>6 DEF Ledger, SentFromSource
  <2>2. QED
    BY <1>4, <2>1 DEF FromSource, InQueue, Told
<1>7. QED
  BY <1>3, <1>5, <1>6 DEF Usable

\* Nothing becomes usable again, and only two handlers take the sender.
LEMMA UsableStep ==
  ASSUME TypeOK, [Next]_vars
  PROVE  /\ Usable' => Usable
         /\ sm.maybe /\ ~sm'.maybe => sm'.sources = {} /\ sm'.inFlight[Empty] = 0
<1>1. CASE UNCHANGED <<sm, wrapper, held>>
  BY <1>1 DEF Usable
<1>2. ASSUME NEW s \in Sources, HolderStep(s)
      PROVE  (Usable /\ sm' = sm) \/ UNCHANGED <<sm, wrapper, held>>
  BY <1>2 DEF HolderStep, SendData, Clone, DropCopy, FinishDrop, Wrap, Usable
<1>3. ASSUME NEW k \in Transports, TransportStep(k)
      PROVE  sm' = sm /\ (Usable' => Usable)
  <2>1. CASE Unwrap(k) \/ LoseWrapper(k)
    BY <2>1 DEF Unwrap, LoseWrapper, Usable
  <2>2. CASE Crash(k)
    BY <2>2 DEF Crash, Usable, TypeOK, Sources
  <2>3. QED
    BY <1>3, <2>1, <2>2 DEF TransportStep
<1>4. CASE OwnerStep
  <2>1. UNCHANGED <<wrapper, held>>
    BY <1>4 DEF OwnerStep, HandleData, HandleSendingViaIpcChannel, HandleReceived,
       HandleDisconnect, Handle, TimeOut, Poll
  <2>2. CASE HandleData \/ TimeOut
    BY <1>1, <2>2 DEF HandleData, Handle, TimeOut
  <2>3. CASE HandleSendingViaIpcChannel
    BY <2>1, <2>3, HeadOfType, HandleSendingStep DEF Usable, HandleSendingViaIpcChannel
  <2>4. CASE HandleReceived
    BY <2>1, <2>4, HeadOfType, HandleReceivedStep DEF Usable, HandleReceived
  <2>5. CASE HandleDisconnect
    BY <2>1, <2>5, HeadOfType, HandleDisconnectStep DEF Usable, HandleDisconnect
  <2>6. CASE Poll
    BY <2>1, <2>6, PollStep DEF Usable
  <2>7. QED
    BY <1>4, <2>2, <2>3, <2>4, <2>5, <2>6 DEF OwnerStep
<1>5. QED
  BY <1>1, <1>2, <1>3, <1>4 DEF Next, vars

\* Payloads come from those who have a subsender.
LEMMA DataStep ==
  ASSUME TypeOK, [Next]_vars, \E i \in DOMAIN queue' : queue'[i].type = "Data"
  PROVE  Usable \/ \E i \in DOMAIN queue : queue[i].type = "Data"
<1>1. PICK m \in Told' : m.type = "Data"
  BY DEF Told
<1>2. SUFFICES ASSUME ~Usable PROVE m \in Told
  BY <1>1 DEF Told
<1>3. CASE Told' \subseteq Told
  BY <1>1, <1>3
<1>4. ASSUME NEW x \in Messages, x.type # "Data", ToOwner(x) PROVE m \in Told
  BY <1>1, <1>4, ToldAppended
<1>5. ASSUME NEW s \in Sources, HolderStep(s) PROVE m \in Told
  <2>1. CASE SendData(s) \/ Clone(s) \/ DropCopy(s) \/ \E k \in Transports : Wrap(s, k)
    BY <1>2, <2>1 DEF SendData, Clone, DropCopy, Wrap, Usable
  <2>2. CASE FinishDrop(s)
    BY <1>4, <2>2, MessagesTyped, MessagesTold DEF FinishDrop
  <2>3. QED
    BY <1>5, <2>1, <2>2 DEF HolderStep
<1>6. ASSUME NEW k \in Transports, TransportStep(k) PROVE m \in Told
  <2>1. CASE Unwrap(k)
    BY <1>4, <2>1, MessagesTyped, MessagesTold DEF Unwrap
  <2>2. CASE LoseWrapper(k) \/ Crash(k)
    BY <1>3, <2>2 DEF LoseWrapper, Crash, Told
  <2>3. QED
    BY <1>6, <2>1, <2>2 DEF TransportStep
<1>7. CASE TimeOut \/ Poll \/ UNCHANGED vars
  BY <1>3, <1>7 DEF TimeOut, Poll, vars, Told
<1>8. ASSUME NEW type, Handle(type) PROVE m \in Told
  BY <1>3, <1>8, ToldTaken
<1>9. CASE OwnerStep
  BY <1>7, <1>8, <1>9 DEF OwnerStep, HandleData, HandleSendingViaIpcChannel, HandleReceived,
     HandleDisconnect
<1>10. QED
  BY <1>5, <1>6, <1>7, <1>9 DEF Next

LEMMA InitInv == Init => IInv
<1>1. Init => sm.maybe
  BY DEF Init, SM!New
<1>2. QED
  BY <1>1, InitBase DEF IInv, Ledger, NoPrematureDisconnect, NoDataLost

LEMMA InvStep == IInv /\ [Next]_vars /\ ~WritesOffUnderWay => IInv'
<1>1. ASSUME IInv, [Next]_vars, ~WritesOffUnderWay PROVE IInv'
  <2>1. Ledger'
    BY <1>1, LedgerStep DEF IInv
  <2>2. /\ Usable' => Usable
        /\ sm.maybe /\ ~sm'.maybe => sm'.sources = {} /\ sm'.inFlight[Empty] = 0
    BY <1>1, UsableStep DEF IInv, Ledger, Base
  <2>3. (Ledger /\ sm.sources = {} /\ sm.inFlight[Empty] = 0
           => ~Usable /\ \A i \in DOMAIN queue : queue[i].type # "Data")'
    BY VacantUnusable, PTL
  <2>4. Ledger' /\ sm'.sources = {} /\ sm'.inFlight[Empty] = 0
           => ~Usable' /\ \A i \in DOMAIN queue' : queue'[i].type # "Data"
    BY <2>3
  <2>5. NoPrematureDisconnect'
    BY <1>1, <2>1, <2>2, <2>4 DEF IInv, NoPrematureDisconnect
  <2>6. NoDataLost'
    <3>1. CASE sm.maybe
      BY <2>1, <2>2, <2>4, <3>1 DEF NoDataLost
    <3>2. CASE ~sm.maybe
      <4>1. ~Usable /\ ~\E i \in DOMAIN queue : queue[i].type = "Data"
        BY <1>1, <3>2 DEF IInv, NoPrematureDisconnect, NoDataLost
      <4>2. QED
        BY <1>1, <4>1, DataStep DEF IInv, Ledger, Base, NoDataLost
    <3>3. QED
      BY <3>1, <3>2
  <2>7. QED
    BY <2>1, <2>5, <2>6 DEF IInv
<1>2. QED
  BY <1>1

LEMMA CoreWatches == Core => WrapperWatched
BY WrappedUnderWay DEF Core, WrapperWatched, Announced, Watched, InQueue, Told

\* The state, the messages and the state machine keep their types, whether or not
\* transports overlap and whatever becomes of them.
THEOREM TypeCorrect == Spec => []TypeOK
<1>1. TypeOK /\ [Next]_vars => TypeOK'
  BY TypedStep
<1>2. QED
  BY <1>1, InitTyped, PTL DEF Spec

\* Where a transport starts after the owner has handled the end of the last one: a
\* wrapper is either yet to be announced to the owner or counted once, with its own
\* keepalive probed under the shared key, for any number of transports, copies,
\* losses and crashes.
THEOREM WrappersWatched ==
  ASSUME OneAtATime PROVE Spec => []WrapperWatched
<1>1. Core /\ [Next]_vars => Core'
  BY CoreStep
<1>2. Init => Core
  BY InitBase DEF Core
<1>3. QED
  BY <1>1, <1>2, CoreWatches, PTL DEF Spec

LEMMA InvKept == IInv /\ [Next /\ ~WritesOffUnderWay]_vars => IInv'
<1>1. UNCHANGED vars => ~WritesOffUnderWay
  BY DEF vars, WritesOffUnderWay, Poll
<1>2. QED
  BY <1>1, InvStep

\* Transports may overlap, wrappers be lost and processes die: unless a poll writes
\* the entries off while a transport is under way, the owner does not disconnect the
\* subchannel while a subsender or a wrapper of one exists.
THEOREM EarlyOnlyPastWriteOff == TrueLossesSpec => []NoPrematureDisconnect
<1>1. IInv => NoPrematureDisconnect
  BY DEF IInv
<1>2. QED
  BY <1>1, InitInv, InvKept, PTL DEF TrueLossesSpec

\* Nor does it leave a payload unread then.
THEOREM LostOnlyPastWriteOff == TrueLossesSpec => []NoDataLost
<1>1. IInv => NoDataLost
  BY DEF IInv
<1>2. QED
  BY <1>1, InitInv, InvKept, PTL DEF TrueLossesSpec
===============================================================================
