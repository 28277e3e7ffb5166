----------------------------- MODULE RouterDelivery -----------------------------
(***************************************************************************)
(* Proofs about Router, continued: wakeups, messages and disconnects on    *)
(* their way through the router's queues, who still has a subsender, and   *)
(* what ends the router.                                                   *)
(***************************************************************************)
EXTENDS RouterProofs

-----------------------------------------------------------------------------
(* Queues, position by position.                                           *)

LEMMA AppendIndexed ==
  ASSUME NEW S, NEW q \in Seq(S), NEW m
  PROVE  /\ Len(q) \in Nat
         /\ DOMAIN q = 1 .. Len(q) /\ DOMAIN Append(q, m) = 1 .. Len(q) + 1
         /\ \A i \in DOMAIN q : Append(q, m)[i] = q[i]
         /\ Append(q, m)[Len(q) + 1] = m
OBVIOUS

LEMMA TailIndexed ==
  ASSUME NEW S, NEW q \in Seq(S), q # <<>>
  PROVE  /\ Tail(q) \in Seq(S) /\ Len(q) \in Nat /\ Len(q) > 0
         /\ DOMAIN q = 1 .. Len(q) /\ DOMAIN Tail(q) = 1 .. Len(q) - 1
         /\ \A i \in DOMAIN Tail(q) : Tail(q)[i] = q[i + 1]
         /\ Head(q) = q[1] /\ Head(q) \in S
OBVIOUS

LEMMA ConcatIndexed ==
  ASSUME NEW S, NEW q \in Seq(S), NEW p \in Seq(S)
  PROVE  /\ q \o p \in Seq(S) /\ Len(q) \in Nat /\ Len(p) \in Nat
         /\ DOMAIN q = 1 .. Len(q) /\ DOMAIN p = 1 .. Len(p)
         /\ DOMAIN (q \o p) = 1 .. Len(q) + Len(p)
         /\ \A i \in DOMAIN q : (q \o p)[i] = q[i]
         /\ \A i \in DOMAIN p : (q \o p)[Len(q) + i] = p[i]
OBVIOUS

-----------------------------------------------------------------------------
(* Counting wakeups.                                                       *)

Wakeups(q) == {i \in DOMAIN q : q[i] = Wakeup}

LEMMA WakeupsFinite ==
  ASSUME NEW S, NEW q \in Seq(S)
  PROVE  IsFiniteSet(Wakeups(q)) /\ Count(q) = Cardinality(Wakeups(q)) /\ Count(q) \in Nat
<1>1. Len(q) \in Nat /\ DOMAIN q = 1 .. Len(q)
  OBVIOUS
<1>2. IsFiniteSet(DOMAIN q)
  BY <1>1, FS_Interval
<1>3. IsFiniteSet(Wakeups(q))
  BY <1>2, FS_Subset DEF Wakeups
<1>4. QED
  BY <1>3, FS_CardinalityType DEF Count, Wakeups

LEMMA CountNone == Count(<<>>) = 0
BY FS_EmptySet DEF Count

LEMMA CountAppended ==
  ASSUME NEW S, NEW q \in Seq(S), NEW m
  PROVE  Count(Append(q, m)) = Count(q) + (IF m = Wakeup THEN 1 ELSE 0)
<1>1. PICK p : p = Append(q, m)
  OBVIOUS
<1>2. /\ Len(q) \in Nat /\ DOMAIN q = 1 .. Len(q) /\ DOMAIN p = 1 .. Len(q) + 1
      /\ \A i \in DOMAIN q : p[i] = q[i]
      /\ p[Len(q) + 1] = m
  BY <1>1
<1>3. Wakeups(p) = IF m = Wakeup THEN Wakeups(q) \cup {Len(q) + 1} ELSE Wakeups(q)
  <2>1. \A i : i \in DOMAIN p <=> i \in DOMAIN q \/ i = Len(q) + 1
    BY <1>2
  <2>2. QED
    BY <1>2, <2>1 DEF Wakeups
<1>4. Len(q) + 1 \notin Wakeups(q)
  BY <1>2 DEF Wakeups
<1>5. Count(p) = Cardinality(Wakeups(p)) /\ Count(q) = Cardinality(Wakeups(q))
  BY DEF Count, Wakeups
<1>6. IsFiniteSet(Wakeups(q)) /\ Count(q) \in Nat
  BY WakeupsFinite
<1>7. Cardinality(Wakeups(q) \cup {Len(q) + 1}) = Cardinality(Wakeups(q)) + 1
  BY <1>4, <1>6, FS_AddElement
<1>8. QED
  BY <1>1, <1>3, <1>5, <1>6, <1>7

\* Sets with a bijection between them have as many elements.
LEMMA BijectionCounts ==
  ASSUME NEW A, NEW B, IsFiniteSet(A), NEW f \in Bijection(A, B)
  PROVE  Cardinality(B) = Cardinality(A)
<1>1. ExistsBijection(A, B)
  BY DEF ExistsBijection
<1>2. QED
  BY <1>1, FS_Bijection, Zenon

LEMMA CountTaken ==
  ASSUME NEW S, NEW q \in Seq(S), q # <<>>
  PROVE  Count(q) = Count(Tail(q)) + (IF Head(q) = Wakeup THEN 1 ELSE 0)
<1>1. PICK p \in Seq(S) : p = Tail(q)
  BY TailIndexed
<1>2. /\ Len(q) \in Nat /\ Len(q) > 0
      /\ DOMAIN q = 1 .. Len(q) /\ DOMAIN p = 1 .. Len(q) - 1
      /\ \A i \in DOMAIN p : p[i] = q[i + 1]
      /\ Head(q) = q[1]
  BY <1>1, TailIndexed
<1>3. PICK rest : rest = Wakeups(q) \ {1}
  OBVIOUS
<1>4. PICK f : f = [i \in Wakeups(p) |-> i + 1]
  OBVIOUS
<1>5. f \in Bijection(Wakeups(p), rest)
  <2>1. \A i : i \in Wakeups(p) => i \in Nat /\ i + 1 \in rest
    BY <1>2, <1>3 DEF Wakeups
  <2>2. \A j \in rest : j - 1 \in Wakeups(p) /\ (j - 1) + 1 = j
    <3>1. SUFFICES ASSUME NEW j \in rest PROVE j - 1 \in Wakeups(p) /\ (j - 1) + 1 = j
      OBVIOUS
    <3>2. j \in 2 .. Len(q) /\ q[j] = Wakeup
      BY <1>2, <1>3 DEF Wakeups
    <3>3. j - 1 \in DOMAIN p /\ (j - 1) + 1 = j
      BY <1>2, <3>2
    <3>4. p[j - 1] = q[j]
      BY <1>2, <3>3
    <3>5. QED
      BY <3>2, <3>3, <3>4 DEF Wakeups
  <2>3. f \in [Wakeups(p) -> rest]
    BY <1>4, <2>1
  <2>4. \A a, b \in Wakeups(p) : f[a] = f[b] => a = b
    BY <1>4, <2>1
  <2>5. \A j \in rest : \E i \in Wakeups(p) : f[i] = j
    BY <1>4, <2>2
  <2>6. f \in Injection(Wakeups(p), rest)
    BY <2>3, <2>4 DEF Injection, IsInjective
  <2>7. f \in Surjection(Wakeups(p), rest)
    BY <2>3, <2>5 DEF Surjection
  <2>8. QED
    BY <2>6, <2>7 DEF Bijection
<1>6. Cardinality(rest) = Cardinality(Wakeups(p))
  <2>1. IsFiniteSet(Wakeups(p))
    BY <1>1, WakeupsFinite
  <2>2. PICK w : w = Wakeups(p)
    OBVIOUS
  <2>3. IsFiniteSet(w) /\ f \in Bijection(w, rest)
    BY <1>5, <2>1, <2>2
  <2>4. Cardinality(rest) = Cardinality(w)
    BY <2>3, BijectionCounts
  <2>5. QED
    BY <2>2, <2>4
<1>7. Cardinality(rest) = IF 1 \in Wakeups(q) THEN Count(q) - 1 ELSE Count(q)
  <2>1. PICK w : w = Wakeups(q)
    OBVIOUS
  <2>2. IsFiniteSet(w) /\ Count(q) = Cardinality(w)
    BY <2>1, WakeupsFinite
  <2>3. Cardinality(w \ {1}) = IF 1 \in w THEN Cardinality(w) - 1 ELSE Cardinality(w)
    BY <2>2, FS_RemoveElement
  <2>4. QED
    BY <1>3, <2>1, <2>2, <2>3
<1>8. 1 \in Wakeups(q) <=> Head(q) = Wakeup
  BY <1>2 DEF Wakeups
<1>9. Count(p) = Cardinality(Wakeups(p)) /\ Count(p) \in Nat /\ Count(q) \in Nat
  BY WakeupsFinite
<1>10. QED
  BY <1>1, <1>6, <1>7, <1>8, <1>9

\* Elements that are not wakeups do not count.
LEMMA CountConcat ==
  ASSUME NEW S, NEW q \in Seq(S), NEW p \in Seq(S), \A i \in DOMAIN p : p[i] # Wakeup
  PROVE  Count(q \o p) = Count(q)
<1>1. PICK s : s = q \o p
  OBVIOUS
<1>2. /\ Len(q) \in Nat /\ Len(p) \in Nat
      /\ DOMAIN q = 1 .. Len(q) /\ DOMAIN s = 1 .. Len(q) + Len(p)
      /\ \A i \in DOMAIN q : s[i] = q[i]
      /\ \A i \in DOMAIN s : i \notin DOMAIN q => i - Len(q) \in DOMAIN p /\ s[i] = p[i - Len(q)]
  <2>1. /\ Len(q) \in Nat /\ Len(p) \in Nat /\ DOMAIN p = 1 .. Len(p)
        /\ DOMAIN q = 1 .. Len(q) /\ DOMAIN s = 1 .. Len(q) + Len(p)
        /\ \A i \in DOMAIN q : s[i] = q[i]
        /\ \A i \in DOMAIN p : s[Len(q) + i] = p[i]
    BY <1>1, ConcatIndexed
  <2>2. \A i \in DOMAIN s : i \notin DOMAIN q =>
          i - Len(q) \in DOMAIN p /\ Len(q) + (i - Len(q)) = i
    BY <2>1
  <2>3. QED
    BY <2>1, <2>2
<1>3. Wakeups(s) = Wakeups(q)
  <2>1. \A i \in DOMAIN q : i \in DOMAIN s
    BY <1>2
  <2>2. QED
    BY <1>2, <2>1 DEF Wakeups
<1>4. QED
  BY <1>1, <1>3 DEF Count, Wakeups

-----------------------------------------------------------------------------
(* A wakeup for each message to the router.                                *)

\* There are events to handle only while the router handles them.
EventsHandled == router \in {"select", "ipc", "batch", "poll"} => events = <<>>

\* The callers about to wake the router.
Waking == {r \in Routes : at[r] = "wakeup"}

WakeupInv == EventsHandled /\ WakeupsMatchMessages

\* What WakeupsMatchMessages counts.
Signals == Count(events) + Count(local) + Count(ipc[WakeupChannel])

LEMMA MatchRestated ==
  WakeupsMatchMessages <=>
    (Running => Signals + Cardinality(Waking) = Len(msgs) + (IF stop = "message" THEN 1 ELSE 0))
BY DEF WakeupsMatchMessages, Signals, Waking

LEMMA Counted ==
  ASSUME TypeOK
  PROVE  /\ Count(events) \in Nat /\ Count(local) \in Nat /\ Count(ipc[WakeupChannel]) \in Nat
         /\ Len(msgs) \in Nat /\ Cardinality(Waking) \in Nat
<1>1. ipc[WakeupChannel] \in Seq({Wakeup})
  BY ChannelTyped DEF TypeOK
<1>2. IsFiniteSet(Waking)
  BY RouterAssumption, FS_Subset DEF Waking
<1>3. events \in Seq(Events) /\ local \in Seq(Events) /\ msgs \in Seq(Routes \cup {Stopper})
  BY DEF TypeOK
<1>4. QED
  BY <1>1, <1>2, <1>3, WakeupsFinite, FS_CardinalityType

LEMMA EventsHandledStep ==
  ASSUME TypeOK, EventsHandled, [Next]_vars
  PROVE  EventsHandled'
<1> USE DEF EventsHandled, proxyVars, demuxVars, routerVars, clientVars
<1>1. CASE UNCHANGED vars
  BY <1>1 DEF vars
<1>2. ASSUME NEW r \in Routes, SubChannel(r) \/ AddRoute(r)
      PROVE  EventsHandled'
  BY <1>2 DEF SubChannel, AddRoute, SendRoute, SendWakeup, AwaitAck, Fail
<1>3. ASSUME NEW r \in Routes,
             Send(r) \/ Drop(r) \/ Lend(r) \/ Borrow(r) \/ Lose(r) \/ Return(r)
      PROVE  EventsHandled'
  BY <1>3 DEF Send, Drop, Lend, Borrow, Lose, Return
<1>4. CASE Shutdown \/ Stop \/ OwnerLeaves
  BY <1>4 DEF Shutdown, Stop, SendShutdown, Join, OwnerLeaves
<1>5. CASE Run
  <2>1. CASE Select
    BY <2>1 DEF Select
  <2>2. ASSUME NEW k \in IpcChannels, Receive(k) PROVE EventsHandled'
    <3>1. router \in {"ipc", "batch"} /\ UNCHANGED events
      BY <2>2 DEF Receive
    <3>2. QED
      BY <3>1
  <2>3. CASE EndBatch \/ TimeOut \/ Poll \/ DropQueue \/ DropSubReceiverSet \/ HandleShutdown
    BY <2>3 DEF EndBatch, TimeOut, Poll, DropQueue, DropSubReceiverSet, HandleShutdown
  <2>4. ASSUME NextEvent PROVE EventsHandled'
    <3>1. events \in Seq(Events)
      BY DEF TypeOK
    <3>2. Len(events) = 1 => Tail(events) = <<>>
      <4>1. SUFFICES ASSUME Len(events) = 1 PROVE Tail(events) = <<>>
        OBVIOUS
      <4>2. Tail(events) \in Seq(Events) /\ Len(Tail(events)) = 0
        BY <3>1, <4>1
      <4>3. QED
        BY <4>2, EmptySeq
    <3>3. QED
      BY <2>4, <3>2 DEF NextEvent
  <2>5. QED
    BY <1>5, <2>1, <2>2, <2>3, <2>4 DEF Run, HandleAddRoute, HandleMessage, HandleClosed
<1>6. QED
  BY <1>1, <1>2, <1>3, <1>4, <1>5 DEF Next

\* What a poll puts into the local queue.
LEMMA PolledClosed ==
  ASSUME TypeOK, Poll
  PROVE  \E p \in Seq(Events) :
           /\ local' = local \o p
           /\ \A i \in DOMAIN p : \E r \in Routes :
                p[i] = Closed(r) /\ r \in switched /\ sm[r].maybe /\ ~sm'[r].maybe
           /\ \A r \in switched : sm[r].maybe /\ ~sm'[r].maybe =>
                \E i \in DOMAIN p : p[i] = Closed(r)
           /\ \A i, j \in DOMAIN p : p[i] = p[j] => i = j
<1>1. PICK taken : taken = {r \in Routes : sm[r].maybe /\ ~sm'[r].maybe}
  OBVIOUS
<1>2. PICK order \in SetToSeqs(taken \cap switched) :
        local' = local \o [i \in DOMAIN order |-> Closed(order[i])]
  BY <1>1 DEF Poll
<1>3. PICK n \in Nat : n = Cardinality(taken \cap switched)
  <2>1. IsFiniteSet(taken \cap switched)
    BY <1>1, RouterAssumption, FS_Subset
  <2>2. QED
    BY <2>1, FS_CardinalityType
<1>4. order \in [1 .. n -> taken \cap switched] /\ \A i, j \in 1 .. n : order[i] = order[j] => i = j
  BY <1>2, <1>3 DEF SetToSeqs, IsInjective
<1>a. IsFiniteSet(1 .. n) /\ Cardinality(1 .. n) = n /\ IsFiniteSet(taken \cap switched)
  BY <1>1, RouterAssumption, FS_Subset, FS_Interval
<1>b. \A r \in taken \cap switched : \E i \in 1 .. n : order[i] = r
  <2>1. order \in Injection(1 .. n, taken \cap switched)
    BY <1>4 DEF Injection, IsInjective
  <2>2. order \in Surjection(1 .. n, taken \cap switched)
    BY <1>3, <1>a, <2>1, FS_Injection
  <2>3. QED
    BY <2>2 DEF Surjection
<1>5. PICK p : p = [i \in 1 .. n |-> Closed(order[i])]
  OBVIOUS
<1>6. p \in Seq(Events)
  <2>1. \A i \in 1 .. n : Closed(order[i]) \in Events
    BY <1>1, <1>4, MessagesTyped
  <2>2. QED
    BY <1>5, <2>1
<1>7. local' = local \o p
  BY <1>2, <1>4, <1>5
<1>8. \A r, s : Closed(r) = Closed(s) => r = s
  BY DEF Closed
<1>9. DOMAIN p = 1 .. n /\ \A i \in 1 .. n : p[i] = Closed(order[i])
  BY <1>5
<1>10. /\ \A i \in DOMAIN p : \E r \in Routes :
            p[i] = Closed(r) /\ r \in switched /\ sm[r].maybe /\ ~sm'[r].maybe
       /\ \A i, j \in DOMAIN p : p[i] = p[j] => i = j
  BY <1>1, <1>4, <1>8, <1>9
<1>11. \A r \in switched : sm[r].maybe /\ ~sm'[r].maybe => \E i \in DOMAIN p : p[i] = Closed(r)
  <2>1. SUFFICES ASSUME NEW r \in switched, sm[r].maybe, ~sm'[r].maybe
                 PROVE  \E i \in DOMAIN p : p[i] = Closed(r)
    OBVIOUS
  <2>2. r \in taken \cap switched
    BY <1>1, <2>1 DEF TypeOK
  <2>3. PICK i \in 1 .. n : order[i] = r
    BY <1>b, <2>2
  <2>4. QED
    BY <1>9, <2>3
<1>12. QED
  BY <1>6, <1>7, <1>10, <1>11

\* What a step does to the number of wakeups not yet handled.
LEMMA RunSignals ==
  ASSUME TypeOK, EventsLeft, EventsHandled, Run, Running'
  PROVE  \/ Signals' = Signals /\ msgs' = msgs
         \/ Signals' = Signals - 1 /\ Len(msgs') = Len(msgs) - 1
<1> USE DEF proxyVars, demuxVars, routerVars, clientVars
<1>0. /\ events \in Seq(Events) /\ local \in Seq(Events) /\ msgs \in Seq(Routes \cup {Stopper})
      /\ ipc \in [IpcChannels -> Seq(Messages \cup {Wakeup})]
      /\ WakeupChannel \in IpcChannels
      /\ ipc[WakeupChannel] \in Seq({Wakeup})
      /\ \A m \in Messages : m # Wakeup
      /\ \A r : Closed(r) # Wakeup
  BY ChannelTyped DEF TypeOK, Messages, Wakeup, Closed
<1>1. /\ Count(events) \in Nat /\ Count(local) \in Nat /\ Count(ipc[WakeupChannel]) \in Nat
      /\ Len(msgs) \in Nat
  BY Counted
<1>2. CASE Select
  <2>1. events = <<>> /\ events' = local /\ local' = <<>> /\ ipc' = ipc /\ msgs' = msgs
    BY <1>2 DEF Select, EventsHandled
  <2>2. QED
    BY <1>1, <2>1, CountNone DEF Signals
<1>3. CASE EndBatch \/ TimeOut
  BY <1>3 DEF EndBatch, TimeOut, Signals
<1>4. ASSUME NEW k \in IpcChannels, Receive(k), k = WakeupChannel
      PROVE  Signals' = Signals /\ msgs' = msgs
  <2>1. /\ ipc[k] # <<>> /\ ipc' = [ipc EXCEPT ![k] = Tail(ipc[k])]
        /\ local' = Append(local, Wakeup) /\ events' = events /\ msgs' = msgs
    BY <1>4 DEF Receive
  <2>2. PICK q \in Seq({Wakeup}) : q = ipc[k]
    BY <1>0, <1>4
  <2>3. Head(q) = Wakeup /\ ipc'[WakeupChannel] = Tail(q)
    BY <1>0, <1>4, <2>1, <2>2, TailIndexed
  <2>4. Count(q) = Count(Tail(q)) + 1
    BY <2>1, <2>2, <2>3, CountTaken
  <2>5. Count(local') = Count(local) + 1
    BY <1>0, <2>1, CountAppended
  <2>6. Count(Tail(q)) \in Nat
    BY <2>1, <2>2, TailIndexed, WakeupsFinite
  <2>7. QED
    BY <1>1, <1>4, <2>1, <2>2, <2>3, <2>4, <2>5, <2>6 DEF Signals
<1>5. ASSUME NEW k \in IpcChannels, Receive(k), k # WakeupChannel
      PROVE  Signals' = Signals /\ msgs' = msgs
  <2>1. /\ ipc[k] # <<>> /\ ipc' = [ipc EXCEPT ![k] = Tail(ipc[k])]
        /\ Demultiplex(Head(ipc[k])) /\ events' = events /\ msgs' = msgs
    BY <1>5 DEF Receive
  <2>2. ipc'[WakeupChannel] = ipc[WakeupChannel]
    BY <1>0, <1>5, <2>1
  <2>3. PICK m \in Messages : m = Head(ipc[k])
    <3>1. ipc[k] \in Seq(Messages)
      BY <1>5 DEF TypeOK, Carried
    <3>2. QED
      BY <2>1, <3>1, TailIndexed
  <2>4. \/ local' = local
        \/ \E e \in Events : e # Wakeup /\ local' = Append(local, e)
    <3>1. Demultiplex(m)
      BY <2>1, <2>3
    <3>2. \/ local' = local \/ local' = local \o <<>>
          \/ m.type = "Data" /\ local' = local \o <<m>>
          \/ local' = local \o <<Closed(m.route)>>
      BY <3>1 DEF Demultiplex, ClosedFor
    <3>3. local \o <<>> = local
      BY <1>0, ConcatEmptySeq
    <3>4. \A e \in Events : local \o <<e>> = Append(local, e)
      BY <1>0, AppendIsConcat
    <3>5. /\ m.type = "Data" => m \in Events /\ m # Wakeup
          /\ Closed(m.route) \in Events /\ Closed(m.route) # Wakeup
      BY <1>0, MessagesTyped
    <3>6. QED
      BY <3>2, <3>3, <3>4, <3>5
  <2>5. Count(local') = Count(local)
    <3>1. ASSUME NEW e \in Events, e # Wakeup PROVE Count(Append(local, e)) = Count(local)
      BY <1>0, <1>1, <3>1, CountAppended
    <3>2. CASE \E e \in Events : e # Wakeup /\ local' = Append(local, e)
      <4>1. PICK e \in Events : e # Wakeup /\ local' = Append(local, e)
        BY <3>2
      <4>2. Count(Append(local, e)) = Count(local)
        BY <3>1, <4>1
      <4>3. QED
        BY <4>1, <4>2
    <3>3. QED
      BY <2>4, <3>2
  <2>6. QED
    BY <2>1, <2>2, <2>5 DEF Signals
<1>6. CASE Poll
  <2>1. UNCHANGED <<events, ipc, msgs>>
    BY <1>6 DEF Poll
  <2>2. PICK p \in Seq(Events) :
          local' = local \o p /\ \A i \in DOMAIN p : \E r \in Routes : p[i] = Closed(r)
    BY <1>6, PolledClosed
  <2>a. \A i \in DOMAIN p : p[i] # Wakeup
    BY <1>0, <2>2
  <2>3. Count(local') = Count(local)
    BY <1>0, <2>2, <2>a, CountConcat
  <2>4. QED
    BY <2>1, <2>3 DEF Signals
<1>7. ASSUME NextEvent, router = "events", UNCHANGED <<local, ipc>>
      PROVE  Signals' = Signals - (IF Head(events) = Wakeup THEN 1 ELSE 0)
  <2>1. events # <<>> /\ events' = Tail(events)
    BY <1>7 DEF EventsLeft, NextEvent
  <2>2. PICK q \in Seq(Events) : q = events
    BY <1>0
  <2>3. /\ Count(q) = Count(Tail(q)) + (IF Head(q) = Wakeup THEN 1 ELSE 0)
        /\ Count(Tail(q)) \in Nat
    BY <2>1, <2>2, CountTaken, TailIndexed, WakeupsFinite
  <2>4. QED
    BY <1>1, <1>7, <2>1, <2>2, <2>3 DEF Signals
<1>8. CASE HandleAddRoute
  <2>1. Len(msgs') = Len(msgs) - 1
    BY <1>0, <1>8 DEF HandleAddRoute
  <2>2. QED
    BY <1>7, <1>8, <2>1 DEF HandleAddRoute
<1>9. CASE HandleMessage \/ HandleClosed
  <2>1. Head(events) # Wakeup
    BY <1>9 DEF HandleMessage, HandleClosed, Wakeup
  <2>2. Signals \in Nat
    BY <1>1 DEF Signals
  <2>3. QED
    BY <1>7, <1>9, <2>1, <2>2 DEF HandleMessage, HandleClosed
<1>10. ASSUME HandleShutdown \/ DropQueue \/ DropSubReceiverSet PROVE FALSE
  BY <1>10 DEF HandleShutdown, DropQueue, DropSubReceiverSet, Running
<1>11. QED
  BY <1>2, <1>3, <1>4, <1>5, <1>6, <1>8, <1>9, <1>10 DEF Run

LEMMA WakeupPut ==
  ASSUME TypeOK, Put(WakeupChannel, Wakeup), ~NoIpc, UNCHANGED <<events, local>>
  PROVE  Signals' = Signals + 1
<1>1. PICK q \in Seq({Wakeup}) : q = ipc[WakeupChannel]
  BY ChannelTyped DEF TypeOK
<1>2. ipc'[WakeupChannel] = Append(q, Wakeup)
  BY <1>1, ChannelTyped DEF TypeOK, Put
<1>3. Count(Append(q, Wakeup)) = Count(q) + 1
  BY CountAppended
<1>4. /\ Count(events) \in Nat /\ Count(local) \in Nat /\ Count(ipc[WakeupChannel]) \in Nat
  BY Counted
<1>5. QED
  BY <1>1, <1>2, <1>3, <1>4 DEF Signals

\* What a caller of add_route or shutdown does to either side.
LEMMA CallsSignal ==
  ASSUME InPlaceInv, Running, NEW r \in Routes, SubChannel(r) \/ AddRoute(r)
  PROVE  \/ Signals' = Signals /\ Waking' = Waking /\ msgs' = msgs
         \/ /\ Signals' = Signals /\ Waking' = Waking \cup {r} /\ r \notin Waking
            /\ Len(msgs') = Len(msgs) + 1
         \/ /\ Signals' = Signals + 1 /\ Waking' = Waking \ {r} /\ r \in Waking
            /\ msgs' = msgs
<1> USE DEF proxyVars, demuxVars, routerVars, clientVars
<1>0. /\ at \in [Routes -> {"none", "lock", "wakeup", "wait", "failing", "failed", "routed"}]
      /\ ipc \in [IpcChannels -> Seq(Messages \cup {Wakeup})]
      /\ WakeupChannel \in IpcChannels /\ ipc[WakeupChannel] \in Seq({Wakeup})
      /\ TypeOK /\ msgs \in Seq(Routes \cup {Stopper})
      /\ ~NoIpc /\ ~NoQueue
  BY ChannelTyped DEF InPlaceInv, TypeOK, Running, NoIpc, NoQueue
<1>1. CASE SubChannel(r)
  <2>1. UNCHANGED <<events, local, ipc, msgs>> /\ Waking' = Waking
    BY <1>0, <1>1 DEF SubChannel, Waking
  <2>2. QED
    BY <2>1 DEF Signals
<1>2. CASE SendRoute(r)
  <2>1. UNCHANGED <<events, local, ipc>>
    BY <1>2 DEF SendRoute
  <2>2. CASE at' = [at EXCEPT ![r] = "failing"] /\ msgs' = msgs
    <3>1. Waking' = Waking
      BY <1>0, <1>2, <2>2 DEF SendRoute, Waking
    <3>2. QED
      BY <2>1, <2>2, <3>1 DEF Signals
  <2>3. CASE at' = [at EXCEPT ![r] = "wakeup"] /\ msgs' = Append(msgs, r)
    <3>1. Waking' = Waking \cup {r} /\ r \notin Waking
      BY <1>0, <1>2, <2>3 DEF SendRoute, Waking
    <3>2. Len(msgs') = Len(msgs) + 1
      BY <1>0, <2>3
    <3>3. QED
      BY <2>1, <3>1, <3>2 DEF Signals
  <2>4. QED
    BY <1>2, <2>2, <2>3 DEF SendRoute
<1>3. CASE SendWakeup(r)
  <2>1. /\ at[r] = "wakeup" /\ at' = [at EXCEPT ![r] = "wait"] /\ Put(WakeupChannel, Wakeup)
        /\ UNCHANGED <<events, local, msgs>>
    BY <1>0, <1>3 DEF SendWakeup
  <2>2. Waking' = Waking \ {r} /\ r \in Waking
    BY <1>0, <2>1 DEF Waking
  <2>3. Signals' = Signals + 1
    BY <1>0, <2>1, WakeupPut
  <2>4. QED
    BY <2>1, <2>2, <2>3
<1>4. CASE AwaitAck(r)
  <2>1. UNCHANGED <<events, local, ipc, msgs>> /\ Waking' = Waking
    BY <1>0, <1>4 DEF AwaitAck, Waking
  <2>2. QED
    BY <2>1 DEF Signals
<1>5. CASE Fail(r)
  BY <1>5 DEF Fail, InPlaceInv, CallsAnswered
<1>6. QED
  BY <1>1, <1>2, <1>3, <1>4, <1>5 DEF AddRoute

LEMMA ShutdownSignals ==
  ASSUME InPlaceInv, Running, Shutdown \/ Stop
  PROVE  /\ Waking' = Waking
         /\ \/ Signals' = Signals /\ msgs' = msgs
                 /\ (stop' = "message" <=> stop = "message")
            \/ Signals' = Signals + 1 /\ msgs' = msgs /\ stop' = "message" /\ stop # "message"
            \/ /\ Signals' = Signals /\ Len(msgs') = Len(msgs) + 1
               /\ stop' # "message" /\ stop = "message"
<1> USE DEF proxyVars, demuxVars, routerVars, clientVars
<1>0. /\ TypeOK /\ msgs \in Seq(Routes \cup {Stopper}) /\ ~NoIpc /\ ~NoQueue
  BY DEF InPlaceInv, TypeOK, Running, NoIpc, NoQueue
<1>1. CASE Shutdown
  <2>1. /\ stop = "no" /\ stop' = "message" /\ Put(WakeupChannel, Wakeup)
        /\ UNCHANGED <<events, local, msgs, at>>
    BY <1>0, <1>1 DEF Shutdown
  <2>2. Signals' = Signals + 1
    BY <1>0, <2>1, WakeupPut
  <2>3. QED
    BY <2>1, <2>2 DEF Waking
<1>2. CASE SendShutdown
  <2>1. /\ stop = "message" /\ stop' = "wait" /\ msgs' = Append(msgs, Stopper)
        /\ UNCHANGED <<events, local, ipc, at>>
    BY <1>0, <1>2 DEF SendShutdown
  <2>2. Len(msgs') = Len(msgs) + 1
    BY <1>0, <2>1
  <2>3. QED
    BY <2>1, <2>2 DEF Waking, Signals
<1>3. CASE Join
  <2>1. /\ stop # "message" /\ stop' # "message" /\ UNCHANGED <<events, local, ipc, msgs, at>>
    BY <1>3 DEF Join
  <2>2. QED
    BY <2>1 DEF Waking, Signals
<1>4. QED
  BY <1>1, <1>2, <1>3 DEF Stop

\* Other messages are not for the router.
LEMMA ClientSignals ==
  ASSUME InPlaceInv,
         \/ \E r \in Routes : Send(r) \/ Drop(r) \/ Lend(r) \/ Borrow(r) \/ Lose(r) \/ Return(r)
         \/ OwnerLeaves \/ UNCHANGED vars
  PROVE  Signals' = Signals /\ UNCHANGED <<Waking, msgs, stop>>
<1> USE DEF proxyVars, demuxVars, routerVars, clientVars
<1>1. UNCHANGED <<events, local, msgs, stop, at>>
  BY DEF Send, Drop, Lend, Borrow, Lose, Return, OwnerLeaves, vars
<1>2. ipc'[WakeupChannel] = ipc[WakeupChannel]
  <2>1. \A r \in Routes : Of[r] # WakeupChannel /\ Of[r] \in IpcChannels
    BY ChannelTyped, RouterAssumption
  <2>2. ipc \in [IpcChannels -> Seq(Messages \cup {Wakeup})] /\ WakeupChannel \in IpcChannels
    BY ChannelTyped DEF InPlaceInv, TypeOK
  <2>3. ASSUME NEW r \in Routes, NEW m, Put(Of[r], m)
        PROVE  ipc'[WakeupChannel] = ipc[WakeupChannel]
    BY <2>1, <2>2, <2>3 DEF Put
  <2>4. QED
    BY <2>3 DEF Send, Drop, Lend, Borrow, Lose, Return, OwnerLeaves, vars
<1>3. QED
  BY <1>1, <1>2 DEF Signals, Waking

LEMMA WakeupInvStep ==
  ASSUME InPlaceInv, WakeupInv, [Next]_vars
  PROVE  WakeupInv'
<1>1. EventsHandled'
  BY EventsHandledStep DEF InPlaceInv, WakeupInv
<1>2. SUFFICES ASSUME Running'
               PROVE  Signals' + Cardinality(Waking')
                        = Len(msgs') + (IF stop' = "message" THEN 1 ELSE 0)
  <2>1. (WakeupsMatchMessages <=>
          (Running => Signals + Cardinality(Waking)
                        = Len(msgs) + (IF stop = "message" THEN 1 ELSE 0)))'
    BY MatchRestated, PTL
  <2>2. QED
    BY <1>1, <2>1 DEF WakeupInv
<1>3. Running
  BY <1>2, EndIsFinal
<1>4. Signals + Cardinality(Waking) = Len(msgs) + (IF stop = "message" THEN 1 ELSE 0)
  BY <1>3, MatchRestated DEF WakeupInv
<1>5. /\ Signals \in Nat /\ Len(msgs) \in Nat /\ Cardinality(Waking) \in Nat
      /\ IsFiniteSet(Waking)
  BY Counted, RouterAssumption, FS_Subset DEF InPlaceInv, Signals, Waking
<1>6. ASSUME NEW r \in Routes, SubChannel(r) \/ AddRoute(r)
      PROVE  Signals' + Cardinality(Waking')
                        = Len(msgs') + (IF stop' = "message" THEN 1 ELSE 0)
  <2>1. stop' = stop
    BY <1>6 DEF SubChannel, AddRoute, SendRoute, SendWakeup, AwaitAck, Fail, proxyVars
  <2>2. /\ r \notin Waking => Cardinality(Waking \cup {r}) = Cardinality(Waking) + 1
        /\ r \in Waking => Cardinality(Waking \ {r}) = Cardinality(Waking) - 1
    BY <1>5, FS_AddElement, FS_RemoveElement
  <2>3. \/ Signals' = Signals /\ Waking' = Waking /\ msgs' = msgs
        \/ /\ Signals' = Signals /\ Waking' = Waking \cup {r} /\ r \notin Waking
           /\ Len(msgs') = Len(msgs) + 1
        \/ /\ Signals' = Signals + 1 /\ Waking' = Waking \ {r} /\ r \in Waking
           /\ msgs' = msgs
    BY <1>3, <1>6, CallsSignal
  <2>4. \/ Signals' = Signals /\ Cardinality(Waking') = Cardinality(Waking) /\ Len(msgs') = Len(msgs)
        \/ /\ Signals' = Signals /\ Cardinality(Waking') = Cardinality(Waking) + 1
           /\ Len(msgs') = Len(msgs) + 1
        \/ /\ Signals' = Signals + 1 /\ Cardinality(Waking') = Cardinality(Waking) - 1
           /\ Len(msgs') = Len(msgs)
    BY <2>2, <2>3
  <2>5. QED
    BY <1>4, <1>5, <2>1, <2>4
<1>7. CASE Shutdown \/ Stop
  BY <1>3, <1>4, <1>5, <1>7, ShutdownSignals
<1>8. CASE Run
  <2>1. at' = at /\ stop' = stop
    BY <1>8 DEF Run, Select, EndBatch, TimeOut, Poll, Receive, HandleAddRoute, HandleMessage,
                HandleClosed, HandleShutdown, DropQueue, DropSubReceiverSet, proxyVars
  <2>2. Waking' = Waking
    BY <2>1 DEF Waking
  <2>3. \/ Signals' = Signals /\ msgs' = msgs
        \/ Signals' = Signals - 1 /\ Len(msgs') = Len(msgs) - 1
    BY <1>2, <1>8, RunSignals DEF InPlaceInv, WakeupInv
  <2>4. QED
    BY <1>4, <1>5, <2>1, <2>2, <2>3
<1>9. ASSUME Signals' = Signals, UNCHANGED <<Waking, msgs, stop>>
      PROVE  Signals' + Cardinality(Waking')
               = Len(msgs') + (IF stop' = "message" THEN 1 ELSE 0)
  BY <1>4, <1>9
<1>10. QED
  BY <1>6, <1>7, <1>8, <1>9, ClientSignals DEF Next

LEMMA WakeupInvInit == Init => WakeupInv
<1>1. ASSUME Init PROVE WakeupInv
  <2>1. Waking = {} /\ events = <<>> /\ local = <<>> /\ ipc[WakeupChannel] = <<>>
        /\ msgs = <<>> /\ stop = "no"
    BY <1>1, ChannelTyped DEF Init, Waking
  <2>2. Signals = 0 /\ Cardinality(Waking) = 0 /\ Len(msgs) = 0
    BY <2>1, CountNone, FS_EmptySet DEF Signals
  <2>3. QED
    BY <2>1, <2>2, MatchRestated DEF WakeupInv, EventsHandled
<1>2. QED
  BY <1>1

\* The invariant of RoutesInPlace, for the proofs that follow.
LEMMA InPlaceAlways == Spec => []InPlaceInv
<1>1. InPlaceInv /\ TypeOK' /\ EventsLeft' /\ [Next]_vars => InPlaceInv'
  BY LockedStep, AcknowledgedStep, CallsAnsweredStep, UsedStep DEF InPlaceInv
<1>2. QED
  BY <1>1, InPlaceInit, TypeCorrect, PTL DEF Spec

\* A message to the router is matched by one wakeup, under way or about to be sent,
\* for any number of callers, whatever else is under way (WakeupsMatchMessages in
\* Router).
THEOREM WakeupsMatch == Spec => []WakeupsMatchMessages
<1>1. InPlaceInv /\ WakeupInv /\ [Next]_vars => WakeupInv'
  BY WakeupInvStep
<1>2. WakeupInv => WakeupsMatchMessages
  BY DEF WakeupInv
<1>3. QED
  BY <1>1, <1>2, WakeupInvInit, InPlaceAlways, PTL DEF Spec

-----------------------------------------------------------------------------
(* Messages and disconnects, through the queues.                           *)

Has(q, m) == \E i \in DOMAIN q : q[i] = m

Once(q, m) == \A i, j \in DOMAIN q : q[i] = m /\ q[j] = m => i = j

\* Each message of r in q has the news of the disconnect behind it.
ClosedBehind(r, q) ==
  \A i \in DataOf(r, q) : \E j \in DOMAIN q : i < j /\ q[j] = Closed(r)

\* A route is in the message queue of the router till it is acknowledged.
RoutesQueued ==
  /\ \A r \in Routes : at[r] \in {"none", "lock"} => r \notin acks
  /\ \A i \in DOMAIN msgs : msgs[i] # Stopper =>
       /\ at[msgs[i]] \in {"wakeup", "wait"} /\ msgs[i] \notin acks
       /\ \A j \in DOMAIN msgs : msgs[j] = msgs[i] => i = j

\* The disconnect of r is put into the local queue once, when its sender is taken,
\* behind its messages ...
ClosedLastIn(r, e, l, open) ==
  /\ Once(l, Closed(r)) /\ Once(e, Closed(r))
  /\ ~(Has(l, Closed(r)) /\ Has(e, Closed(r)))
  /\ open => ~Has(l, Closed(r)) /\ ~Has(e, Closed(r))
  /\ ~open => /\ ClosedBehind(r, l)
              /\ Has(l, Closed(r)) \/ ClosedBehind(r, e)

\* ... and the handler is there till it is handled.  There is nothing of a route that
\* is not acknowledged.
OrderlyIn(r, e, l, acknowledged, delivering, open, handling) ==
  /\ ClosedLastIn(r, e, l, open)
  /\ r \notin acknowledged =>
       /\ r \notin delivering
       /\ DataOf(r, e) = {} /\ DataOf(r, l) = {} /\ ~Has(e, Closed(r)) /\ ~Has(l, Closed(r))
  /\ r \in acknowledged /\ (open \/ Has(l, Closed(r)) \/ Has(e, Closed(r))) => r \in handling

Orderly == \A r \in Routes : OrderlyIn(r, events, local, acks, switched, sm[r].maybe, handlers)

NumbersOf(r, q) == {q[i].number : i \in DataOf(r, q)}

Increasing(r, q) == \A i, j \in DataOf(r, q) : i < j => q[i].number < q[j].number

Below(M, N) == \A m \in M, n \in N : m < n

\* The numbers of the messages of r that are on their way, in the queues e, l and c,
\* are those from h + 1 to s, in this order.
NumberedIn(r, e, l, c, h, s) ==
  /\ h <= s
  /\ NumbersOf(r, e) \cup NumbersOf(r, l) \cup NumbersOf(r, c) = h + 1 .. s
  /\ Below(NumbersOf(r, e), NumbersOf(r, l)) /\ Below(NumbersOf(r, l), NumbersOf(r, c))
  /\ Below(NumbersOf(r, e), NumbersOf(r, c))
  /\ Increasing(r, e) /\ Increasing(r, l) /\ Increasing(r, c)

Numbered ==
  \A r \in Routes : NumberedIn(r, events, local, ipc[Of[r]], handled[r], sent[r])

DeliveryInv ==
  Running =>
    /\ RoutesQueued
    /\ Orderly
    /\ Numbered

-----------------------------------------------------------------------------
(* What these say when a queue grows or shrinks.                           *)

IsData(m, r) == m.type = "Data" /\ m.route = r

LEMMA AppendedHas ==
  ASSUME NEW S, NEW q \in Seq(S), NEW m
  PROVE  /\ \A x : Has(Append(q, m), x) <=> Has(q, x) \/ x = m
         /\ \A x : Once(q, x) /\ (x = m => ~Has(q, x)) => Once(Append(q, m), x)
<1>1. PICK p : p = Append(q, m)
  OBVIOUS
<1>2. /\ Len(q) \in Nat /\ DOMAIN q = 1 .. Len(q) /\ DOMAIN p = 1 .. Len(q) + 1
      /\ \A i \in DOMAIN q : p[i] = q[i]
      /\ p[Len(q) + 1] = m
  BY <1>1, AppendIndexed
<1>3. \A i : i \in DOMAIN p <=> i \in DOMAIN q \/ i = Len(q) + 1
  BY <1>2
<1>4. \A x : Has(p, x) <=> Has(q, x) \/ x = m
  BY <1>2, <1>3 DEF Has
<1>5. \A x : Once(q, x) /\ (x = m => ~Has(q, x)) => Once(p, x)
  BY <1>2, <1>3 DEF Has, Once
<1>6. QED
  BY <1>1, <1>4, <1>5

LEMMA AppendedData ==
  ASSUME NEW S, NEW q \in Seq(S), NEW m, NEW r
  PROVE  /\ DataOf(r, Append(q, m)) = {} <=> DataOf(r, q) = {} /\ ~IsData(m, r)
         /\ NumbersOf(r, Append(q, m))
              = NumbersOf(r, q) \cup (IF IsData(m, r) THEN {m.number} ELSE {})
         /\ Increasing(r, q) /\ (IsData(m, r) => \A n \in NumbersOf(r, q) : n < m.number)
              => Increasing(r, Append(q, m))
         /\ ClosedBehind(r, q) /\ ~IsData(m, r) => ClosedBehind(r, Append(q, m))
         /\ m = Closed(r) => ClosedBehind(r, Append(q, m))
<1>1. PICK p : p = Append(q, m)
  OBVIOUS
<1>2. PICK n \in Nat : n = Len(q)
  BY AppendIndexed
<1>3. /\ DOMAIN q = 1 .. n /\ DOMAIN p = 1 .. n + 1
      /\ \A i \in DOMAIN q : p[i] = q[i]
      /\ p[n + 1] = m
  BY <1>1, <1>2, AppendIndexed
<1>4. \A i : i \in DOMAIN p <=> i \in DOMAIN q \/ i = n + 1
  BY <1>3
<1>5. \A i : i \in DataOf(r, p) <=> i \in DataOf(r, q) \/ (i = n + 1 /\ IsData(m, r))
  BY <1>3, <1>4 DEF DataOf, IsData
<1>6. \A i \in DataOf(r, q) : i \in DOMAIN q /\ p[i] = q[i] /\ i \in 1 .. n
  BY <1>3 DEF DataOf
<1>7. NumbersOf(r, p) = NumbersOf(r, q) \cup (IF IsData(m, r) THEN {m.number} ELSE {})
  BY <1>3, <1>5, <1>6 DEF NumbersOf
<1>8. ASSUME Increasing(r, q), IsData(m, r) => \A x \in NumbersOf(r, q) : x < m.number
      PROVE  Increasing(r, p)
  <2>1. SUFFICES ASSUME NEW i \in DataOf(r, p), NEW j \in DataOf(r, p), i < j
                 PROVE  p[i].number < p[j].number
    BY DEF Increasing
  <2>2. i \in DataOf(r, q)
    BY <1>2, <1>5, <1>6, <2>1
  <2>3. CASE j \in DataOf(r, q)
    BY <1>6, <1>8, <2>1, <2>2, <2>3 DEF Increasing
  <2>4. CASE j = n + 1 /\ IsData(m, r)
    BY <1>3, <1>6, <1>8, <2>2, <2>4 DEF NumbersOf
  <2>5. QED
    BY <1>5, <2>3, <2>4
<1>9. ASSUME ClosedBehind(r, q), ~IsData(m, r) PROVE ClosedBehind(r, p)
  BY <1>3, <1>4, <1>5, <1>6, <1>9 DEF ClosedBehind
<1>10. ASSUME m = Closed(r) PROVE ClosedBehind(r, p)
  <2>1. ~IsData(m, r)
    BY <1>10 DEF Closed, IsData
  <2>2. \A i \in DataOf(r, p) : i < n + 1
    BY <1>2, <1>5, <1>6, <2>1
  <2>3. QED
    BY <1>3, <1>4, <1>10, <2>2 DEF ClosedBehind
<1>11. DataOf(r, p) = {} <=> DataOf(r, q) = {} /\ ~IsData(m, r)
  BY <1>5
<1>12. QED
  BY <1>1, <1>7, <1>8, <1>9, <1>10, <1>11

LEMMA TakenHas ==
  ASSUME NEW S, NEW q \in Seq(S), q # <<>>
  PROVE  /\ \A x : Has(q, x) <=> Has(Tail(q), x) \/ x = Head(q)
         /\ \A x : Once(q, x) => Once(Tail(q), x) /\ (x = Head(q) => ~Has(Tail(q), x))
<1>1. PICK p \in Seq(S) : p = Tail(q)
  BY TailIndexed
<1>2. PICK n \in Nat : n = Len(q) /\ n > 0
  BY TailIndexed
<1>3. /\ DOMAIN q = 1 .. n /\ DOMAIN p = 1 .. n - 1
      /\ \A i \in DOMAIN p : p[i] = q[i + 1]
      /\ Head(q) = q[1]
  BY <1>1, <1>2, TailIndexed
<1>4. /\ \A i \in DOMAIN p : i \in Nat /\ i + 1 \in DOMAIN q /\ i + 1 # 1
      /\ \A i \in DOMAIN q : i # 1 => i - 1 \in DOMAIN p /\ (i - 1) + 1 = i
      /\ 1 \in DOMAIN q
  BY <1>2, <1>3
<1>5. \A x : Has(q, x) <=> Has(p, x) \/ x = Head(q)
  <2>1. \A i \in DOMAIN q : i # 1 => p[i - 1] = q[i]
    BY <1>3, <1>4
  <2>2. QED
    BY <1>3, <1>4, <2>1 DEF Has
<1>6. ASSUME NEW x, Once(q, x) PROVE Once(p, x) /\ (x = Head(q) => ~Has(p, x))
  <2>1. Once(p, x)
    <3>1. SUFFICES ASSUME NEW i \in DOMAIN p, NEW j \in DOMAIN p, p[i] = x, p[j] = x
                   PROVE  i = j
      BY DEF Once
    <3>2. i + 1 = j + 1
      BY <1>3, <1>4, <1>6, <3>1 DEF Once
    <3>3. QED
      BY <1>4, <3>2
  <2>2. x = Head(q) => ~Has(p, x)
    BY <1>3, <1>4, <1>6 DEF Once, Has
  <2>3. QED
    BY <2>1, <2>2
<1>7. QED
  BY <1>1, <1>5, <1>6

LEMMA TakenData ==
  ASSUME NEW S, NEW q \in Seq(S), q # <<>>, NEW r
  PROVE  /\ DataOf(r, q) = {} => DataOf(r, Tail(q)) = {} /\ ~IsData(Head(q), r)
         /\ NumbersOf(r, q)
              = NumbersOf(r, Tail(q)) \cup (IF IsData(Head(q), r) THEN {Head(q).number} ELSE {})
         /\ Increasing(r, q) =>
              /\ Increasing(r, Tail(q))
              /\ IsData(Head(q), r) => \A n \in NumbersOf(r, Tail(q)) : Head(q).number < n
         /\ ClosedBehind(r, q) =>
              /\ ClosedBehind(r, Tail(q))
              /\ IsData(Head(q), r) => Has(q, Closed(r))
<1>1. PICK p \in Seq(S) : p = Tail(q)
  BY TailIndexed
<1>2. PICK n \in Nat : n = Len(q) /\ n > 0
  BY TailIndexed
<1>3. PICK h : h = Head(q)
  OBVIOUS
<1>4. /\ DOMAIN q = 1 .. n /\ DOMAIN p = 1 .. n - 1
      /\ \A i \in DOMAIN p : p[i] = q[i + 1]
      /\ h = q[1]
  BY <1>1, <1>2, <1>3, TailIndexed
<1>5. /\ \A i \in DOMAIN p : i \in Nat /\ i + 1 \in DOMAIN q /\ 1 < i + 1
      /\ \A i \in DOMAIN q : i # 1 => i - 1 \in DOMAIN p /\ (i - 1) + 1 = i
      /\ 1 \in DOMAIN q
  BY <1>2, <1>4
<1>6. /\ \A i \in DataOf(r, p) : i + 1 \in DataOf(r, q) /\ i \in DOMAIN p
      /\ \A i \in DataOf(r, q) : i # 1 => i - 1 \in DataOf(r, p)
      /\ 1 \in DataOf(r, q) <=> IsData(h, r)
  <2>1. \A i \in DOMAIN q : i # 1 => p[i - 1] = q[i]
    BY <1>4, <1>5
  <2>2. QED
    BY <1>4, <1>5, <2>1 DEF DataOf, IsData
<1>7. DataOf(r, q) = {} => DataOf(r, p) = {} /\ ~IsData(h, r)
  BY <1>6
<1>8. NumbersOf(r, q) = NumbersOf(r, p) \cup (IF IsData(h, r) THEN {h.number} ELSE {})
  <2>1. ASSUME NEW x \in NumbersOf(r, q)
        PROVE  x \in NumbersOf(r, p) \/ (IsData(h, r) /\ x = h.number)
    <3>1. PICK i \in DataOf(r, q) : x = q[i].number
      BY <2>1 DEF NumbersOf
    <3>2. CASE i = 1
      BY <1>4, <1>6, <3>1, <3>2
    <3>3. CASE i # 1
      <4>1. i \in DOMAIN q
        BY <3>1 DEF DataOf
      <4>2. i - 1 \in DataOf(r, p) /\ p[i - 1] = q[i]
        BY <1>4, <1>5, <1>6, <3>1, <3>3, <4>1
      <4>3. QED
        BY <3>1, <4>2 DEF NumbersOf
    <3>4. QED
      BY <3>2, <3>3
  <2>2. ASSUME NEW x \in NumbersOf(r, p) PROVE x \in NumbersOf(r, q)
    BY <1>4, <1>6, <2>2 DEF NumbersOf
  <2>3. IsData(h, r) => h.number \in NumbersOf(r, q)
    BY <1>4, <1>6 DEF NumbersOf
  <2>4. QED
    BY <2>1, <2>2, <2>3
<1>9. ASSUME Increasing(r, q)
      PROVE  /\ Increasing(r, p)
             /\ IsData(h, r) => \A x \in NumbersOf(r, p) : h.number < x
  <2>1. \A i, j \in DataOf(r, p) : i < j => i + 1 < j + 1
    BY <1>5, <1>6
  <2>2. Increasing(r, p)
    BY <1>4, <1>6, <1>9, <2>1 DEF Increasing
  <2>3. ASSUME IsData(h, r), NEW x \in NumbersOf(r, p) PROVE h.number < x
    <3>1. PICK i \in DataOf(r, p) : x = p[i].number
      BY <2>3 DEF NumbersOf
    <3>2. i + 1 \in DataOf(r, q) /\ 1 \in DataOf(r, q) /\ 1 < i + 1 /\ p[i] = q[i + 1]
      BY <1>4, <1>5, <1>6, <2>3, <3>1
    <3>3. QED
      BY <1>4, <1>9, <3>1, <3>2 DEF Increasing
  <2>4. QED
    BY <2>2, <2>3
<1>10. ASSUME ClosedBehind(r, q)
       PROVE  ClosedBehind(r, p) /\ (IsData(h, r) => Has(q, Closed(r)))
  <2>1. ASSUME NEW i \in DataOf(r, p) PROVE \E j \in DOMAIN p : i < j /\ p[j] = Closed(r)
    <3>1. i \in Nat /\ i + 1 \in DataOf(r, q)
      BY <1>5, <1>6, <2>1
    <3>2. PICK j \in DOMAIN q : i + 1 < j /\ q[j] = Closed(r)
      BY <1>10, <3>1 DEF ClosedBehind
    <3>3. j - 1 \in DOMAIN p /\ i < j - 1
      BY <1>4, <3>1, <3>2
    <3>4. p[j - 1] = q[j]
      BY <1>4, <1>5, <3>2, <3>3
    <3>5. QED
      BY <3>2, <3>3, <3>4
  <2>2. IsData(h, r) => Has(q, Closed(r))
    BY <1>6, <1>10 DEF ClosedBehind, Has
  <2>3. QED
    BY <2>1, <2>2 DEF ClosedBehind
<1>11. QED
  BY <1>1, <1>3, <1>7, <1>8, <1>9, <1>10

\* A queue to which news of disconnects of other routes is added.
LEMMA ConcatHas ==
  ASSUME NEW S, NEW q \in Seq(S), NEW p \in Seq(S), \A i, j \in DOMAIN p : p[i] = p[j] => i = j
  PROVE  /\ \A x : Has(q \o p, x) <=> Has(q, x) \/ Has(p, x)
         /\ \A x : Once(q, x) /\ ~(Has(q, x) /\ Has(p, x)) => Once(q \o p, x)
<1>1. PICK s : s = q \o p
  OBVIOUS
<1>2. PICK n \in Nat, m \in Nat : n = Len(q) /\ m = Len(p)
  BY ConcatIndexed
<1>3. /\ DOMAIN q = 1 .. n /\ DOMAIN p = 1 .. m /\ DOMAIN s = 1 .. n + m
      /\ \A i \in DOMAIN q : s[i] = q[i]
      /\ \A i \in DOMAIN p : s[n + i] = p[i]
  BY <1>1, <1>2, ConcatIndexed
<1>4. /\ \A i \in DOMAIN q : i \in DOMAIN s
      /\ \A i \in DOMAIN p : n + i \in DOMAIN s
      /\ \A i \in DOMAIN s : i \notin DOMAIN q => i - n \in DOMAIN p /\ n + (i - n) = i
  BY <1>3
<1>5. \A i \in DOMAIN s : i \notin DOMAIN q => s[i] = p[i - n]
  BY <1>3, <1>4
<1>6. \A x : Has(s, x) <=> Has(q, x) \/ Has(p, x)
  BY <1>3, <1>4, <1>5 DEF Has
<1>7. ASSUME NEW x, Once(q, x), ~(Has(q, x) /\ Has(p, x)) PROVE Once(s, x)
  <2>1. SUFFICES ASSUME NEW i \in DOMAIN s, NEW j \in DOMAIN s, s[i] = x, s[j] = x
                 PROVE  i = j
    BY DEF Once
  <2>2. CASE i \in DOMAIN q /\ j \in DOMAIN q
    BY <1>3, <1>7, <2>1, <2>2 DEF Once
  <2>3. CASE i \notin DOMAIN q /\ j \notin DOMAIN q
    <3>1. i - n \in DOMAIN p /\ j - n \in DOMAIN p /\ p[i - n] = p[j - n]
      BY <1>4, <1>5, <2>1, <2>3
    <3>2. n + (i - n) = n + (j - n)
      BY <3>1
    <3>3. QED
      BY <1>4, <2>3, <3>2
  <2>4. CASE ~(i \in DOMAIN q <=> j \in DOMAIN q)
    BY <1>3, <1>4, <1>5, <1>7, <2>1, <2>4 DEF Has
  <2>5. QED
    BY <2>2, <2>3, <2>4
<1>8. QED
  BY <1>1, <1>6, <1>7

LEMMA ConcatData ==
  ASSUME NEW S, NEW q \in Seq(S), NEW p \in Seq(S), NEW r, DataOf(r, p) = {}
  PROVE  /\ DataOf(r, q \o p) = DataOf(r, q)
         /\ NumbersOf(r, q \o p) = NumbersOf(r, q)
         /\ Increasing(r, q) => Increasing(r, q \o p)
         /\ ClosedBehind(r, q) => ClosedBehind(r, q \o p)
         /\ Has(p, Closed(r)) => ClosedBehind(r, q \o p)
<1>1. PICK s : s = q \o p
  OBVIOUS
<1>2. PICK n \in Nat, m \in Nat : n = Len(q) /\ m = Len(p)
  BY ConcatIndexed
<1>3. /\ DOMAIN q = 1 .. n /\ DOMAIN p = 1 .. m /\ DOMAIN s = 1 .. n + m
      /\ \A i \in DOMAIN q : s[i] = q[i]
      /\ \A i \in DOMAIN p : s[n + i] = p[i]
  BY <1>1, <1>2, ConcatIndexed
<1>4. /\ \A i \in DOMAIN q : i \in DOMAIN s /\ i <= n
      /\ \A i \in DOMAIN p : n + i \in DOMAIN s /\ n < n + i
      /\ \A i \in DOMAIN s : i \notin DOMAIN q => i - n \in DOMAIN p /\ n + (i - n) = i
  BY <1>3
<1>5. \A i \in DOMAIN s : i \notin DOMAIN q => s[i] = p[i - n]
  BY <1>3, <1>4
<1>6. DataOf(r, s) = DataOf(r, q)
  BY <1>3, <1>4, <1>5 DEF DataOf
<1>7. \A i \in DataOf(r, q) : i \in DOMAIN q /\ s[i] = q[i]
  BY <1>3 DEF DataOf
<1>8. NumbersOf(r, s) = NumbersOf(r, q)
  BY <1>6, <1>7 DEF NumbersOf
<1>9. Increasing(r, q) => Increasing(r, s)
  BY <1>6, <1>7 DEF Increasing
<1>10. ClosedBehind(r, q) => ClosedBehind(r, s)
  BY <1>3, <1>4, <1>6 DEF ClosedBehind
<1>11. ASSUME Has(p, Closed(r)) PROVE ClosedBehind(r, s)
  <2>1. PICK j \in DOMAIN p : p[j] = Closed(r)
    BY <1>11 DEF Has
  <2>2. \A i \in DataOf(r, s) : i < n + j
    BY <1>2, <1>3, <1>4, <1>6, <1>7, <2>1
  <2>3. QED
    BY <1>3, <1>4, <2>1, <2>2 DEF ClosedBehind
<1>12. QED
  BY <1>1, <1>6, <1>8, <1>9, <1>10, <1>11

LEMMA EmptyHas ==
  /\ \A x : ~Has(<<>>, x) /\ Once(<<>>, x)
  /\ \A r : /\ DataOf(r, <<>>) = {} /\ NumbersOf(r, <<>>) = {}
            /\ Increasing(r, <<>>) /\ ClosedBehind(r, <<>>)
BY DEF Has, Once, DataOf, NumbersOf, Increasing, ClosedBehind

LEMMA EventKinds ==
  /\ \A r, s : /\ Closed(r) = Closed(s) => r = s
               /\ ~IsData(Closed(r), s) /\ Closed(r) # Wakeup /\ ~IsData(Wakeup, r)
  /\ \A r, m : IsData(m, r) => m # Closed(r) /\ m # Wakeup
  /\ \A r, s, n : /\ IsData(Data(r, n), s) <=> r = s
                  /\ Data(r, n).number = n
  /\ \A r, s : ~IsData(Sending(r), s) /\ ~IsData(Received(r), s)
  /\ \A r, s, t : ~IsData(Disconnect(r, t), s)
BY DEF Closed, IsData, Wakeup, Data, Sending, Received, Disconnect

-----------------------------------------------------------------------------
(* The disconnect stays last.                                              *)

LEMMA ClosedLastNothing ==
  ASSUME NEW r, NEW e, NEW l, NEW open, DataOf(r, e) = {}, DataOf(r, l) = {},
         ~Has(e, Closed(r)), ~Has(l, Closed(r))
  PROVE  ClosedLastIn(r, e, l, open)
BY DEF ClosedLastIn, ClosedBehind, Once, Has

LEMMA ClosedLastAppended ==
  ASSUME NEW r, NEW e, NEW l \in Seq(Events), NEW open, ClosedLastIn(r, e, l, open),
         NEW m, m # Closed(r), IsData(m, r) => open
  PROVE  ClosedLastIn(r, e, Append(l, m), open)
BY AppendedHas, AppendedData DEF ClosedLastIn

LEMMA ClosedLastTaken ==
  ASSUME NEW r, NEW e, NEW l \in Seq(Events), ClosedLastIn(r, e, l, TRUE)
  PROVE  ClosedLastIn(r, e, Append(l, Closed(r)), FALSE)
BY AppendedHas, AppendedData DEF ClosedLastIn

LEMMA ClosedLastSelected ==
  ASSUME NEW r, NEW l, NEW open, ClosedLastIn(r, <<>>, l, open)
  PROVE  ClosedLastIn(r, l, <<>>, open)
BY EmptyHas DEF ClosedLastIn

LEMMA ClosedLastHandled ==
  ASSUME NEW r, NEW e \in Seq(Events), e # <<>>, NEW l, NEW open, ClosedLastIn(r, e, l, open)
  PROVE  ClosedLastIn(r, Tail(e), l, open)
BY TakenHas, TakenData DEF ClosedLastIn

LEMMA ClosedLastPolled ==
  ASSUME NEW r, NEW e, NEW l \in Seq(Events), NEW open \in BOOLEAN, ClosedLastIn(r, e, l, open),
         NEW p \in Seq(Events), \A i, j \in DOMAIN p : p[i] = p[j] => i = j,
         \A i \in DOMAIN p : p[i].type = "Closed",
         NEW still \in BOOLEAN, Has(p, Closed(r)) <=> open /\ ~still, still => open
  PROVE  ClosedLastIn(r, e, l \o p, still)
<1>1. DataOf(r, p) = {}
  BY DEF DataOf
<1>2. /\ \A x : Has(l \o p, x) <=> Has(l, x) \/ Has(p, x)
      /\ \A x : Once(l, x) /\ ~(Has(l, x) /\ Has(p, x)) => Once(l \o p, x)
  BY ConcatHas
<1>3. /\ ClosedBehind(r, l) => ClosedBehind(r, l \o p)
      /\ Has(p, Closed(r)) => ClosedBehind(r, l \o p)
  BY <1>1, ConcatData
<1>4. QED
  BY <1>2, <1>3 DEF ClosedLastIn

-----------------------------------------------------------------------------
(* The numbers stay in order.                                              *)

LEMMA NumberedSent ==
  ASSUME NEW r, NEW e, NEW l, NEW c \in Seq(Messages), NEW h \in Nat, NEW s \in Nat,
         NumberedIn(r, e, l, c, h, s)
  PROVE  NumberedIn(r, e, l, Append(c, Data(r, s + 1)), h, s + 1)
<1>1. PICK E, L, C : E = NumbersOf(r, e) /\ L = NumbersOf(r, l) /\ C = NumbersOf(r, c)
  OBVIOUS
<1>2. h <= s /\ E \cup L \cup C = h + 1 .. s /\ Below(E, L) /\ Below(L, C) /\ Below(E, C)
  BY <1>1 DEF NumberedIn
<1>3. /\ NumbersOf(r, Append(c, Data(r, s + 1))) = C \cup {s + 1}
      /\ Increasing(r, c) /\ (\A n \in C : n < s + 1) => Increasing(r, Append(c, Data(r, s + 1)))
  <2>1. IsData(Data(r, s + 1), r) /\ Data(r, s + 1).number = s + 1
    BY EventKinds
  <2>2. QED
    BY <1>1, <2>1, AppendedData
<1>4. \A n \in E \cup L \cup C : n < s + 1
  BY <1>2
<1>5. E \cup L \cup (C \cup {s + 1}) = h + 1 .. s + 1
  BY <1>2
<1>6. Below(E, C \cup {s + 1}) /\ Below(L, C \cup {s + 1})
  BY <1>2, <1>4 DEF Below
<1>7. h <= s + 1
  BY <1>2
<1>8. QED
  BY <1>1, <1>2, <1>3, <1>4, <1>5, <1>6, <1>7 DEF NumberedIn

\* Only the messages of r matter.
LEMMA NumberedSame ==
  ASSUME NEW r, NEW e, NEW l, NEW c, NEW h, NEW s, NumberedIn(r, e, l, c, h, s),
         NEW f, NEW m, NEW d,
         NumbersOf(r, f) = NumbersOf(r, e), NumbersOf(r, m) = NumbersOf(r, l),
         NumbersOf(r, d) = NumbersOf(r, c),
         Increasing(r, e) => Increasing(r, f), Increasing(r, l) => Increasing(r, m),
         Increasing(r, c) => Increasing(r, d)
  PROVE  NumberedIn(r, f, m, d, h, s)
BY DEF NumberedIn

LEMMA NumberedReceived ==
  ASSUME NEW r, NEW e, NEW l \in Seq(Events), NEW c \in Seq(Messages), NEW h, NEW s,
         NumberedIn(r, e, l, c, h, s), c # <<>>, IsData(Head(c), r)
  PROVE  NumberedIn(r, e, Append(l, Head(c)), Tail(c), h, s)
<1>1. PICK E, L, C, n : /\ E = NumbersOf(r, e) /\ L = NumbersOf(r, l) /\ C = NumbersOf(r, Tail(c))
                        /\ n = Head(c).number
  OBVIOUS
<1>2. /\ NumbersOf(r, c) = C \cup {n}
      /\ Increasing(r, c) => Increasing(r, Tail(c)) /\ \A x \in C : n < x
  BY <1>1, TakenData
<1>3. /\ NumbersOf(r, Append(l, Head(c))) = L \cup {n}
      /\ Increasing(r, l) /\ (\A x \in L : x < n) => Increasing(r, Append(l, Head(c)))
  BY <1>1, AppendedData
<1>4. /\ h <= s /\ E \cup L \cup (C \cup {n}) = h + 1 .. s
      /\ Below(E, L) /\ Below(L, C \cup {n}) /\ Below(E, C \cup {n})
      /\ Increasing(r, e) /\ Increasing(r, l) /\ Increasing(r, c)
  BY <1>1, <1>2 DEF NumberedIn
<1>5. E \cup (L \cup {n}) \cup C = h + 1 .. s
  BY <1>4
<1>6. Below(E, L \cup {n}) /\ Below(L \cup {n}, C) /\ Below(E, C) /\ \A x \in L : x < n
  BY <1>2, <1>4 DEF Below
<1>7. QED
  BY <1>1, <1>2, <1>3, <1>4, <1>5, <1>6 DEF NumberedIn

LEMMA NumberedSelected ==
  ASSUME NEW r, NEW l, NEW c, NEW h, NEW s, NumberedIn(r, <<>>, l, c, h, s)
  PROVE  NumberedIn(r, l, <<>>, c, h, s)
BY EmptyHas DEF NumberedIn, Below

LEMMA NumberedHandled ==
  ASSUME NEW r, NEW e \in Seq(Events), e # <<>>, NEW l, NEW c, NEW h \in Nat, NEW s \in Nat,
         NumberedIn(r, e, l, c, h, s), IsData(Head(e), r)
  PROVE  NumberedIn(r, Tail(e), l, c, Head(e).number, s)
<1>1. PICK E, L, C, n : /\ E = NumbersOf(r, Tail(e)) /\ L = NumbersOf(r, l) /\ C = NumbersOf(r, c)
                        /\ n = Head(e).number
  OBVIOUS
<1>2. /\ NumbersOf(r, e) = E \cup {n}
      /\ Increasing(r, e) => Increasing(r, Tail(e)) /\ \A x \in E : n < x
  BY <1>1, TakenData
<1>3. /\ h <= s /\ (E \cup {n}) \cup L \cup C = h + 1 .. s
      /\ Below(E \cup {n}, L) /\ Below(L, C) /\ Below(E \cup {n}, C)
      /\ Increasing(r, e) /\ Increasing(r, l) /\ Increasing(r, c)
  BY <1>1, <1>2 DEF NumberedIn
<1>4. n \in h + 1 .. s /\ \A x \in E \cup L \cup C : n < x /\ x \in h + 1 .. s
  BY <1>2, <1>3 DEF Below
<1>5. n = h + 1
  <2>1. h + 1 \in (E \cup {n}) \cup L \cup C
    BY <1>3, <1>4
  <2>2. h + 1 \in E \cup L \cup C => n < h + 1
    BY <1>4
  <2>3. QED
    BY <1>4, <2>1, <2>2
<1>6. E \cup L \cup C = n + 1 .. s
  <2>1. \A x \in E \cup L \cup C : x \in n + 1 .. s
    BY <1>4
  <2>2. \A x \in n + 1 .. s : x \in E \cup L \cup C
    BY <1>3, <1>5
  <2>3. QED
    BY <2>1, <2>2
<1>7. Below(E, L) /\ Below(E, C) /\ n <= s
  BY <1>3, <1>4 DEF Below
<1>8. QED
  BY <1>1, <1>2, <1>3, <1>6, <1>7 DEF NumberedIn

-----------------------------------------------------------------------------
(* A route stays orderly.                                                  *)

LEMMA OrderlyUnused ==
  ASSUME NEW r, NEW e, NEW l, NEW A, NEW D, NEW open, NEW H, OrderlyIn(r, e, l, A, D, open, H),
         r \notin A, NEW still
  PROVE  OrderlyIn(r, e, l, A, D, still, H)
BY ClosedLastNothing DEF OrderlyIn

\* Only what the sets say of r matters.
LEMMA OrderlySame ==
  ASSUME NEW r, NEW e, NEW l, NEW A, NEW D, NEW open, NEW H, OrderlyIn(r, e, l, A, D, open, H),
         NEW B, NEW E, NEW G, r \in B <=> r \in A, r \in E <=> r \in D, r \in H => r \in G
  PROVE  OrderlyIn(r, e, l, B, E, open, G)
BY DEF OrderlyIn

LEMMA OrderlyAcknowledged ==
  ASSUME NEW r, NEW e \in Seq(Events), e # <<>>, NEW l, NEW A, NEW D, NEW open, NEW H,
         OrderlyIn(r, e, l, A, D, open, H), r \notin A
  PROVE  OrderlyIn(r, Tail(e), l, A \cup {r}, D \cup {r}, TRUE, H \cup {r})
<1>1. DataOf(r, Tail(e)) = {} /\ ~Has(Tail(e), Closed(r))
  BY TakenHas, TakenData DEF OrderlyIn
<1>2. ClosedLastIn(r, Tail(e), l, TRUE)
  BY <1>1, ClosedLastNothing DEF OrderlyIn
<1>3. QED
  BY <1>2 DEF OrderlyIn

LEMMA OrderlyAppended ==
  ASSUME NEW r, NEW e, NEW l \in Seq(Events), NEW A, NEW D, NEW open, NEW H,
         OrderlyIn(r, e, l, A, D, open, H),
         NEW m, m # Closed(r), IsData(m, r) => open /\ r \in A
  PROVE  OrderlyIn(r, e, Append(l, m), A, D, open, H)
BY ClosedLastAppended, AppendedHas, AppendedData DEF OrderlyIn

LEMMA OrderlyTaken ==
  ASSUME NEW r, NEW e, NEW l \in Seq(Events), NEW A, NEW D, NEW H,
         OrderlyIn(r, e, l, A, D, TRUE, H), r \in A
  PROVE  OrderlyIn(r, e, Append(l, Closed(r)), A, D, FALSE, H)
BY ClosedLastTaken, AppendedHas DEF OrderlyIn

LEMMA OrderlySelected ==
  ASSUME NEW r, NEW l, NEW A, NEW D, NEW open, NEW H, OrderlyIn(r, <<>>, l, A, D, open, H)
  PROVE  OrderlyIn(r, l, <<>>, A, D, open, H)
BY ClosedLastSelected, EmptyHas DEF OrderlyIn

\* The handler is removed when the disconnect is handled.
LEMMA OrderlyHandled ==
  ASSUME NEW r, NEW e \in Seq(Events), e # <<>>, NEW l, NEW A, NEW D, NEW open, NEW H,
         OrderlyIn(r, e, l, A, D, open, H), NEW G, Head(e) # Closed(r) /\ r \in H => r \in G
  PROVE  OrderlyIn(r, Tail(e), l, A, D, open, G)
<1>1. ClosedLastIn(r, Tail(e), l, open)
  BY ClosedLastHandled DEF OrderlyIn
<1>2. r \notin A => /\ r \notin D
                    /\ DataOf(r, Tail(e)) = {} /\ DataOf(r, l) = {}
                    /\ ~Has(Tail(e), Closed(r)) /\ ~Has(l, Closed(r))
  BY TakenHas, TakenData DEF OrderlyIn
<1>3. Head(e) = Closed(r) => ~open /\ ~Has(l, Closed(r)) /\ ~Has(Tail(e), Closed(r))
  BY TakenHas DEF OrderlyIn, ClosedLastIn
<1>4. Has(Tail(e), Closed(r)) => Has(e, Closed(r))
  BY TakenHas
<1>5. QED
  BY <1>1, <1>2, <1>3, <1>4 DEF OrderlyIn

LEMMA OrderlyPolled ==
  ASSUME NEW r, NEW e, NEW l \in Seq(Events), NEW A, NEW D, NEW open \in BOOLEAN, NEW H,
         OrderlyIn(r, e, l, A, D, open, H),
         NEW p \in Seq(Events), \A i, j \in DOMAIN p : p[i] = p[j] => i = j,
         \A i \in DOMAIN p : p[i].type = "Closed",
         NEW still \in BOOLEAN, Has(p, Closed(r)) <=> open /\ ~still /\ r \in D,
         still => open, r \in A => r \in D
  PROVE  OrderlyIn(r, e, l \o p, A, D, still, H)
<1>1. \A x : Has(l \o p, x) <=> Has(l, x) \/ Has(p, x)
  BY ConcatHas
<1>2. CASE r \in A
  <2>1. ClosedLastIn(r, e, l \o p, still)
    BY <1>2, ClosedLastPolled DEF OrderlyIn
  <2>2. Has(l \o p, Closed(r)) => open \/ Has(l, Closed(r))
    BY <1>1
  <2>3. QED
    BY <1>2, <2>1, <2>2 DEF OrderlyIn
<1>3. CASE r \notin A
  <2>1. ~Has(p, Closed(r)) /\ DataOf(r, p) = {}
    BY <1>3 DEF OrderlyIn, DataOf
  <2>2. DataOf(r, l \o p) = {} /\ ~Has(l \o p, Closed(r))
    BY <1>1, <1>3, <2>1, ConcatData DEF OrderlyIn
  <2>3. ClosedLastIn(r, e, l \o p, still)
    BY <1>3, <2>2, ClosedLastNothing DEF OrderlyIn
  <2>4. QED
    BY <1>3, <2>2, <2>3 DEF OrderlyIn
<1>4. QED
  BY <1>2, <1>3

-----------------------------------------------------------------------------
(* The steps.                                                              *)

\* Neither a message nor a poll brings a sender back that was taken.
LEMMA HandleMaybe ==
  ASSUME NEW x \in Machines, NEW m \in Messages
  PROVE  (Handle(x, m).maybe => x.maybe) /\ (m.type = "Data" => Handle(x, m) = x)
<1>1. CASE m.type = "Data"
  BY <1>1 DEF Handle
<1>2. CASE m.type = "Sending"
  BY <1>2 DEF Handle, Machines, SM!StateMachines, SM!ToBeSent, SM!ReceiveFailed, SM!TakeIfVacant
<1>3. CASE m.type = "Received"
  BY <1>3 DEF Handle, Machines, SM!StateMachines, SM!Received
<1>4. CASE m.type = "Disconnect"
  BY <1>4 DEF Handle, Machines, SM!StateMachines, SM!Disconnect, SM!TakeIfVacant
<1>5. QED
  BY <1>1, <1>2, <1>3, <1>4 DEF Messages

LEMMA PollMaybe ==
  ASSUME NEW x \in Machines, NEW failing
  PROVE  SM!Poll(x, failing).maybe => x.maybe
BY DEF SM!Poll

\* A message from an IPC channel is for a route that is in place, and goes to the
\* local queue; so does the news of a disconnect, when the sender is taken.
LEMMA Demultiplexed ==
  ASSUME InPlaceInv, Running', NEW k \in Channels, Receive(k)
  PROVE  \E m \in Messages :
           /\ ipc[k] # <<>> /\ m = Head(ipc[k]) /\ m.route \in acks /\ Of[m.route] = k
           /\ ipc' = [ipc EXCEPT ![k] = Tail(ipc[k])]
           /\ sm'[m.route] \in Machines
           /\ \A r \in Routes : r # m.route => sm'[r] = sm[r]
           /\ \/ /\ m.type = "Data" /\ m \in Events /\ sm[m.route].maybe
                 /\ sm'[m.route] = sm[m.route] /\ local' = Append(local, m)
              \/ /\ m.type # "Data" /\ sm'[m.route].maybe = sm[m.route].maybe
                 /\ local' = local
              \/ /\ m.type # "Data" /\ sm[m.route].maybe /\ ~sm'[m.route].maybe
                 /\ local' = Append(local, Closed(m.route))
<1>0. /\ local \in Seq(Events) /\ ipc[k] \in Seq(Messages) /\ k # WakeupChannel
      /\ sm \in [Routes -> Machines] /\ Running
      /\ UsedWhenRouted /\ CallsAnswered /\ AcknowledgedInPlace
  BY ChannelTyped, RouterAssumption DEF InPlaceInv, TypeOK, Machines, Receive, Running
<1>1. /\ ipc[k] # <<>> /\ ipc' = [ipc EXCEPT ![k] = Tail(ipc[k])] /\ Demultiplex(Head(ipc[k]))
  BY <1>0 DEF Receive
<1>2. PICK m \in Messages : m = Head(ipc[k]) /\ m = ipc[k][1] /\ 1 \in DOMAIN ipc[k]
  BY <1>0, <1>1, TailIndexed
<1>3. PICK r \in Routes : r = m.route
  BY MessagesTyped
<1>4. r \in acks /\ Of[r] = k /\ r \in switched
  BY <1>0, <1>2, <1>3 DEF UsedWhenRouted, CallsAnswered, AcknowledgedInPlace
<1>5. PICK after \in Machines : after = Handle(sm[r], m)
  BY <1>0, HandleTyped
<1>6. (after.maybe => sm[r].maybe) /\ (m.type = "Data" => after = sm[r])
  BY <1>0, <1>5, HandleMaybe
<1>7. /\ sm' = [sm EXCEPT ![r] = after]
      /\ m.type = "Data" => sm[r].maybe /\ local' = local \o <<m>>
      /\ m.type # "Data" /\ sm[r].maybe /\ ~after.maybe => local' = local \o <<Closed(r)>>
      /\ m.type # "Data" /\ ~(sm[r].maybe /\ ~after.maybe) => local' = local \o <<>>
  <2>1. Demultiplex(m)
    BY <1>1, <1>2
  <2>2. router' # "ending"
    BY DEF Running
  <2>3. QED
    BY <1>3, <1>4, <1>5, <2>1, <2>2 DEF Demultiplex, DataRefused, ClosedFor
<1>8. /\ local \o <<>> = local
      /\ \A e \in Events : local \o <<e>> = Append(local, e)
      /\ (m.type = "Data" => m \in Events) /\ Closed(r) \in Events
  BY <1>0, ConcatEmptySeq, AppendIsConcat, MessagesTyped
<1>9. /\ \A q \in Routes : q # r => sm'[q] = sm[q]
      /\ sm'[r] = after
  BY <1>0, <1>7
<1>10. after.maybe \in BOOLEAN /\ sm[r].maybe \in BOOLEAN
  BY <1>0 DEF Machines, SM!StateMachines
<1>11. \/ /\ m.type = "Data" /\ m \in Events /\ sm[r].maybe
          /\ sm'[r] = sm[r] /\ local' = Append(local, m)
       \/ m.type # "Data" /\ sm'[r].maybe = sm[r].maybe /\ local' = local
       \/ /\ m.type # "Data" /\ sm[r].maybe /\ ~sm'[r].maybe
          /\ local' = Append(local, Closed(r))
  <2>1. CASE m.type = "Data"
    BY <1>6, <1>7, <1>8, <1>9, <2>1
  <2>2. CASE m.type # "Data" /\ sm[r].maybe /\ ~after.maybe
    BY <1>7, <1>8, <1>9, <2>2
  <2>3. CASE m.type # "Data" /\ ~(sm[r].maybe /\ ~after.maybe)
    BY <1>6, <1>7, <1>8, <1>9, <1>10, <2>3
  <2>4. QED
    BY <2>1, <2>2, <2>3
<1>12. QED
  BY <1>1, <1>2, <1>3, <1>4, <1>9, <1>11

LEMMA RoutesQueuedStep ==
  ASSUME InPlaceInv, Running', RoutesQueued, [Next]_vars
  PROVE  RoutesQueued'
<1> USE DEF proxyVars, demuxVars, routerVars, clientVars
<1>0. /\ at \in [Routes -> {"none", "lock", "wakeup", "wait", "failing", "failed", "routed"}]
      /\ msgs \in Seq(Routes \cup {Stopper}) /\ Stopper \notin Routes
      /\ Running /\ ~NoQueue /\ ~NoIpc /\ CallsAnswered /\ CallsAnswered' /\ RoutesQueued
  BY EndIsFinal, CallsAnsweredStep, RouterAssumption DEF InPlaceInv, TypeOK, Running, NoQueue, NoIpc
<1>1. PICK n \in Nat : n = Len(msgs) /\ DOMAIN msgs = 1 .. n
  BY <1>0
<1>2. CASE UNCHANGED <<msgs, acks, at>>
  BY <1>0, <1>2 DEF RoutesQueued
<1>3. ASSUME NEW r \in Routes, SubChannel(r) PROVE RoutesQueued'
  <2>1. at[r] = "none" /\ at' = [at EXCEPT ![r] = "lock"] /\ msgs' = msgs /\ acks' = acks
    BY <1>3 DEF SubChannel
  <2>2. \A i \in DOMAIN msgs : msgs[i] # Stopper => msgs[i] \in Routes /\ msgs[i] # r
    BY <1>0, <2>1 DEF RoutesQueued
  <2>3. QED
    BY <1>0, <2>1, <2>2 DEF RoutesQueued
<1>4. ASSUME NEW r \in Routes, SendRoute(r) PROVE RoutesQueued'
  <2>1. at[r] = "lock" /\ acks' = acks
    BY <1>4 DEF SendRoute
  <2>2. at' = [at EXCEPT ![r] = "wakeup"] /\ msgs' = Append(msgs, r)
    <3>1. at'[r] # "failing"
      BY <1>0 DEF CallsAnswered
    <3>2. QED
      BY <1>0, <1>4, <3>1 DEF SendRoute
  <2>3. PICK q : q = msgs'
    OBVIOUS
  <2>4. DOMAIN q = 1 .. n + 1 /\ q[n + 1] = r /\ \A i \in 1 .. n : q[i] = msgs[i]
    BY <1>0, <1>1, <2>2, <2>3
  <2>5. \A i \in 1 .. n : msgs[i] # Stopper => msgs[i] \in Routes /\ msgs[i] # r
    BY <1>0, <1>1, <2>1 DEF RoutesQueued
  <2>6. r \notin acks
    BY <1>0, <2>1 DEF RoutesQueued
  <2>7. \A i \in DOMAIN q : i \in 1 .. n \/ i = n + 1
    BY <2>4
  <2>8. ASSUME NEW i \in DOMAIN q, q[i] # Stopper
        PROVE  /\ at'[q[i]] \in {"wakeup", "wait"} /\ q[i] \notin acks
               /\ \A j \in DOMAIN q : q[j] = q[i] => i = j
    <3>1. CASE i = n + 1
      BY <1>0, <2>2, <2>4, <2>5, <2>6, <2>7, <3>1
    <3>2. CASE i \in 1 .. n
      BY <1>0, <1>1, <2>2, <2>4, <2>5, <2>7, <2>8, <3>2 DEF RoutesQueued
    <3>3. QED
      BY <2>7, <3>1, <3>2
  <2>9. \A s \in Routes : at'[s] \in {"none", "lock"} => s \notin acks
    BY <1>0, <2>2 DEF RoutesQueued
  <2>10. QED
    BY <2>1, <2>3, <2>8, <2>9 DEF RoutesQueued
<1>5. ASSUME NEW r \in Routes, SendWakeup(r) PROVE RoutesQueued'
  <2>1. at[r] = "wakeup" /\ at' = [at EXCEPT ![r] = "wait"] /\ msgs' = msgs /\ acks' = acks
    BY <1>0, <1>5 DEF SendWakeup
  <2>2. \A i \in DOMAIN msgs : msgs[i] # Stopper => msgs[i] \in Routes
    BY <1>0
  <2>3. QED
    BY <1>0, <2>1, <2>2 DEF RoutesQueued
<1>6. ASSUME NEW r \in Routes, AwaitAck(r) PROVE RoutesQueued'
  <2>1. r \in acks /\ at' = [at EXCEPT ![r] = "routed"] /\ msgs' = msgs /\ acks' = acks
    BY <1>0, <1>6 DEF AwaitAck
  <2>2. \A i \in DOMAIN msgs : msgs[i] # Stopper => msgs[i] \in Routes /\ msgs[i] # r
    BY <1>0, <2>1 DEF RoutesQueued
  <2>3. QED
    BY <1>0, <2>1, <2>2 DEF RoutesQueued
<1>7. ASSUME NEW r \in Routes, Fail(r) PROVE RoutesQueued'
  BY <1>0, <1>7 DEF Fail, CallsAnswered
<1>8. ASSUME SendShutdown PROVE RoutesQueued'
  <2>1. msgs' = Append(msgs, Stopper) /\ acks' = acks /\ at' = at
    BY <1>0, <1>8 DEF SendShutdown
  <2>2. PICK q : q = msgs'
    OBVIOUS
  <2>3. DOMAIN q = 1 .. n + 1 /\ q[n + 1] = Stopper /\ \A i \in 1 .. n : q[i] = msgs[i]
    BY <1>0, <1>1, <2>1, <2>2
  <2>4. \A i \in DOMAIN q : q[i] # Stopper => i \in 1 .. n
    BY <2>3
  <2>5. QED
    BY <1>0, <1>1, <2>1, <2>2, <2>3, <2>4 DEF RoutesQueued
<1>9. ASSUME HandleAddRoute PROVE RoutesQueued'
  <2>1. /\ msgs # <<>> /\ Head(msgs) # Stopper /\ msgs' = Tail(msgs) /\ at' = at
        /\ acks' = acks \cup {Head(msgs)}
    BY <1>9 DEF HandleAddRoute
  <2>2. PICK q : q = msgs'
    OBVIOUS
  <2>3. /\ n > 0 /\ DOMAIN q = 1 .. n - 1 /\ Head(msgs) = msgs[1]
        /\ \A i \in DOMAIN q : q[i] = msgs[i + 1]
    BY <1>0, <1>1, <2>1, <2>2, TailIndexed
  <2>4. \A i \in DOMAIN q : i \in Nat /\ i + 1 \in DOMAIN msgs /\ i + 1 # 1
    BY <1>1, <2>3
  <2>5. 1 \in DOMAIN msgs /\ msgs[1] # Stopper /\ at[msgs[1]] \in {"wakeup", "wait"}
    BY <1>0, <1>1, <2>1, <2>3 DEF RoutesQueued
  <2>6. ASSUME NEW i \in DOMAIN q, q[i] # Stopper
        PROVE  /\ at[q[i]] \in {"wakeup", "wait"} /\ q[i] \notin acks \cup {msgs[1]}
               /\ \A j \in DOMAIN q : q[j] = q[i] => i = j
    <3>1. /\ at[msgs[i + 1]] \in {"wakeup", "wait"} /\ msgs[i + 1] \notin acks
          /\ \A j \in DOMAIN msgs : msgs[j] = msgs[i + 1] => i + 1 = j
      BY <1>0, <2>3, <2>4, <2>6 DEF RoutesQueued
    <3>2. msgs[i + 1] # msgs[1]
      BY <2>4, <2>5, <3>1
    <3>3. \A j \in DOMAIN q : q[j] = q[i] => i + 1 = j + 1
      BY <2>3, <2>4, <3>1
    <3>4. QED
      BY <2>3, <2>4, <3>1, <3>2, <3>3
  <2>7. \A s \in Routes : at[s] \in {"none", "lock"} => s \notin acks \cup {msgs[1]}
    BY <1>0, <2>5 DEF RoutesQueued
  <2>8. QED
    BY <2>1, <2>2, <2>3, <2>6, <2>7 DEF RoutesQueued
<1>10. CASE Run /\ ~HandleAddRoute
  <2>1. ~HandleShutdown /\ ~DropQueue /\ ~DropSubReceiverSet
    BY <1>0 DEF HandleShutdown, DropQueue, DropSubReceiverSet, Running
  <2>2. UNCHANGED <<msgs, acks, at>>
    BY <1>10, <2>1 DEF Run, Select, EndBatch, TimeOut, Poll, Receive, HandleMessage, HandleClosed
  <2>3. QED
    BY <1>2, <2>2
<1>11. CASE Shutdown \/ Join \/ OwnerLeaves \/ UNCHANGED vars
  BY <1>2, <1>11 DEF Shutdown, Join, OwnerLeaves, vars
<1>12. ASSUME NEW r \in Routes,
              Send(r) \/ Drop(r) \/ Lend(r) \/ Borrow(r) \/ Lose(r) \/ Return(r)
       PROVE  RoutesQueued'
  BY <1>2, <1>12 DEF Send, Drop, Lend, Borrow, Lose, Return
<1>13. QED
  BY <1>3, <1>4, <1>5, <1>6, <1>7, <1>8, <1>9, <1>10, <1>11, <1>12 DEF Next, AddRoute, Stop

LEMMA OrderlyQuiet ==
  ASSUME Orderly, UNCHANGED <<events, local, acks, switched, handlers>>,
         \A r \in Routes : r \in acks => sm'[r].maybe = sm[r].maybe
  PROVE  Orderly'
<1>1. ASSUME NEW r \in Routes
      PROVE  OrderlyIn(r, events', local', acks', switched', sm'[r].maybe, handlers')
  <2>1. OrderlyIn(r, events, local, acks, switched, sm[r].maybe, handlers)
    BY DEF Orderly
  <2>2. OrderlyIn(r, events, local, acks, switched, sm'[r].maybe, handlers)
    BY <2>1, OrderlyUnused
  <2>3. QED
    BY <2>2
<1>2. QED
  BY <1>1 DEF Orderly

LEMMA OrderlyRun ==
  ASSUME InPlaceInv, EventsHandled, Running', RoutesQueued, Orderly, Run
  PROVE  Orderly'
<1> USE DEF proxyVars, demuxVars, routerVars, clientVars
<1>0. /\ events \in Seq(Events) /\ local \in Seq(Events) /\ Running
      /\ sm \in [Routes -> Machines] /\ switched \in SUBSET Routes
      /\ msgs \in Seq(Routes \cup {Stopper}) /\ Stopper \notin Routes
      /\ EventsLeft /\ AcknowledgedInPlace /\ acks \in SUBSET Routes
  BY EndIsFinal, RouterAssumption DEF InPlaceInv, TypeOK, Machines, Next
<1>1. \A r \in Routes :
        OrderlyIn(r, events, local, acks, switched, sm[r].maybe, handlers)
  BY DEF Orderly
<1>2. SUFFICES ASSUME NEW r \in Routes
               PROVE  OrderlyIn(r, events', local', acks', switched', sm'[r].maybe, handlers')
  BY DEF Orderly
<1>3. CASE EndBatch \/ TimeOut
  BY <1>1, <1>3 DEF EndBatch, TimeOut
<1>4. CASE Select
  <2>1. /\ events = <<>> /\ events' = local /\ local' = <<>>
        /\ UNCHANGED <<acks, switched, sm, handlers>>
    BY <1>4 DEF Select, EventsHandled
  <2>2. OrderlyIn(r, <<>>, local, acks, switched, sm[r].maybe, handlers)
    BY <1>1, <2>1
  <2>3. OrderlyIn(r, local, <<>>, acks, switched, sm[r].maybe, handlers)
    BY <2>2, OrderlySelected
  <2>4. QED
    BY <2>1, <2>3
<1>5. ASSUME Receive(WakeupChannel)
      PROVE  OrderlyIn(r, events', local', acks', switched', sm'[r].maybe, handlers')
  <2>1. local' = Append(local, Wakeup) /\ UNCHANGED <<events, acks, switched, sm, handlers>>
    BY <1>5 DEF Receive
  <2>2. OrderlyIn(r, events, Append(local, Wakeup), acks, switched, sm[r].maybe, handlers)
    BY <1>0, <1>1, EventKinds, OrderlyAppended
  <2>3. QED
    BY <2>1, <2>2
<1>6. ASSUME NEW k \in Channels, Receive(k)
      PROVE  OrderlyIn(r, events', local', acks', switched', sm'[r].maybe, handlers')
  <2>1. UNCHANGED <<events, acks, switched, handlers>>
    BY <1>6 DEF Receive
  <2>2. PICK m \in Messages :
          /\ m.route \in acks /\ sm'[m.route] \in Machines
          /\ \A q \in Routes : q # m.route => sm'[q] = sm[q]
          /\ \/ /\ m.type = "Data" /\ m \in Events /\ sm[m.route].maybe
                /\ sm'[m.route] = sm[m.route] /\ local' = Append(local, m)
             \/ /\ m.type # "Data" /\ sm'[m.route].maybe = sm[m.route].maybe
                /\ local' = local
             \/ /\ m.type # "Data" /\ sm[m.route].maybe /\ ~sm'[m.route].maybe
                /\ local' = Append(local, Closed(m.route))
    BY <1>6, Demultiplexed
  <2>3. CASE /\ m.type = "Data" /\ m \in Events /\ sm[m.route].maybe
             /\ sm'[m.route] = sm[m.route] /\ local' = Append(local, m)
    <3>1. sm'[r].maybe = sm[r].maybe
      BY <2>2, <2>3
    <3>2. m # Closed(r) /\ (IsData(m, r) => sm[r].maybe /\ r \in acks)
      BY <2>2, <2>3 DEF Closed, IsData
    <3>3. OrderlyIn(r, events, Append(local, m), acks, switched, sm[r].maybe, handlers)
      BY <1>0, <1>1, <3>2, OrderlyAppended
    <3>4. QED
      BY <2>1, <2>3, <3>1, <3>3
  <2>4. CASE /\ m.type # "Data" /\ sm'[m.route].maybe = sm[m.route].maybe
             /\ local' = local
    <3>1. sm'[r].maybe = sm[r].maybe
      BY <2>2, <2>4
    <3>2. QED
      BY <1>1, <2>1, <2>4, <3>1
  <2>5. CASE /\ m.type # "Data" /\ sm[m.route].maybe /\ ~sm'[m.route].maybe
             /\ local' = Append(local, Closed(m.route))
    <3>1. CASE r = m.route
      <4>1. r \in acks /\ sm[r].maybe = TRUE /\ sm'[r].maybe = FALSE
        <5>1. sm[r].maybe \in BOOLEAN /\ sm'[r].maybe \in BOOLEAN
          BY <1>0, <2>2, <3>1 DEF Machines, SM!StateMachines
        <5>2. QED
          BY <2>2, <2>5, <3>1, <5>1
      <4>2. OrderlyIn(r, events, local, acks, switched, TRUE, handlers)
        BY <1>1, <4>1
      <4>3. OrderlyIn(r, events, Append(local, Closed(r)), acks, switched, FALSE, handlers)
        BY <1>0, <4>1, <4>2, OrderlyTaken
      <4>4. QED
        BY <2>1, <2>5, <3>1, <4>1, <4>3
    <3>2. CASE r # m.route
      <4>1. sm'[r] = sm[r] /\ Closed(m.route) # Closed(r) /\ ~IsData(Closed(m.route), r)
        BY <2>2, <3>2, EventKinds
      <4>2. OrderlyIn(r, events, Append(local, Closed(m.route)), acks, switched, sm[r].maybe, handlers)
        BY <1>0, <1>1, <4>1, OrderlyAppended
      <4>3. QED
        BY <2>1, <2>5, <4>1, <4>2
    <3>3. QED
      BY <3>1, <3>2
  <2>6. QED
    BY <2>2, <2>3, <2>4, <2>5
<1>7. CASE Poll
  <2>1. UNCHANGED <<events, acks, switched, handlers>>
    BY <1>7 DEF Poll
  <2>2. PICK p \in Seq(Events) :
          /\ local' = local \o p
          /\ \A i \in DOMAIN p : \E q \in Routes :
               p[i] = Closed(q) /\ q \in switched /\ sm[q].maybe /\ ~sm'[q].maybe
          /\ \A q \in switched : sm[q].maybe /\ ~sm'[q].maybe =>
               \E i \in DOMAIN p : p[i] = Closed(q)
          /\ \A i, j \in DOMAIN p : p[i] = p[j] => i = j
    BY <1>7, PolledClosed DEF InPlaceInv
  <2>3. sm[r].maybe \in BOOLEAN /\ sm'[r].maybe \in BOOLEAN /\ (sm'[r].maybe => sm[r].maybe)
    <3>1. sm'[r] = SM!Poll(sm[r], Failing(r)) \/ sm'[r] = sm[r]
      BY <1>7 DEF Poll
    <3>2. SM!Poll(sm[r], Failing(r)) \in Machines /\ (SM!Poll(sm[r], Failing(r)).maybe => sm[r].maybe)
      BY <1>0, PollTyped, PollMaybe
    <3>3. QED
      BY <1>0, <3>1, <3>2 DEF Machines, SM!StateMachines
  <2>4. PICK open \in BOOLEAN, still \in BOOLEAN : open = sm[r].maybe /\ still = sm'[r].maybe
    BY <2>3
  <2>5. Has(p, Closed(r)) <=> open /\ ~still /\ r \in switched
    <3>1. \A q : Closed(q) = Closed(r) => q = r
      BY EventKinds
    <3>2. Has(p, Closed(r)) => open /\ ~still /\ r \in switched
      BY <2>2, <2>4, <3>1 DEF Has
    <3>3. open /\ ~still /\ r \in switched => Has(p, Closed(r))
      BY <2>2, <2>4 DEF Has
    <3>4. QED
      BY <3>2, <3>3
  <2>6. \A i \in DOMAIN p : p[i].type = "Closed"
    BY <2>2 DEF Closed
  <2>7. (r \in acks => r \in switched) /\ (still => open)
    BY <1>0, <2>3, <2>4 DEF AcknowledgedInPlace
  <2>8. OrderlyIn(r, events, local \o p, acks, switched, still, handlers)
    <3>1. OrderlyIn(r, events, local, acks, switched, open, handlers)
      BY <1>1, <2>4
    <3>2. local \in Seq(Events) /\ \A i, j \in DOMAIN p : p[i] = p[j] => i = j
      BY <1>0, <2>2
    <3>3. QED
      BY <2>5, <2>6, <2>7, <3>1, <3>2, OrderlyPolled
  <2>9. QED
    BY <2>1, <2>2, <2>4, <2>8
<1>8. CASE HandleAddRoute
  <2>1. /\ msgs # <<>> /\ Head(msgs) # Stopper /\ events' = Tail(events) /\ local' = local
        /\ acks' = acks \cup {Head(msgs)} /\ switched' = switched \cup {Head(msgs)}
        /\ handlers' = handlers \cup {Head(msgs)}
        /\ sm' = [sm EXCEPT ![Head(msgs)] = SM!SwitchSender(sm[Head(msgs)])]
        /\ events # <<>> /\ Head(events) = Wakeup
    BY <1>0, <1>8 DEF HandleAddRoute, NextEvent, EventsLeft
  <2>2. PICK s \in Routes : s = Head(msgs) /\ s \notin acks
    <3>1. Head(msgs) = msgs[1] /\ 1 \in DOMAIN msgs /\ Head(msgs) \in Routes
      BY <1>0, <2>1, TailIndexed
    <3>2. QED
      BY <2>1, <3>1 DEF RoutesQueued
  <2>3. CASE r = s
    <3>1. r \notin acks /\ sm'[r].maybe = TRUE
      BY <1>0, <2>1, <2>2, <2>3 DEF SM!SwitchSender, Machines, SM!StateMachines
    <3>2. OrderlyIn(r, Tail(events), local, acks \cup {r}, switched \cup {r}, TRUE,
                    handlers \cup {r})
      BY <1>0, <1>1, <2>1, <3>1, OrderlyAcknowledged
    <3>3. QED
      BY <2>1, <2>2, <2>3, <3>1, <3>2
  <2>4. CASE r # s
    <3>1. sm'[r] = sm[r]
      BY <1>0, <2>1, <2>2, <2>4
    <3>2. OrderlyIn(r, Tail(events), local, acks, switched, sm[r].maybe, handlers)
      BY <1>0, <1>1, <2>1, OrderlyHandled
    <3>3. /\ r \in acks' <=> r \in acks
          /\ r \in switched' <=> r \in switched
          /\ r \in handlers => r \in handlers'
      BY <2>1, <2>2, <2>4
    <3>4. OrderlyIn(r, Tail(events), local, acks', switched', sm[r].maybe, handlers')
      BY <3>2, <3>3, OrderlySame
    <3>5. QED
      BY <2>1, <3>1, <3>4
  <2>5. QED
    BY <2>3, <2>4
<1>9. CASE HandleMessage
  <2>1. /\ events # <<>> /\ events' = Tail(events)
        /\ UNCHANGED <<local, acks, switched, sm, handlers>>
    BY <1>0, <1>9 DEF HandleMessage, NextEvent, EventsLeft
  <2>2. OrderlyIn(r, Tail(events), local, acks, switched, sm[r].maybe, handlers)
    BY <1>0, <1>1, <2>1, OrderlyHandled
  <2>3. QED
    BY <2>1, <2>2
<1>10. CASE HandleClosed
  <2>1. /\ events # <<>> /\ events' = Tail(events) /\ Head(events).type = "Closed"
        /\ handlers' = handlers \ {Head(events).route}
        /\ UNCHANGED <<local, acks, switched, sm>>
    BY <1>0, <1>10 DEF HandleClosed, NextEvent, EventsLeft
  <2>2. Head(events) # Closed(r) => Head(events).route # r
    <3>1. Head(events) \in Events
      BY <1>0, <2>1, TailIndexed
    <3>2. QED
      BY <2>1, <3>1 DEF Events, Closed, Wakeup
  <2>3. OrderlyIn(r, Tail(events), local, acks, switched, sm[r].maybe, handlers')
    <3>1. Head(events) # Closed(r) /\ r \in handlers => r \in handlers'
      BY <2>1, <2>2
    <3>2. QED
      BY <1>0, <1>1, <2>1, <3>1, OrderlyHandled
  <2>4. QED
    BY <2>1, <2>3
<1>11. ASSUME HandleShutdown \/ DropQueue \/ DropSubReceiverSet PROVE FALSE
  BY <1>11 DEF HandleShutdown, DropQueue, DropSubReceiverSet, Running
<1>12. QED
  BY <1>3, <1>4, <1>5, <1>6, <1>7, <1>8, <1>9, <1>10, <1>11 DEF Run, IpcChannels

LEMMA OrderlyStep ==
  ASSUME InPlaceInv, EventsHandled, Running', RoutesQueued, Orderly, [Next]_vars
  PROVE  Orderly'
<1> USE DEF proxyVars, demuxVars, routerVars, clientVars
<1>1. CASE UNCHANGED <<events, local, acks, switched, handlers, sm>>
  BY <1>1, OrderlyQuiet
<1>2. ASSUME NEW r \in Routes, SubChannel(r) PROVE Orderly'
  <2>1. /\ UNCHANGED <<events, local, acks, switched, handlers>> /\ at[r] = "none"
        /\ sm' = [sm EXCEPT ![r] = SM!New(Origin)]
    BY <1>2 DEF SubChannel
  <2>2. r \notin acks /\ sm \in [Routes -> Machines]
    BY <2>1 DEF RoutesQueued, InPlaceInv, TypeOK, Machines
  <2>3. \A q \in Routes : q \in acks => sm'[q].maybe = sm[q].maybe
    BY <2>1, <2>2
  <2>4. QED
    BY <2>1, <2>3, OrderlyQuiet
<1>3. ASSUME NEW r \in Routes, AddRoute(r) PROVE Orderly'
  BY <1>1, <1>3 DEF AddRoute, SendRoute, SendWakeup, AwaitAck, Fail
<1>4. CASE Shutdown \/ Stop \/ OwnerLeaves \/ UNCHANGED vars
  BY <1>1, <1>4 DEF Shutdown, Stop, SendShutdown, Join, OwnerLeaves, vars
<1>5. ASSUME NEW r \in Routes,
             Send(r) \/ Drop(r) \/ Lend(r) \/ Borrow(r) \/ Lose(r) \/ Return(r)
      PROVE  Orderly'
  BY <1>1, <1>5 DEF Send, Drop, Lend, Borrow, Lose, Return
<1>6. QED
  BY <1>2, <1>3, <1>4, <1>5, OrderlyRun DEF Next

\* A message that is not of r changes nothing for r.
LEMMA NumberedOthers ==
  ASSUME NEW r, NEW S, NEW q \in Seq(S), NEW m, ~IsData(m, r)
  PROVE  /\ NumbersOf(r, Append(q, m)) = NumbersOf(r, q)
         /\ Increasing(r, q) => Increasing(r, Append(q, m))
<1>1. NumbersOf(r, Append(q, m))
        = NumbersOf(r, q) \cup (IF IsData(m, r) THEN {m.number} ELSE {})
  BY AppendedData
<1>2. Increasing(r, q) /\ (IsData(m, r) => \A n \in NumbersOf(r, q) : n < m.number)
        => Increasing(r, Append(q, m))
  BY AppendedData
<1>3. QED
  BY <1>1, <1>2

LEMMA NumberedTaken ==
  ASSUME NEW r, NEW S, NEW q \in Seq(S), q # <<>>, ~IsData(Head(q), r)
  PROVE  /\ NumbersOf(r, Tail(q)) = NumbersOf(r, q)
         /\ Increasing(r, q) => Increasing(r, Tail(q))
BY TakenData

LEMMA NumberedKept ==
  ASSUME Numbered, UNCHANGED <<events, local, handled, sent>>,
         \A r \in Routes : ipc'[Of[r]] = ipc[Of[r]]
  PROVE  Numbered'
BY DEF Numbered

LEMMA NumberedPut ==
  ASSUME InPlaceInv, Running, Numbered, UNCHANGED <<events, local, handled, sent>>,
         NEW s \in Routes, NEW m, Put(Of[s], m), \A r \in Routes : ~IsData(m, r)
  PROVE  Numbered'
<1>1. SUFFICES ASSUME NEW r \in Routes
               PROVE  NumberedIn(r, events', local', ipc'[Of[r]], handled'[r], sent'[r])
  BY DEF Numbered
<1>2. /\ ipc \in [IpcChannels -> Seq(Messages \cup {Wakeup})]
      /\ \A q \in Routes : Of[q] \in IpcChannels /\ ipc[Of[q]] \in Seq(Messages)
  BY ChannelTyped DEF InPlaceInv, TypeOK
<1>3. ipc' = [ipc EXCEPT ![Of[s]] = Append(ipc[Of[s]], m)]
  BY DEF Put, NoIpc, Running
<1>4. NumberedIn(r, events, local, ipc[Of[r]], handled[r], sent[r])
  BY DEF Numbered
<1>5. CASE Of[r] = Of[s]
  <2>1. PICK c \in Seq(Messages) : c = ipc[Of[r]]
    BY <1>2
  <2>2. ipc'[Of[r]] = Append(c, m)
    BY <1>2, <1>3, <1>5, <2>1
  <2>3. /\ NumbersOf(r, Append(c, m)) = NumbersOf(r, c)
        /\ Increasing(r, c) => Increasing(r, Append(c, m))
    BY NumberedOthers
  <2>4. NumberedIn(r, events, local, Append(c, m), handled[r], sent[r])
    BY <1>4, <2>1, <2>3, NumberedSame
  <2>5. QED
    BY <2>2, <2>4
<1>6. CASE Of[r] # Of[s]
  <2>1. ipc'[Of[r]] = ipc[Of[r]]
    BY <1>2, <1>3, <1>6
  <2>2. QED
    BY <1>4, <2>1
<1>7. QED
  BY <1>5, <1>6

LEMMA NumberedSend ==
  ASSUME InPlaceInv, Running, Numbered, NEW s \in Routes, Send(s)
  PROVE  Numbered'
<1>1. SUFFICES ASSUME NEW r \in Routes
               PROVE  NumberedIn(r, events', local', ipc'[Of[r]], handled'[r], sent'[r])
  BY DEF Numbered
<1>2. /\ ipc \in [IpcChannels -> Seq(Messages \cup {Wakeup})]
      /\ \A q \in Routes : Of[q] \in IpcChannels /\ ipc[Of[q]] \in Seq(Messages)
      /\ sent \in [Routes -> Nat] /\ handled \in [Routes -> Nat]
  BY ChannelTyped DEF InPlaceInv, TypeOK
<1>3. /\ UNCHANGED <<events, local, handled>> /\ sent' = [sent EXCEPT ![s] = sent[s] + 1]
      /\ Put(Of[s], Data(s, sent'[s]))
  BY DEF Send, routerVars, demuxVars
<1>4. ipc' = [ipc EXCEPT ![Of[s]] = Append(ipc[Of[s]], Data(s, sent[s] + 1))]
  BY <1>2, <1>3 DEF Put, NoIpc, Running
<1>5. NumberedIn(r, events, local, ipc[Of[r]], handled[r], sent[r])
  BY DEF Numbered
<1>6. PICK c \in Seq(Messages) : c = ipc[Of[r]]
  BY <1>2
<1>7. CASE r = s
  <2>1. NumberedIn(r, events, local, Append(c, Data(r, sent[r] + 1)), handled[r], sent[r] + 1)
    BY <1>2, <1>5, <1>6, NumberedSent
  <2>2. ipc'[Of[r]] = Append(c, Data(r, sent[r] + 1)) /\ sent'[r] = sent[r] + 1
    BY <1>2, <1>3, <1>4, <1>6, <1>7
  <2>3. QED
    BY <1>3, <2>1, <2>2
<1>8. CASE r # s /\ Of[r] = Of[s]
  <2>1. PICK m : m = Data(s, sent[s] + 1)
    OBVIOUS
  <2>2. ipc'[Of[r]] = Append(c, m) /\ sent'[r] = sent[r]
    BY <1>2, <1>3, <1>4, <1>6, <1>8, <2>1
  <2>3. ~IsData(m, r)
    BY <1>8, <2>1, EventKinds
  <2>4. /\ NumbersOf(r, Append(c, m)) = NumbersOf(r, c)
        /\ Increasing(r, c) => Increasing(r, Append(c, m))
    BY <2>3, NumberedOthers
  <2>5. NumberedIn(r, events, local, Append(c, m), handled[r], sent[r])
    BY <1>5, <1>6, <2>4, NumberedSame
  <2>6. QED
    BY <1>3, <2>2, <2>5
<1>9. CASE Of[r] # Of[s]
  <2>1. ipc'[Of[r]] = ipc[Of[r]] /\ sent'[r] = sent[r]
    BY <1>2, <1>3, <1>4, <1>9
  <2>2. QED
    BY <1>3, <1>5, <2>1
<1>10. QED
  BY <1>7, <1>8, <1>9

\* Those who have the subsenders.
LEMMA NumberedClient ==
  ASSUME InPlaceInv, Running, Numbered, NEW r \in Routes,
         Send(r) \/ Drop(r) \/ Lend(r) \/ Borrow(r) \/ Lose(r) \/ Return(r)
  PROVE  Numbered'
<1> USE DEF proxyVars, demuxVars, routerVars, clientVars
<1>1. CASE Send(r)
  BY <1>1, NumberedSend
<1>2. ASSUME UNCHANGED <<events, local, handled, sent>>, NEW m, Put(Of[r], m),
             \A q \in Routes : ~IsData(m, q)
      PROVE  Numbered'
  BY <1>2, NumberedPut
<1>3. CASE Drop(r)
  BY <1>2, <1>3, EventKinds DEF Drop
<1>4. CASE Lend(r)
  BY <1>2, <1>4, EventKinds DEF Lend
<1>5. CASE Borrow(r)
  BY <1>2, <1>5, EventKinds DEF Borrow
<1>6. CASE Lose(r)
  BY <1>6, NumberedKept DEF Lose
<1>7. CASE Return(r)
  BY <1>2, <1>7, EventKinds DEF Return
<1>8. QED
  BY <1>1, <1>3, <1>4, <1>5, <1>6, <1>7

LEMMA NumberedRun ==
  ASSUME InPlaceInv, EventsHandled, Running', Orderly, Numbered, Run
  PROVE  Numbered'
<1> USE DEF proxyVars, demuxVars, routerVars, clientVars
<1>0. /\ events \in Seq(Events) /\ local \in Seq(Events) /\ EventsLeft
      /\ ipc \in [IpcChannels -> Seq(Messages \cup {Wakeup})]
      /\ \A k \in Channels : k \in IpcChannels /\ k # WakeupChannel /\ ipc[k] \in Seq(Messages)
      /\ \A r \in Routes : Of[r] \in Channels
      /\ handled \in [Routes -> Nat] /\ sent \in [Routes -> Nat]
  BY ChannelTyped, RouterAssumption DEF InPlaceInv, TypeOK
<1>1. \A r \in Routes : NumberedIn(r, events, local, ipc[Of[r]], handled[r], sent[r])
  BY DEF Numbered
<1>2. SUFFICES ASSUME NEW r \in Routes
               PROVE  NumberedIn(r, events', local', ipc'[Of[r]], handled'[r], sent'[r])
  BY DEF Numbered
<1>3. CASE EndBatch \/ TimeOut
  BY <1>1, <1>3 DEF EndBatch, TimeOut
<1>4. CASE Select
  <2>1. events = <<>> /\ events' = local /\ local' = <<>> /\ UNCHANGED <<ipc, handled, sent>>
    BY <1>4 DEF Select, EventsHandled
  <2>2. NumberedIn(r, <<>>, local, ipc[Of[r]], handled[r], sent[r])
    BY <1>1, <2>1
  <2>3. NumberedIn(r, local, <<>>, ipc[Of[r]], handled[r], sent[r])
    BY <2>2, NumberedSelected
  <2>4. QED
    BY <2>1, <2>3
<1>5. ASSUME NEW e, ~IsData(e, r), local' = Append(local, e), UNCHANGED <<events, handled, sent>>,
             ipc'[Of[r]] = ipc[Of[r]]
      PROVE  NumberedIn(r, events', local', ipc'[Of[r]], handled'[r], sent'[r])
  <2>1. /\ NumbersOf(r, Append(local, e)) = NumbersOf(r, local)
        /\ Increasing(r, local) => Increasing(r, Append(local, e))
    BY <1>0, <1>5, NumberedOthers
  <2>2. NumberedIn(r, events, Append(local, e), ipc[Of[r]], handled[r], sent[r])
    BY <1>1, <2>1, NumberedSame
  <2>3. QED
    BY <1>5, <2>2
<1>6. CASE Receive(WakeupChannel)
  <2>1. /\ local' = Append(local, Wakeup) /\ UNCHANGED <<events, handled, sent>>
        /\ ipc'[Of[r]] = ipc[Of[r]]
    BY <1>0, <1>6 DEF Receive
  <2>2. QED
    BY <1>5, <2>1, EventKinds
<1>7. ASSUME NEW k \in Channels, Receive(k)
      PROVE  NumberedIn(r, events', local', ipc'[Of[r]], handled'[r], sent'[r])
  <2>1. UNCHANGED <<events, handled, sent>>
    BY <1>7 DEF Receive
  <2>2. PICK m \in Messages :
          /\ ipc[k] # <<>> /\ m = Head(ipc[k]) /\ Of[m.route] = k
          /\ ipc' = [ipc EXCEPT ![k] = Tail(ipc[k])]
          /\ \/ m.type = "Data" /\ local' = Append(local, m)
             \/ m.type # "Data" /\ local' = local
             \/ m.type # "Data" /\ local' = Append(local, Closed(m.route))
    BY <1>7, Demultiplexed
  <2>3. PICK c \in Seq(Messages) : c = ipc[Of[r]]
    BY <1>0
  <2>4. NumberedIn(r, events, local, c, handled[r], sent[r])
    BY <1>1, <2>3
  <2>5. CASE IsData(m, r)
    <3>1. Of[r] = k /\ c # <<>> /\ m = Head(c) /\ ipc'[Of[r]] = Tail(c)
      BY <1>0, <2>2, <2>3, <2>5 DEF IsData
    <3>2. NumberedIn(r, events, Append(local, Head(c)), Tail(c), handled[r], sent[r])
      BY <1>0, <2>4, <2>5, <3>1, NumberedReceived
    <3>3. local' = Append(local, m)
      BY <2>2, <2>5 DEF IsData
    <3>4. QED
      BY <2>1, <3>1, <3>2, <3>3
  <2>6. CASE ~IsData(m, r)
    <3>1. PICK d : d = ipc'[Of[r]]
      OBVIOUS
    <3>2. NumbersOf(r, d) = NumbersOf(r, c) /\ (Increasing(r, c) => Increasing(r, d))
      <4>1. CASE Of[r] = k
        <5>1. c # <<>> /\ m = Head(c) /\ d = Tail(c)
          BY <1>0, <2>2, <2>3, <3>1, <4>1
        <5>2. QED
          BY <2>6, <5>1, NumberedTaken
      <4>2. CASE Of[r] # k
        BY <1>0, <2>2, <2>3, <3>1, <4>2
      <4>3. QED
        BY <4>1, <4>2
    <3>3. PICK l : l = local'
      OBVIOUS
    <3>4. NumbersOf(r, l) = NumbersOf(r, local) /\ (Increasing(r, local) => Increasing(r, l))
      <4>1. l = local \/ \E e : ~IsData(e, r) /\ l = Append(local, e)
        BY <2>2, <2>6, <3>3, EventKinds
      <4>2. CASE \E e : ~IsData(e, r) /\ l = Append(local, e)
        <5>1. PICK e : ~IsData(e, r) /\ l = Append(local, e)
          BY <4>2
        <5>2. QED
          BY <1>0, <5>1, NumberedOthers
      <4>3. QED
        BY <4>1, <4>2
    <3>5. NumberedIn(r, events, l, d, handled[r], sent[r])
      BY <2>4, <3>2, <3>4, NumberedSame
    <3>6. QED
      BY <2>1, <3>1, <3>3, <3>5
  <2>7. QED
    BY <2>5, <2>6
<1>8. CASE Poll
  <2>1. UNCHANGED <<events, ipc, handled, sent>>
    BY <1>8 DEF Poll
  <2>2. PICK p \in Seq(Events) :
          local' = local \o p /\ \A i \in DOMAIN p : \E q \in Routes : p[i] = Closed(q)
    BY <1>8, PolledClosed DEF InPlaceInv
  <2>3. DataOf(r, p) = {}
    BY <2>2 DEF DataOf, Closed
  <2>4. /\ NumbersOf(r, local \o p) = NumbersOf(r, local)
        /\ Increasing(r, local) => Increasing(r, local \o p)
    BY <1>0, <2>3, ConcatData
  <2>5. NumberedIn(r, events, local \o p, ipc[Of[r]], handled[r], sent[r])
    BY <1>1, <2>4, NumberedSame
  <2>6. QED
    BY <2>1, <2>2, <2>5
<1>9. ASSUME router = "events", NextEvent, ~IsData(Head(events), r), handled'[r] = handled[r],
             UNCHANGED <<local, ipc, sent>>
      PROVE  NumberedIn(r, events', local', ipc'[Of[r]], handled'[r], sent'[r])
  <2>1. events # <<>> /\ events' = Tail(events)
    BY <1>0, <1>9 DEF EventsLeft, NextEvent
  <2>2. /\ NumbersOf(r, Tail(events)) = NumbersOf(r, events)
        /\ Increasing(r, events) => Increasing(r, Tail(events))
    BY <1>0, <1>9, <2>1, NumberedTaken
  <2>3. NumberedIn(r, Tail(events), local, ipc[Of[r]], handled[r], sent[r])
    BY <1>1, <2>2, NumberedSame
  <2>4. QED
    BY <1>9, <2>1, <2>3
<1>10. CASE HandleAddRoute
  BY <1>9, <1>10, EventKinds DEF HandleAddRoute
<1>11. CASE HandleClosed
  BY <1>9, <1>11 DEF HandleClosed, IsData
<1>12. CASE HandleMessage
  <2>1. /\ router = "events" /\ events # <<>> /\ Head(events).type = "Data" /\ NextEvent
        /\ events' = Tail(events) /\ UNCHANGED <<local, ipc, sent>>
        /\ handled' = IF Head(events).route \in handlers
                      THEN [handled EXCEPT ![Head(events).route] = Head(events).number]
                      ELSE handled
    BY <1>0, <1>12 DEF HandleMessage, EventsLeft, NextEvent
  <2>2. CASE Head(events).route # r
    <3>1. handled'[r] = handled[r] /\ ~IsData(Head(events), r)
      BY <1>0, <2>1, <2>2 DEF IsData
    <3>2. QED
      BY <1>9, <2>1, <3>1
  <2>3. CASE Head(events).route = r
    <3>1. IsData(Head(events), r)
      BY <2>1, <2>3 DEF IsData
    <3>2. NumberedIn(r, Tail(events), local, ipc[Of[r]], Head(events).number, sent[r])
      BY <1>0, <1>1, <2>1, <3>1, NumberedHandled
    <3>3. r \in handlers
      <4>1. OrderlyIn(r, events, local, acks, switched, sm[r].maybe, handlers)
        BY DEF Orderly
      <4>2. DataOf(r, events) # {} /\ (ClosedBehind(r, events) => Has(events, Closed(r)))
        BY <1>0, <2>1, <3>1, TakenData
      <4>3. QED
        BY <4>1, <4>2 DEF OrderlyIn, ClosedLastIn
    <3>4. handled'[r] = Head(events).number
      BY <1>0, <2>1, <2>3, <3>3
    <3>5. QED
      BY <2>1, <3>2, <3>4
  <2>4. QED
    BY <2>2, <2>3
<1>13. ASSUME HandleShutdown \/ DropQueue \/ DropSubReceiverSet PROVE FALSE
  BY <1>13 DEF HandleShutdown, DropQueue, DropSubReceiverSet, Running
<1>14. QED
  BY <1>3, <1>4, <1>6, <1>7, <1>8, <1>10, <1>11, <1>12, <1>13 DEF Run, IpcChannels

LEMMA NumberedStep ==
  ASSUME InPlaceInv, EventsHandled, Running', Orderly, Numbered, [Next]_vars
  PROVE  Numbered'
<1> USE DEF proxyVars, demuxVars, routerVars, clientVars
<1>1. Running
  BY EndIsFinal
<1>2. ASSUME UNCHANGED <<events, local, handled, sent>>, ipc' = ipc \/ Put(WakeupChannel, Wakeup)
      PROVE  Numbered'
  <2>1. \A r \in Routes : ipc'[Of[r]] = ipc[Of[r]]
    <3>1. \A r \in Routes : Of[r] # WakeupChannel /\ Of[r] \in IpcChannels
      BY ChannelTyped, RouterAssumption
    <3>2. ipc \in [IpcChannels -> Seq(Messages \cup {Wakeup})]
      BY DEF InPlaceInv, TypeOK
    <3>3. QED
      BY <1>2, <3>1, <3>2 DEF Put
  <2>2. QED
    BY <1>2, <2>1, NumberedKept
<1>3. ASSUME NEW r \in Routes, SubChannel(r) \/ AddRoute(r) PROVE Numbered'
  <2>1. ~Fail(r)
    BY <1>1 DEF Fail, InPlaceInv, CallsAnswered
  <2>2. QED
    BY <1>2, <1>3, <2>1 DEF SubChannel, AddRoute, SendRoute, SendWakeup, AwaitAck
<1>4. CASE Shutdown \/ Stop \/ OwnerLeaves \/ UNCHANGED vars
  BY <1>2, <1>4 DEF Shutdown, Stop, SendShutdown, Join, OwnerLeaves, vars
<1>5. QED
  BY <1>1, <1>3, <1>4, NumberedClient, NumberedRun DEF Next

LEMMA DeliveryInvInit == Init => DeliveryInv
<1>1. ASSUME Init PROVE DeliveryInv
  <2>1. /\ events = <<>> /\ local = <<>> /\ msgs = <<>> /\ acks = {} /\ switched = {}
        /\ \A r \in Routes : ipc[Of[r]] = <<>> /\ handled[r] = 0 /\ sent[r] = 0
    BY <1>1, ChannelTyped DEF Init
  <2>2. RoutesQueued
    BY <2>1 DEF RoutesQueued
  <2>3. Orderly
    <3>1. ASSUME NEW r \in Routes
          PROVE  OrderlyIn(r, <<>>, <<>>, {}, {}, sm[r].maybe, handlers)
      BY EmptyHas, ClosedLastNothing DEF OrderlyIn
    <3>2. QED
      BY <2>1, <3>1 DEF Orderly
  <2>4. Numbered
    <3>1. ASSUME NEW r PROVE NumberedIn(r, <<>>, <<>>, <<>>, 0, 0)
      BY EmptyHas DEF NumberedIn, Below
    <3>2. QED
      BY <2>1, <3>1 DEF Numbered
  <2>5. QED
    BY <2>2, <2>3, <2>4 DEF DeliveryInv
<1>2. QED
  BY <1>1

LEMMA DeliveryInvStep ==
  ASSUME InPlaceInv, WakeupInv, DeliveryInv, [Next]_vars
  PROVE  DeliveryInv'
<1>1. SUFFICES ASSUME Running' PROVE RoutesQueued' /\ Orderly' /\ Numbered'
  BY DEF DeliveryInv
<1>2. Running
  BY <1>1, EndIsFinal
<1>3. EventsHandled /\ RoutesQueued /\ Orderly /\ Numbered
  BY <1>2 DEF WakeupInv, DeliveryInv
<1>4. QED
  BY <1>1, <1>3, RoutesQueuedStep, OrderlyStep, NumberedStep

LEMMA DeliveryAlways == Spec => []DeliveryInv
<1>1. InPlaceInv /\ WakeupInv /\ DeliveryInv /\ [Next]_vars => WakeupInv' /\ DeliveryInv'
  BY WakeupInvStep, DeliveryInvStep
<1>2. QED
  BY <1>1, WakeupInvInit, DeliveryInvInit, InPlaceAlways, PTL DEF Spec

\* Messages in one queue after the other.
LEMMA ConcatNumbered ==
  ASSUME NEW r, NEW S, NEW q \in Seq(S), NEW p \in Seq(S)
  PROVE  /\ NumbersOf(r, q \o p) = NumbersOf(r, q) \cup NumbersOf(r, p)
         /\ Increasing(r, q) /\ Increasing(r, p) /\ Below(NumbersOf(r, q), NumbersOf(r, p))
              => Increasing(r, q \o p)
<1>1. PICK s : s = q \o p
  OBVIOUS
<1>2. PICK n \in Nat, m \in Nat : n = Len(q) /\ m = Len(p)
  BY ConcatIndexed
<1>3. /\ DOMAIN q = 1 .. n /\ DOMAIN p = 1 .. m /\ DOMAIN s = 1 .. n + m
      /\ \A i \in DOMAIN q : s[i] = q[i]
      /\ \A i \in DOMAIN p : s[n + i] = p[i]
  BY <1>1, <1>2, ConcatIndexed
<1>4. /\ \A i \in DOMAIN q : i \in DOMAIN s
      /\ \A i \in DOMAIN p : n + i \in DOMAIN s
      /\ \A i \in DOMAIN s : i \notin DOMAIN q => i - n \in DOMAIN p /\ n + (i - n) = i
  BY <1>3
<1>5. /\ \A i \in DataOf(r, q) : i \in DataOf(r, s) /\ s[i] = q[i]
      /\ \A i \in DataOf(r, p) : n + i \in DataOf(r, s) /\ s[n + i] = p[i]
  BY <1>3, <1>4 DEF DataOf
<1>6. \A i \in DataOf(r, s) : \/ i \in DataOf(r, q)
                              \/ i \notin DOMAIN q /\ i - n \in DataOf(r, p) /\ s[i] = p[i - n]
  <2>1. \A i \in DOMAIN s : i \notin DOMAIN q => s[i] = p[i - n]
    BY <1>3, <1>4
  <2>2. QED
    BY <1>3, <1>4, <2>1 DEF DataOf
<1>7. NumbersOf(r, s) = NumbersOf(r, q) \cup NumbersOf(r, p)
  <2>1. \A x \in NumbersOf(r, s) : x \in NumbersOf(r, q) \/ x \in NumbersOf(r, p)
    BY <1>5, <1>6 DEF NumbersOf
  <2>2. \A x \in NumbersOf(r, q) : x \in NumbersOf(r, s)
    BY <1>5 DEF NumbersOf
  <2>3. \A x \in NumbersOf(r, p) : x \in NumbersOf(r, s)
    BY <1>5 DEF NumbersOf
  <2>4. QED
    BY <2>1, <2>2, <2>3
<1>8. ASSUME Increasing(r, q), Increasing(r, p), Below(NumbersOf(r, q), NumbersOf(r, p))
      PROVE  Increasing(r, s)
  <2>1. SUFFICES ASSUME NEW i \in DataOf(r, s), NEW j \in DataOf(r, s), i < j
                 PROVE  s[i].number < s[j].number
    BY DEF Increasing
  <2>2. i \in 1 .. n + m /\ j \in 1 .. n + m
    BY <1>3 DEF DataOf
  <2>3. CASE i \in DataOf(r, q) /\ j \in DataOf(r, q)
    BY <1>5, <1>8, <2>1, <2>3 DEF Increasing
  <2>4. CASE i \in DataOf(r, q) /\ j - n \in DataOf(r, p) /\ s[j] = p[j - n]
    BY <1>5, <1>8, <2>4 DEF NumbersOf, Below
  <2>5. CASE /\ i - n \in DataOf(r, p) /\ s[i] = p[i - n]
             /\ j - n \in DataOf(r, p) /\ s[j] = p[j - n]
    <3>1. i - n < j - n
      BY <1>2, <2>1, <2>2
    <3>2. QED
      BY <1>8, <2>5, <3>1 DEF Increasing
  <2>6. ~(i \notin DOMAIN q /\ j \in DataOf(r, q))
    BY <1>3, <2>1, <2>2 DEF DataOf
  <2>7. QED
    BY <1>6, <2>3, <2>4, <2>5, <2>6
<1>9. QED
  BY <1>1, <1>7, <1>8

\* While the router runs, what has been sent on a route and not handled is on its way
\* to the handler, each message once and in the order sent, for any number of routes on
\* any RouterChannels, with copies of the subsenders that others receive, lose, drop
\* or take with them (EveryMessageHandledInOrder in Router).
THEOREM MessagesInOrder == Spec => []EveryMessageHandledInOrder
<1>1. ASSUME InPlaceInv, DeliveryInv PROVE EveryMessageHandledInOrder
  <2>1. SUFFICES ASSUME Running, NEW r \in Routes, NEW q, q = events \o local \o ipc[Of[r]]
                 PROVE  /\ handled[r] <= sent[r]
                        /\ {q[i].number : i \in DataOf(r, q)} = handled[r] + 1 .. sent[r]
                        /\ \A i, j \in DataOf(r, q) : i < j => q[i].number < q[j].number
    BY DEF EveryMessageHandledInOrder
  <2>2. NumberedIn(r, events, local, ipc[Of[r]], handled[r], sent[r])
    BY <1>1, <2>1 DEF DeliveryInv, Numbered
  <2>3. PICK S : S = Events \cup Messages
    OBVIOUS
  <2>4. PICK c \in Seq(S) : c = ipc[Of[r]]
    <3>1. ipc[Of[r]] \in Seq(Messages)
      BY <1>1, ChannelTyped DEF InPlaceInv, TypeOK
    <3>2. QED
      BY <2>3, <3>1
  <2>5. events \in Seq(S) /\ local \in Seq(S)
    <3>1. events \in Seq(Events) /\ local \in Seq(Events)
      BY <1>1 DEF InPlaceInv, TypeOK
    <3>2. QED
      BY <2>3, <3>1
  <2>6. PICK p \in Seq(S) : p = events \o local
    BY <2>5, ConcatIndexed
  <2>7. /\ NumbersOf(r, p) = NumbersOf(r, events) \cup NumbersOf(r, local)
        /\ Increasing(r, p)
    BY <2>2, <2>5, <2>6, ConcatNumbered DEF NumberedIn
  <2>8. Below(NumbersOf(r, p), NumbersOf(r, c))
    BY <2>2, <2>4, <2>7 DEF NumberedIn, Below
  <2>9. NumbersOf(r, q) = NumbersOf(r, p) \cup NumbersOf(r, c) /\ Increasing(r, q)
    <3>1. Increasing(r, c)
      BY <2>2, <2>4 DEF NumberedIn
    <3>2. q = p \o c
      BY <2>1, <2>4, <2>6
    <3>3. /\ NumbersOf(r, p \o c) = NumbersOf(r, p) \cup NumbersOf(r, c)
          /\ Increasing(r, p) /\ Increasing(r, c) /\ Below(NumbersOf(r, p), NumbersOf(r, c))
               => Increasing(r, p \o c)
      BY ConcatNumbered
    <3>4. QED
      BY <2>7, <2>8, <3>1, <3>2, <3>3
  <2>10. handled[r] <= sent[r] /\ NumbersOf(r, q) = handled[r] + 1 .. sent[r]
    BY <2>2, <2>4, <2>7, <2>9 DEF NumberedIn
  <2>11. QED
    BY <2>9, <2>10 DEF NumbersOf, Increasing
<1>2. QED
  BY <1>1, InPlaceAlways, DeliveryAlways, PTL

-----------------------------------------------------------------------------
(* Who has a subsender of a route: what its state machine knows of it, if  *)
(* no process exits with a copy.                                           *)

Before(q, m, n) == \A i, j \in DOMAIN q : q[i] = m /\ q[j] = n => i < j

Behind(q, i, m) == \E j \in DOMAIN q : i < j /\ q[j] = m

\* The callers who have a subsender, or have not created it yet.
Keepers == {r \in Routes : at[r] = "none"} \cup tx

\* The reports of r on their way, in c, are in the order of what they report.
ReportsInOrder(r, c) ==
  /\ \A m \in {Sending(r), Received(r), Disconnect(r, Origin), Disconnect(r, Remote)} : Once(c, m)
  /\ Before(c, Sending(r), Received(r)) /\ Before(c, Received(r), Disconnect(r, Remote))

\* The caller's subsender is there for the state machine x till its drop is known.
OriginTracked(r, c, K, x) ==
  /\ Origin \in x.sources <=> r \in K \/ Has(c, Disconnect(r, Origin))
  /\ r \in K => ~Has(c, Disconnect(r, Origin))

\* So is the copy: before it is known to be sent as a caller's subsender, then in
\* flight, then at a source.
CopyTracked(fate, sending, received, dropped, holding, inFlight) ==
  /\ fate \in {"none", "sent", "lost", "held", "dropped"}
  /\ inFlight \in {0, 1} /\ (sending => inFlight = 0)
  /\ fate = "none" => ~sending /\ inFlight = 0
  /\ fate = "sent" => sending \/ inFlight = 1
  /\ fate \in {"none", "sent", "lost"} => ~received /\ ~dropped /\ ~holding
  /\ fate \in {"held", "dropped"} =>
       /\ sending => received
       /\ inFlight = 1 <=> received /\ ~sending
       /\ holding <=> ~received /\ (fate = "held" \/ dropped)
       /\ received /\ fate = "dropped" => dropped
  /\ fate = "held" => ~dropped

\* Whoever sends a copy, or a message, has a subsender, or drops it only later.
Covered(r, c, K, fate) ==
  /\ \A i \in DOMAIN c : c[i] = Sending(r) => r \in K \/ Behind(c, i, Disconnect(r, Origin))
  /\ \A i \in DataOf(r, c) : \/ r \in K \/ Behind(c, i, Disconnect(r, Origin))
                             \/ fate = "held" \/ Behind(c, i, Disconnect(r, Remote))

\* The sender has been taken only if nothing is known of any subsender.
TakenWhenVacant(x) == ~x.maybe => x.sources = {} /\ x.inFlight[Via] = 0

TrackedIn(r, c, K, fate, x) ==
  /\ ReportsInOrder(r, c)
  /\ OriginTracked(r, c, K, x)
  /\ CopyTracked(fate, Has(c, Sending(r)), Has(c, Received(r)), Has(c, Disconnect(r, Remote)),
                 Remote \in x.sources, x.inFlight[Via])
  /\ Covered(r, c, K, fate)
  /\ TakenWhenVacant(x)

Tracked == \A r \in Routes : TrackedIn(r, ipc[Of[r]], Keepers, copy[r], sm[r])

\* select finds an id for what the local queue holds ...
IdsThere == \A r \in acks : sm[r].maybe \/ Has(local, Closed(r)) => r \in ids

\* ... and a shutdown in the message queue comes from its caller.
ShutdownAsked == \A i \in DOMAIN msgs : msgs[i] = Stopper => stop # "no"

EndInv == EndsForAReason /\ (Running => Tracked /\ IdsThere /\ ShutdownAsked)

LEMMA AppendedOrder ==
  ASSUME NEW S, NEW q \in Seq(S), NEW m
  PROVE  /\ \A x, y : Before(q, x, y) /\ x # y /\ (m = x => ~Has(q, y)) => Before(Append(q, m), x, y)
         /\ \A i, x : Behind(q, i, x) => Behind(Append(q, m), i, x)
         /\ \A i \in DOMAIN q : Behind(Append(q, m), i, m) /\ Append(q, m)[i] = q[i]
         /\ \A i \in DOMAIN Append(q, m) : i \in DOMAIN q \/ Append(q, m)[i] = m
<1>1. PICK p : p = Append(q, m)
  OBVIOUS
<1>2. PICK n \in Nat : n = Len(q)
  BY AppendIndexed
<1>3. /\ DOMAIN q = 1 .. n /\ DOMAIN p = 1 .. n + 1
      /\ \A i \in DOMAIN q : p[i] = q[i]
      /\ p[n + 1] = m
  BY <1>1, <1>2, AppendIndexed
<1>4. /\ \A i : i \in DOMAIN p <=> i \in DOMAIN q \/ i = n + 1
      /\ \A i \in DOMAIN q : i < n + 1
  BY <1>3
<1>5. ASSUME NEW x, NEW y, Before(q, x, y), x # y, m = x => ~Has(q, y)
      PROVE  Before(p, x, y)
  <2>1. SUFFICES ASSUME NEW i \in DOMAIN p, NEW j \in DOMAIN p, p[i] = x, p[j] = y
                 PROVE  i < j
    BY DEF Before
  <2>2. CASE i \in DOMAIN q /\ j \in DOMAIN q
    BY <1>3, <1>5, <2>1, <2>2 DEF Before
  <2>3. CASE i = n + 1 /\ j \in DOMAIN q
    BY <1>3, <1>5, <2>1, <2>3 DEF Has
  <2>4. CASE i \in DOMAIN q /\ j = n + 1
    BY <1>4, <2>4
  <2>5. QED
    BY <1>3, <1>4, <1>5, <2>1, <2>2, <2>3, <2>4
<1>6. \A i, x : Behind(q, i, x) => Behind(p, i, x)
  BY <1>3, <1>4 DEF Behind
<1>7. \A i \in DOMAIN q : Behind(p, i, m) /\ p[i] = q[i]
  BY <1>3, <1>4 DEF Behind
<1>8. \A i \in DOMAIN p : i \in DOMAIN q \/ p[i] = m
  BY <1>3, <1>4
<1>9. QED
  BY <1>1, <1>5, <1>6, <1>7, <1>8

LEMMA TakenOrder ==
  ASSUME NEW S, NEW q \in Seq(S), q # <<>>
  PROVE  /\ \A x, y : Before(q, x, y) =>
              Before(Tail(q), x, y) /\ (Head(q) = y => ~Has(Tail(q), x))
         /\ \A i \in DOMAIN Tail(q) : /\ i + 1 \in DOMAIN q /\ Tail(q)[i] = q[i + 1]
                                      /\ \A x : Behind(q, i + 1, x) => Behind(Tail(q), i, x)
         /\ \A x : Behind(q, 1, x) => Has(Tail(q), x)
         /\ 1 \in DOMAIN q /\ Head(q) = q[1]
<1>1. PICK p \in Seq(S) : p = Tail(q)
  BY TailIndexed
<1>2. PICK n \in Nat : n = Len(q) /\ n > 0
  BY TailIndexed
<1>3. /\ DOMAIN q = 1 .. n /\ DOMAIN p = 1 .. n - 1
      /\ \A i \in DOMAIN p : p[i] = q[i + 1]
      /\ Head(q) = q[1]
  BY <1>1, <1>2, TailIndexed
<1>4. /\ \A i \in DOMAIN p : i \in Nat /\ i + 1 \in DOMAIN q /\ 1 < i + 1
      /\ \A i \in DOMAIN q : i # 1 => i - 1 \in DOMAIN p /\ (i - 1) + 1 = i
      /\ 1 \in DOMAIN q
  BY <1>2, <1>3
<1>5. \A i \in DOMAIN q : i # 1 => p[i - 1] = q[i]
  BY <1>3, <1>4
<1>6. ASSUME NEW x, NEW y, Before(q, x, y)
      PROVE  Before(p, x, y) /\ (Head(q) = y => ~Has(p, x))
  <2>1. Before(p, x, y)
    <3>1. SUFFICES ASSUME NEW i \in DOMAIN p, NEW j \in DOMAIN p, p[i] = x, p[j] = y
                   PROVE  i < j
      BY DEF Before
    <3>2. i + 1 < j + 1
      BY <1>3, <1>4, <1>6, <3>1 DEF Before
    <3>3. QED
      BY <1>4, <3>2
  <2>2. ASSUME Head(q) = y, NEW i \in DOMAIN p, p[i] = x PROVE FALSE
    <3>1. i + 1 < 1
      BY <1>3, <1>4, <1>6, <2>2 DEF Before
    <3>2. QED
      BY <1>4, <2>2, <3>1
  <2>3. QED
    BY <2>1, <2>2 DEF Has
<1>7. ASSUME NEW i \in DOMAIN p, NEW x, Behind(q, i + 1, x) PROVE Behind(p, i, x)
  <2>1. PICK j \in DOMAIN q : i + 1 < j /\ q[j] = x
    BY <1>7 DEF Behind
  <2>2. j - 1 \in DOMAIN p /\ i < j - 1 /\ p[j - 1] = x
    <3>1. j # 1 /\ i \in Nat /\ j \in Nat
      BY <1>3, <1>4, <1>7, <2>1
    <3>2. QED
      BY <1>4, <1>5, <2>1, <3>1
  <2>3. QED
    BY <2>2 DEF Behind
<1>8. \A x : Behind(q, 1, x) => Has(p, x)
  <2>1. \A j \in DOMAIN q : 1 < j => j # 1
    OBVIOUS
  <2>2. QED
    BY <1>4, <1>5, <2>1 DEF Behind, Has
<1>9. QED
  BY <1>1, <1>3, <1>4, <1>6, <1>7, <1>8

\* The reports differ, and so do those of different routes.
LEMMA ReportKinds ==
  /\ \A r : /\ Sending(r) # Received(r) /\ Sending(r) # Disconnect(r, Origin)
            /\ Sending(r) # Disconnect(r, Remote) /\ Received(r) # Disconnect(r, Origin)
            /\ Received(r) # Disconnect(r, Remote)
            /\ Disconnect(r, Origin) # Disconnect(r, Remote)
  /\ \A r, n : /\ Data(r, n) # Sending(r) /\ Data(r, n) # Received(r)
               /\ Data(r, n) # Disconnect(r, Origin) /\ Data(r, n) # Disconnect(r, Remote)
  /\ \A r : /\ Sending(r).route = r /\ Received(r).route = r
            /\ Disconnect(r, Origin).route = r /\ Disconnect(r, Remote).route = r
  /\ \A r, n : Data(r, n).route = r
BY RouterAssumption DEF Sending, Received, Disconnect, Data

LEMMA MessageKinds ==
  ASSUME NEW m \in Messages
  PROVE  \/ IsData(m, m.route) \/ m = Sending(m.route) \/ m = Received(m.route)
         \/ m = Disconnect(m.route, Origin) \/ m = Disconnect(m.route, Remote)
BY DEF Messages, IsData, Sending, Received, Disconnect

LEMMA OrderAppended ==
  ASSUME NEW r, NEW S, NEW c \in Seq(S), ReportsInOrder(r, c), NEW m,
         \A k \in {Sending(r), Received(r), Disconnect(r, Origin), Disconnect(r, Remote)} :
           m = k => ~Has(c, k),
         m = Sending(r) => ~Has(c, Received(r)),
         m = Received(r) => ~Has(c, Disconnect(r, Remote))
  PROVE  ReportsInOrder(r, Append(c, m))
<1>1. \A k \in {Sending(r), Received(r), Disconnect(r, Origin), Disconnect(r, Remote)} :
        Once(Append(c, m), k)
  BY AppendedHas DEF ReportsInOrder
<1>2. Before(Append(c, m), Sending(r), Received(r))
  BY AppendedOrder, ReportKinds DEF ReportsInOrder
<1>3. Before(Append(c, m), Received(r), Disconnect(r, Remote))
  BY AppendedOrder, ReportKinds DEF ReportsInOrder
<1>4. QED
  BY <1>1, <1>2, <1>3 DEF ReportsInOrder

LEMMA CoveredAppended ==
  ASSUME NEW r, NEW S, NEW c \in Seq(S), NEW K, NEW fate, Covered(r, c, K, fate),
         NEW m, NEW L, NEW later,
         r \in K /\ r \notin L => m = Disconnect(r, Origin),
         fate = "held" /\ later # "held" => m = Disconnect(r, Remote),
         m = Sending(r) => r \in L, IsData(m, r) => r \in L \/ later = "held"
  PROVE  Covered(r, Append(c, m), L, later)
<1>1. PICK p : p = Append(c, m)
  OBVIOUS
<1>2. /\ \A i, x : Behind(c, i, x) => Behind(p, i, x)
      /\ \A i \in DOMAIN c : Behind(p, i, m) /\ p[i] = c[i]
      /\ \A i \in DOMAIN p : i \in DOMAIN c \/ p[i] = m
  BY <1>1, AppendedOrder
<1>3. ASSUME NEW i \in DOMAIN p, p[i] = Sending(r)
      PROVE  r \in L \/ Behind(p, i, Disconnect(r, Origin))
  <2>1. CASE i \in DOMAIN c
    <3>1. r \in K \/ Behind(c, i, Disconnect(r, Origin))
      BY <1>2, <1>3, <2>1 DEF Covered
    <3>2. QED
      BY <1>2, <2>1, <3>1
  <2>2. QED
    BY <1>2, <1>3, <2>1
<1>4. ASSUME NEW i \in DataOf(r, p)
      PROVE  \/ r \in L \/ Behind(p, i, Disconnect(r, Origin))
             \/ later = "held" \/ Behind(p, i, Disconnect(r, Remote))
  <2>0. i \in DOMAIN p /\ IsData(p[i], r)
    BY <1>4 DEF DataOf, IsData
  <2>1. CASE i \in DOMAIN c
    <3>1. i \in DataOf(r, c)
      BY <1>2, <2>0, <2>1 DEF DataOf, IsData
    <3>2. \/ r \in K \/ Behind(c, i, Disconnect(r, Origin))
          \/ fate = "held" \/ Behind(c, i, Disconnect(r, Remote))
      BY <3>1 DEF Covered
    <3>3. QED
      BY <1>2, <2>1, <3>2
  <2>2. QED
    BY <1>2, <2>0, <2>1
<1>5. QED
  BY <1>1, <1>3, <1>4 DEF Covered

LEMMA OrderTaken ==
  ASSUME NEW r, NEW S, NEW c \in Seq(S), c # <<>>, ReportsInOrder(r, c)
  PROVE  /\ ReportsInOrder(r, Tail(c))
         /\ Head(c) = Received(r) => ~Has(Tail(c), Sending(r))
         /\ Head(c) = Disconnect(r, Remote) => ~Has(Tail(c), Received(r))
BY TakenHas, TakenOrder DEF ReportsInOrder

LEMMA CoveredTaken ==
  ASSUME NEW r, NEW S, NEW c \in Seq(S), c # <<>>, NEW K, NEW fate, Covered(r, c, K, fate)
  PROVE  /\ Covered(r, Tail(c), K, fate)
         /\ Head(c) = Sending(r) => r \in K \/ Has(Tail(c), Disconnect(r, Origin))
         /\ IsData(Head(c), r) => \/ r \in K \/ Has(Tail(c), Disconnect(r, Origin))
                                  \/ fate = "held" \/ Has(Tail(c), Disconnect(r, Remote))
<1>1. PICK p : p = Tail(c)
  OBVIOUS
<1>2. /\ \A i \in DOMAIN p : /\ i + 1 \in DOMAIN c /\ p[i] = c[i + 1]
                             /\ \A x : Behind(c, i + 1, x) => Behind(p, i, x)
      /\ \A x : Behind(c, 1, x) => Has(p, x)
      /\ 1 \in DOMAIN c /\ Head(c) = c[1]
  BY <1>1, TakenOrder
<1>3. ASSUME NEW i \in DOMAIN p, p[i] = Sending(r)
      PROVE  r \in K \/ Behind(p, i, Disconnect(r, Origin))
  BY <1>2, <1>3 DEF Covered
<1>4. ASSUME NEW i \in DataOf(r, p)
      PROVE  \/ r \in K \/ Behind(p, i, Disconnect(r, Origin))
             \/ fate = "held" \/ Behind(p, i, Disconnect(r, Remote))
  <2>1. i \in DOMAIN p /\ i + 1 \in DataOf(r, c)
    BY <1>2, <1>4 DEF DataOf
  <2>2. QED
    BY <1>2, <2>1 DEF Covered
<1>5. Covered(r, p, K, fate)
  BY <1>3, <1>4 DEF Covered
<1>6. Head(c) = Sending(r) => r \in K \/ Has(p, Disconnect(r, Origin))
  BY <1>2 DEF Covered
<1>7. IsData(Head(c), r) => \/ r \in K \/ Has(p, Disconnect(r, Origin))
                            \/ fate = "held" \/ Has(p, Disconnect(r, Remote))
  <2>1. IsData(Head(c), r) => 1 \in DataOf(r, c)
    BY <1>2 DEF DataOf, IsData
  <2>2. QED
    BY <1>2, <2>1 DEF Covered
<1>8. QED
  BY <1>1, <1>5, <1>6, <1>7

\* While there is a subsender, or anything under way for the route, the sender has not
\* been taken.
LEMMA NotTaken ==
  ASSUME NEW r, NEW c \in Seq(Messages), NEW K, NEW fate, NEW x, TrackedIn(r, c, K, fate, x),
         r \in K \/ fate \in {"sent", "held"} \/ \E i \in DOMAIN c : c[i].route = r
  PROVE  x.maybe
<1>1. /\ OriginTracked(r, c, K, x) /\ Covered(r, c, K, fate) /\ TakenWhenVacant(x)
      /\ CopyTracked(fate, Has(c, Sending(r)), Has(c, Received(r)),
                     Has(c, Disconnect(r, Remote)), Remote \in x.sources, x.inFlight[Via])
  BY DEF TrackedIn
<1>2. (r \in K \/ Has(c, Disconnect(r, Origin))) => x.maybe
  BY <1>1 DEF OriginTracked, TakenWhenVacant
<1>3. \A i, m : Behind(c, i, m) => Has(c, m)
  BY DEF Behind, Has
<1>4. Has(c, Sending(r)) => x.maybe
  BY <1>1, <1>2, <1>3 DEF Covered, Has
<1>5. fate = "sent" => x.maybe
  BY <1>1, <1>4 DEF CopyTracked, TakenWhenVacant
<1>6. Has(c, Received(r)) => x.maybe
  BY <1>1, <1>4 DEF CopyTracked, TakenWhenVacant
<1>7. fate = "held" \/ Has(c, Disconnect(r, Remote)) => x.maybe
  BY <1>1, <1>6 DEF CopyTracked, TakenWhenVacant
<1>8. DataOf(r, c) # {} => x.maybe
  BY <1>1, <1>2, <1>3, <1>7 DEF Covered
<1>9. ASSUME NEW i \in DOMAIN c, c[i].route = r PROVE x.maybe
  <2>1. c[i] \in Messages
    OBVIOUS
  <2>2. \/ IsData(c[i], r) \/ c[i] = Sending(r) \/ c[i] = Received(r)
        \/ c[i] = Disconnect(r, Origin) \/ c[i] = Disconnect(r, Remote)
    BY <1>9, <2>1, MessageKinds
  <2>3. IsData(c[i], r) => DataOf(r, c) # {}
    BY DEF IsData, DataOf
  <2>4. QED
    BY <1>2, <1>4, <1>6, <1>7, <1>8, <2>2, <2>3 DEF Has
<1>10. QED
  BY <1>2, <1>5, <1>7, <1>9

-----------------------------------------------------------------------------
(* What is put into the IPC channel is tracked.                            *)

LEMMA TrackedPut ==
  ASSUME NEW r, NEW c \in Seq(Messages), NEW K, NEW fate, NEW x, TrackedIn(r, c, K, fate, x),
         NEW m, NEW L, NEW later,
         \A k \in {Sending(r), Received(r), Disconnect(r, Origin), Disconnect(r, Remote)} :
           m = k => ~Has(c, k),
         m = Sending(r) => ~Has(c, Received(r)),
         m = Received(r) => ~Has(c, Disconnect(r, Remote)),
         r \in K /\ r \notin L => m = Disconnect(r, Origin),
         fate = "held" /\ later # "held" => m = Disconnect(r, Remote),
         m = Sending(r) => r \in L, IsData(m, r) => r \in L \/ later = "held",
         r \in K <=> r \in L \/ m = Disconnect(r, Origin),
         r \in L => m # Disconnect(r, Origin),
         CopyTracked(later, Has(c, Sending(r)) \/ m = Sending(r),
                     Has(c, Received(r)) \/ m = Received(r),
                     Has(c, Disconnect(r, Remote)) \/ m = Disconnect(r, Remote),
                     Remote \in x.sources, x.inFlight[Via])
  PROVE  TrackedIn(r, Append(c, m), L, later, x)
<1>1. PICK p : p = Append(c, m)
  OBVIOUS
<1>2. \A k : Has(p, k) <=> Has(c, k) \/ k = m
  BY <1>1, AppendedHas
<1>3. ReportsInOrder(r, p)
  BY <1>1, OrderAppended DEF TrackedIn
<1>4. Covered(r, p, L, later)
  BY <1>1, CoveredAppended DEF TrackedIn
<1>5. OriginTracked(r, p, L, x)
  BY <1>2 DEF TrackedIn, OriginTracked
<1>6. CopyTracked(later, Has(p, Sending(r)), Has(p, Received(r)), Has(p, Disconnect(r, Remote)),
                  Remote \in x.sources, x.inFlight[Via])
  BY <1>2 DEF CopyTracked
<1>7. QED
  BY <1>1, <1>3, <1>4, <1>5, <1>6 DEF TrackedIn

\* A message of another route.
LEMMA TrackedForeign ==
  ASSUME NEW r, NEW c \in Seq(Messages), NEW K, NEW fate, NEW x, TrackedIn(r, c, K, fate, x),
         NEW m, m.route # r, NEW L, r \in L <=> r \in K
  PROVE  TrackedIn(r, Append(c, m), L, fate, x)
<1>1. /\ m # Sending(r) /\ m # Received(r) /\ m # Disconnect(r, Origin)
      /\ m # Disconnect(r, Remote) /\ ~IsData(m, r)
  BY ReportKinds DEF IsData
<1>2. CopyTracked(fate, Has(c, Sending(r)), Has(c, Received(r)), Has(c, Disconnect(r, Remote)),
                  Remote \in x.sources, x.inFlight[Via])
  BY DEF TrackedIn
<1>3. CopyTracked(fate, Has(c, Sending(r)) \/ m = Sending(r),
                  Has(c, Received(r)) \/ m = Received(r),
                  Has(c, Disconnect(r, Remote)) \/ m = Disconnect(r, Remote),
                  Remote \in x.sources, x.inFlight[Via])
  BY <1>1, <1>2 DEF CopyTracked
<1>4. QED
  BY <1>1, <1>3, TrackedPut

LEMMA TrackedSend ==
  ASSUME NEW r, NEW c \in Seq(Messages), NEW K, NEW fate, NEW x, TrackedIn(r, c, K, fate, x),
         r \in K \/ fate = "held", NEW n
  PROVE  TrackedIn(r, Append(c, Data(r, n)), K, fate, x)
<1>1. PICK m : m = Data(r, n)
  OBVIOUS
<1>2. /\ m # Sending(r) /\ m # Received(r) /\ m # Disconnect(r, Origin)
      /\ m # Disconnect(r, Remote)
  BY <1>1, ReportKinds
<1>3. CopyTracked(fate, Has(c, Sending(r)), Has(c, Received(r)), Has(c, Disconnect(r, Remote)),
                  Remote \in x.sources, x.inFlight[Via])
  BY DEF TrackedIn
<1>4. CopyTracked(fate, Has(c, Sending(r)) \/ m = Sending(r),
                  Has(c, Received(r)) \/ m = Received(r),
                  Has(c, Disconnect(r, Remote)) \/ m = Disconnect(r, Remote),
                  Remote \in x.sources, x.inFlight[Via])
  BY <1>2, <1>3 DEF CopyTracked
<1>5. TrackedIn(r, Append(c, m), K, fate, x)
  BY <1>2, <1>4, TrackedPut
<1>6. QED
  BY <1>1, <1>5

LEMMA TrackedDrop ==
  ASSUME NEW r, NEW c \in Seq(Messages), NEW K, NEW fate, NEW x, TrackedIn(r, c, K, fate, x),
         r \in K, NEW L, r \notin L
  PROVE  TrackedIn(r, Append(c, Disconnect(r, Origin)), L, fate, x)
<1>1. PICK m : m = Disconnect(r, Origin)
  OBVIOUS
<1>2. m # Sending(r) /\ m # Received(r) /\ m # Disconnect(r, Remote) /\ ~IsData(m, r)
  BY <1>1, ReportKinds, EventKinds
<1>3. CopyTracked(fate, Has(c, Sending(r)), Has(c, Received(r)), Has(c, Disconnect(r, Remote)),
                  Remote \in x.sources, x.inFlight[Via])
  BY DEF TrackedIn
<1>4. CopyTracked(fate, Has(c, Sending(r)) \/ m = Sending(r),
                  Has(c, Received(r)) \/ m = Received(r),
                  Has(c, Disconnect(r, Remote)) \/ m = Disconnect(r, Remote),
                  Remote \in x.sources, x.inFlight[Via])
  BY <1>2, <1>3 DEF CopyTracked
<1>5. ~Has(c, Disconnect(r, Origin))
  BY DEF TrackedIn, OriginTracked
<1>6. TrackedIn(r, Append(c, m), L, fate, x)
  BY <1>1, <1>2, <1>4, <1>5, TrackedPut
<1>7. QED
  BY <1>1, <1>6

LEMMA TrackedLend ==
  ASSUME NEW r, NEW c \in Seq(Messages), NEW K, NEW x, TrackedIn(r, c, K, "none", x), r \in K
  PROVE  TrackedIn(r, Append(c, Sending(r)), K, "sent", x)
<1>1. PICK m : m = Sending(r)
  OBVIOUS
<1>2. /\ m # Received(r) /\ m # Disconnect(r, Origin) /\ m # Disconnect(r, Remote)
      /\ ~IsData(m, r)
  BY <1>1, ReportKinds, EventKinds
<1>3. CopyTracked("none", Has(c, Sending(r)), Has(c, Received(r)), Has(c, Disconnect(r, Remote)),
                  Remote \in x.sources, x.inFlight[Via])
  BY DEF TrackedIn
<1>4. CopyTracked("sent", Has(c, Sending(r)) \/ m = Sending(r),
                  Has(c, Received(r)) \/ m = Received(r),
                  Has(c, Disconnect(r, Remote)) \/ m = Disconnect(r, Remote),
                  Remote \in x.sources, x.inFlight[Via])
  BY <1>1, <1>2, <1>3 DEF CopyTracked
<1>5. ~Has(c, Sending(r)) /\ ~Has(c, Received(r))
  BY <1>3 DEF CopyTracked
<1>6. TrackedIn(r, Append(c, m), K, "sent", x)
  BY <1>1, <1>2, <1>4, <1>5, TrackedPut
<1>7. QED
  BY <1>1, <1>6

LEMMA TrackedBorrow ==
  ASSUME NEW r, NEW c \in Seq(Messages), NEW K, NEW x, TrackedIn(r, c, K, "sent", x)
  PROVE  TrackedIn(r, Append(c, Received(r)), K, "held", x)
<1>1. PICK m : m = Received(r)
  OBVIOUS
<1>2. /\ m # Sending(r) /\ m # Disconnect(r, Origin) /\ m # Disconnect(r, Remote)
      /\ ~IsData(m, r)
  BY <1>1, ReportKinds, EventKinds
<1>3. CopyTracked("sent", Has(c, Sending(r)), Has(c, Received(r)), Has(c, Disconnect(r, Remote)),
                  Remote \in x.sources, x.inFlight[Via])
  BY DEF TrackedIn
<1>4. CopyTracked("held", Has(c, Sending(r)) \/ m = Sending(r),
                  Has(c, Received(r)) \/ m = Received(r),
                  Has(c, Disconnect(r, Remote)) \/ m = Disconnect(r, Remote),
                  Remote \in x.sources, x.inFlight[Via])
  BY <1>1, <1>2, <1>3 DEF CopyTracked
<1>5. ~Has(c, Received(r)) /\ ~Has(c, Disconnect(r, Remote))
  BY <1>3 DEF CopyTracked
<1>6. TrackedIn(r, Append(c, m), K, "held", x)
  BY <1>1, <1>2, <1>4, <1>5, TrackedPut
<1>7. QED
  BY <1>1, <1>6

LEMMA TrackedLose ==
  ASSUME NEW r, NEW c, NEW K, NEW x, TrackedIn(r, c, K, "sent", x)
  PROVE  TrackedIn(r, c, K, "lost", x)
<1>1. CopyTracked("sent", Has(c, Sending(r)), Has(c, Received(r)), Has(c, Disconnect(r, Remote)),
                  Remote \in x.sources, x.inFlight[Via])
  BY DEF TrackedIn
<1>2. CopyTracked("lost", Has(c, Sending(r)), Has(c, Received(r)), Has(c, Disconnect(r, Remote)),
                  Remote \in x.sources, x.inFlight[Via])
  BY <1>1 DEF CopyTracked
<1>3. Covered(r, c, K, "lost")
  BY DEF TrackedIn, Covered
<1>4. QED
  BY <1>2, <1>3 DEF TrackedIn

LEMMA TrackedReturn ==
  ASSUME NEW r, NEW c \in Seq(Messages), NEW K, NEW x, TrackedIn(r, c, K, "held", x)
  PROVE  TrackedIn(r, Append(c, Disconnect(r, Remote)), K, "dropped", x)
<1>1. PICK m : m = Disconnect(r, Remote)
  OBVIOUS
<1>2. /\ m # Sending(r) /\ m # Received(r) /\ m # Disconnect(r, Origin) /\ ~IsData(m, r)
  BY <1>1, ReportKinds, EventKinds
<1>3. CopyTracked("held", Has(c, Sending(r)), Has(c, Received(r)), Has(c, Disconnect(r, Remote)),
                  Remote \in x.sources, x.inFlight[Via])
  BY DEF TrackedIn
<1>4. CopyTracked("dropped", Has(c, Sending(r)) \/ m = Sending(r),
                  Has(c, Received(r)) \/ m = Received(r),
                  Has(c, Disconnect(r, Remote)) \/ m = Disconnect(r, Remote),
                  Remote \in x.sources, x.inFlight[Via])
  BY <1>1, <1>2, <1>3 DEF CopyTracked
<1>5. ~Has(c, Disconnect(r, Remote))
  BY <1>3 DEF CopyTracked
<1>6. TrackedIn(r, Append(c, m), K, "dropped", x)
  BY <1>1, <1>2, <1>4, <1>5, TrackedPut
<1>7. QED
  BY <1>1, <1>6

\* Only whether r is in it matters of K.
LEMMA TrackedSame ==
  ASSUME NEW r, NEW c, NEW K, NEW fate, NEW x, TrackedIn(r, c, K, fate, x),
         NEW L, r \in L <=> r \in K, NEW y, y.sources = x.sources,
         y.inFlight[Via] = x.inFlight[Via], TakenWhenVacant(y)
  PROVE  TrackedIn(r, c, L, fate, y)
<1>1. OriginTracked(r, c, L, y) /\ Covered(r, c, L, fate)
  BY DEF TrackedIn, OriginTracked, Covered
<1>2. QED
  BY <1>1 DEF TrackedIn

-----------------------------------------------------------------------------
(* What is taken from the IPC channel is tracked.                          *)

LEMMA TrackedTaken ==
  ASSUME NEW r, NEW c \in Seq(Messages), c # <<>>, NEW K, NEW fate, NEW x,
         TrackedIn(r, c, K, fate, x), NEW y,
         OriginTracked(r, Tail(c), K, y), TakenWhenVacant(y),
         CopyTracked(fate, Has(Tail(c), Sending(r)), Has(Tail(c), Received(r)),
                     Has(Tail(c), Disconnect(r, Remote)), Remote \in y.sources, y.inFlight[Via])
  PROVE  TrackedIn(r, Tail(c), K, fate, y)
BY OrderTaken, CoveredTaken DEF TrackedIn

\* What Has says of the reports when the head h is taken.
LEMMA ReportsTaken ==
  ASSUME NEW r, NEW c \in Seq(Messages), c # <<>>, NEW K, NEW fate, NEW x,
         TrackedIn(r, c, K, fate, x),
         NEW k \in {Sending(r), Received(r), Disconnect(r, Origin), Disconnect(r, Remote)}
  PROVE  /\ Head(c) = k => Has(c, k) /\ ~Has(Tail(c), k)
         /\ Head(c) # k => (Has(Tail(c), k) <=> Has(c, k))
<1>1. Once(c, k)
  BY DEF TrackedIn, ReportsInOrder
<1>2. QED
  BY <1>1, TakenHas

\* A message, or one of another route.
LEMMA TrackedTakenQuiet ==
  ASSUME NEW r, NEW c \in Seq(Messages), c # <<>>, NEW K, NEW fate, NEW x,
         TrackedIn(r, c, K, fate, x), Head(c).route # r \/ IsData(Head(c), r)
  PROVE  TrackedIn(r, Tail(c), K, fate, x)
<1>1. PICK h, p : h = Head(c) /\ p = Tail(c)
  OBVIOUS
<1>2. /\ h # Sending(r) /\ h # Received(r) /\ h # Disconnect(r, Origin)
      /\ h # Disconnect(r, Remote)
  BY <1>1, ReportKinds, EventKinds
<1>3. /\ Has(p, Sending(r)) <=> Has(c, Sending(r))
      /\ Has(p, Received(r)) <=> Has(c, Received(r))
      /\ Has(p, Disconnect(r, Origin)) <=> Has(c, Disconnect(r, Origin))
      /\ Has(p, Disconnect(r, Remote)) <=> Has(c, Disconnect(r, Remote))
  BY <1>1, <1>2, ReportsTaken
<1>4. OriginTracked(r, p, K, x) /\ TakenWhenVacant(x)
  BY <1>3 DEF TrackedIn, OriginTracked
<1>5. CopyTracked(fate, Has(p, Sending(r)), Has(p, Received(r)), Has(p, Disconnect(r, Remote)),
                  Remote \in x.sources, x.inFlight[Via])
  BY <1>3 DEF TrackedIn, CopyTracked
<1>6. QED
  BY <1>1, <1>4, <1>5, TrackedTaken

LEMMA TrackedSending ==
  ASSUME NEW r, NEW c \in Seq(Messages), c # <<>>, NEW K, NEW fate, NEW x,
         TrackedIn(r, c, K, fate, x), Head(c) = Sending(r),
         NEW y, y.sources = x.sources, TakenWhenVacant(y),
         y.inFlight[Via] = 1 \/ (fate = "lost" /\ y.inFlight[Via] = 0)
  PROVE  TrackedIn(r, Tail(c), K, fate, y)
<1>1. PICK p : p = Tail(c)
  OBVIOUS
<1>2. /\ Has(c, Sending(r)) /\ ~Has(p, Sending(r))
      /\ Has(p, Received(r)) <=> Has(c, Received(r))
      /\ Has(p, Disconnect(r, Origin)) <=> Has(c, Disconnect(r, Origin))
      /\ Has(p, Disconnect(r, Remote)) <=> Has(c, Disconnect(r, Remote))
  BY <1>1, ReportKinds, ReportsTaken
<1>3. OriginTracked(r, p, K, y)
  BY <1>2 DEF TrackedIn, OriginTracked
<1>4. CopyTracked(fate, Has(p, Sending(r)), Has(p, Received(r)), Has(p, Disconnect(r, Remote)),
                  Remote \in y.sources, y.inFlight[Via])
  BY <1>2 DEF TrackedIn, CopyTracked
<1>5. QED
  BY <1>1, <1>3, <1>4, TrackedTaken

LEMMA TrackedReceived ==
  ASSUME NEW r, NEW c \in Seq(Messages), c # <<>>, NEW K, NEW fate, NEW x,
         TrackedIn(r, c, K, fate, x), Head(c) = Received(r),
         NEW y, y.sources = x.sources \cup {Remote}, TakenWhenVacant(y),
         x.inFlight[Via] = 1 => y.inFlight[Via] = 0
  PROVE  TrackedIn(r, Tail(c), K, fate, y)
<1>1. PICK p : p = Tail(c)
  OBVIOUS
<1>2. /\ Has(p, Sending(r)) <=> Has(c, Sending(r))
      /\ Has(c, Received(r)) /\ ~Has(p, Received(r))
      /\ Has(p, Disconnect(r, Origin)) <=> Has(c, Disconnect(r, Origin))
      /\ Has(p, Disconnect(r, Remote)) <=> Has(c, Disconnect(r, Remote))
  BY <1>1, ReportKinds, ReportsTaken
<1>3. ~Has(p, Sending(r))
  BY <1>1, OrderTaken DEF TrackedIn
<1>4. OriginTracked(r, p, K, y)
  BY <1>2, RouterAssumption DEF TrackedIn, OriginTracked
<1>5. CopyTracked(fate, Has(p, Sending(r)), Has(p, Received(r)), Has(p, Disconnect(r, Remote)),
                  Remote \in y.sources, y.inFlight[Via])
  BY <1>2, <1>3 DEF TrackedIn, CopyTracked
<1>6. QED
  BY <1>1, <1>4, <1>5, TrackedTaken

LEMMA TrackedDisconnect ==
  ASSUME NEW r, NEW c \in Seq(Messages), c # <<>>, NEW K, NEW fate, NEW x,
         TrackedIn(r, c, K, fate, x), NEW s \in {Origin, Remote}, Head(c) = Disconnect(r, s),
         NEW y, y.sources = x.sources \ {s}, y.inFlight[Via] = x.inFlight[Via],
         TakenWhenVacant(y)
  PROVE  TrackedIn(r, Tail(c), K, fate, y)
<1>1. PICK p : p = Tail(c)
  OBVIOUS
<1>2. CASE s = Origin
  <2>1. /\ Has(p, Sending(r)) <=> Has(c, Sending(r))
        /\ Has(p, Received(r)) <=> Has(c, Received(r))
        /\ Has(c, Disconnect(r, Origin)) /\ ~Has(p, Disconnect(r, Origin))
        /\ Has(p, Disconnect(r, Remote)) <=> Has(c, Disconnect(r, Remote))
    BY <1>1, <1>2, ReportKinds, ReportsTaken
  <2>2. OriginTracked(r, p, K, y)
    BY <1>2, <2>1 DEF TrackedIn, OriginTracked
  <2>3. Remote \in y.sources <=> Remote \in x.sources
    BY <1>2, RouterAssumption
  <2>4. CopyTracked(fate, Has(p, Sending(r)), Has(p, Received(r)), Has(p, Disconnect(r, Remote)),
                    Remote \in y.sources, y.inFlight[Via])
    BY <2>1, <2>3 DEF TrackedIn, CopyTracked
  <2>5. QED
    BY <1>1, <2>2, <2>4, TrackedTaken
<1>3. CASE s = Remote
  <2>1. /\ Has(p, Sending(r)) <=> Has(c, Sending(r))
        /\ Has(p, Received(r)) <=> Has(c, Received(r))
        /\ Has(p, Disconnect(r, Origin)) <=> Has(c, Disconnect(r, Origin))
        /\ Has(c, Disconnect(r, Remote)) /\ ~Has(p, Disconnect(r, Remote))
    BY <1>1, <1>3, ReportKinds, ReportsTaken
  <2>2. ~Has(p, Received(r))
    BY <1>1, <1>3, OrderTaken DEF TrackedIn
  <2>3. OriginTracked(r, p, K, y)
    BY <1>3, <2>1, RouterAssumption DEF TrackedIn, OriginTracked
  <2>4. CopyTracked(fate, Has(p, Sending(r)), Has(p, Received(r)), Has(p, Disconnect(r, Remote)),
                    Remote \in y.sources, y.inFlight[Via])
    BY <1>3, <2>1, <2>2 DEF TrackedIn, CopyTracked
  <2>5. QED
    BY <1>1, <2>3, <2>4, TrackedTaken
<1>4. QED
  BY <1>2, <1>3

\* A poll finds out of a copy in flight that was lost, if any.
LEMMA TrackedPolled ==
  ASSUME NEW r, NEW c, NEW K, NEW fate, NEW x, TrackedIn(r, c, K, fate, x),
         NEW y, y.sources = x.sources, TakenWhenVacant(y),
         y.inFlight[Via] = x.inFlight[Via] \/ (fate = "lost" /\ y.inFlight[Via] = 0)
  PROVE  TrackedIn(r, c, K, fate, y)
<1>1. OriginTracked(r, c, K, y)
  BY DEF TrackedIn, OriginTracked
<1>2. CopyTracked(fate, Has(c, Sending(r)), Has(c, Received(r)), Has(c, Disconnect(r, Remote)),
                  Remote \in y.sources, y.inFlight[Via])
  BY DEF TrackedIn, CopyTracked
<1>3. QED
  BY <1>1, <1>2 DEF TrackedIn

-----------------------------------------------------------------------------
(* What the methods of a state machine do to what is tracked.              *)

LEMMA MachineSteps ==
  ASSUME NEW x \in Machines
  PROVE  /\ LET y == SM!ToBeSent(x, Via, Probe)
            IN  /\ y.sources = x.sources /\ y.inFlight[Via] = x.inFlight[Via] + 1
                /\ y.maybe = x.maybe
         /\ LET y == SM!ReceiveFailed(SM!ToBeSent(x, Via, Probe), Via)
            IN  /\ y.sources = x.sources /\ y.inFlight[Via] = x.inFlight[Via]
                /\ x.maybe => TakenWhenVacant(y)
         /\ LET y == SM!Received(x, Via, Remote)
            IN  /\ y.sources = x.sources \cup {Remote} /\ y.maybe = x.maybe
                /\ x.inFlight[Via] = 1 => y.inFlight[Via] = 0
         /\ \A s : LET y == SM!Disconnect(x, s)
                   IN  /\ y.sources = x.sources \ {s} /\ y.inFlight[Via] = x.inFlight[Via]
                       /\ x.maybe => TakenWhenVacant(y)
<1>1. /\ x \in [maybe : BOOLEAN, sources : SUBSET {Origin, Remote}, inFlight : [{Via} -> Nat],
                probes : [{Via} -> {Probe} \cup {NoProbe}]]
      /\ x.inFlight[Via] \in Nat
  BY DEF Machines, SM!StateMachines
<1>2. /\ SM!ToBeSent(x, Via, Probe).sources = x.sources
      /\ SM!ToBeSent(x, Via, Probe).inFlight[Via] = x.inFlight[Via] + 1
      /\ SM!ToBeSent(x, Via, Probe).maybe = x.maybe
  BY <1>1 DEF SM!ToBeSent, SM!WithOne
<1>3. LET y == SM!ReceiveFailed(SM!ToBeSent(x, Via, Probe), Via)
      IN  /\ y.sources = x.sources /\ y.inFlight[Via] = x.inFlight[Via]
          /\ x.maybe => TakenWhenVacant(y)
  <2>1. PICK z \in Machines : z = SM!ToBeSent(x, Via, Probe)
    <3>1. [x.inFlight EXCEPT ![Via] = @ + 1] \in [{Via} -> Nat]
      BY <1>1
    <3>2. [x.probes EXCEPT ![Via] = Probe] \in [{Via} -> {Probe} \cup {NoProbe}]
      BY <1>1
    <3>3. SM!ToBeSent(x, Via, Probe) \in Machines
      BY <1>1, <3>1, <3>2 DEF SM!ToBeSent, SM!WithOne, Machines, SM!StateMachines
    <3>4. QED
      BY <3>3
  <2>2. PICK y : y = SM!ReceiveFailed(z, Via)
    OBVIOUS
  <2>3. /\ y.sources = z.sources
        /\ y.inFlight[Via] = IF z.inFlight[Via] = 0 THEN 0 ELSE z.inFlight[Via] - 1
        /\ y.maybe = (z.maybe /\ ~(z.sources = {} /\ y.inFlight[Via] = 0))
    BY <2>2 DEF SM!ReceiveFailed, SM!TakeIfVacant, SM!Vacant, SM!NoneInFlight, SM!WithoutOne,
                Machines, SM!StateMachines
  <2>4. y.sources = x.sources /\ y.inFlight[Via] = x.inFlight[Via]
    BY <1>1, <1>2, <2>1, <2>3
  <2>5. x.maybe => TakenWhenVacant(y)
    BY <1>2, <2>1, <2>3 DEF TakenWhenVacant
  <2>6. QED
    BY <2>1, <2>2, <2>4, <2>5
<1>4. LET y == SM!Received(x, Via, Remote)
      IN  /\ y.sources = x.sources \cup {Remote} /\ y.maybe = x.maybe
          /\ x.inFlight[Via] = 1 => y.inFlight[Via] = 0
  BY <1>1 DEF SM!Received, SM!WithoutOne
<1>5. ASSUME NEW s
      PROVE  LET y == SM!Disconnect(x, s)
             IN  /\ y.sources = x.sources \ {s} /\ y.inFlight[Via] = x.inFlight[Via]
                 /\ x.maybe => TakenWhenVacant(y)
  <2>1. PICK y : y = SM!Disconnect(x, s)
    OBVIOUS
  <2>2. /\ y.sources = x.sources \ {s} /\ y.inFlight = x.inFlight
        /\ y.maybe = (x.maybe /\ ~(y.sources = {} /\ y.inFlight[Via] = 0))
    BY <1>1, <2>1 DEF SM!Disconnect, SM!TakeIfVacant, SM!Vacant, SM!NoneInFlight
  <2>3. x.maybe => TakenWhenVacant(y)
    BY <1>1, <2>2 DEF TakenWhenVacant
  <2>4. QED
    BY <2>1, <2>2, <2>3
<1>6. QED
  BY <1>2, <1>3, <1>4, <1>5

LEMMA MachinePolled ==
  ASSUME NEW x \in Machines, NEW failing, NEW y, y = SM!Poll(x, failing), TakenWhenVacant(x)
  PROVE  /\ y.sources = x.sources /\ TakenWhenVacant(y)
         /\ y.inFlight[Via] = x.inFlight[Via] \/ (failing # {} /\ y.inFlight[Via] = 0)
<1>1. /\ x \in [maybe : BOOLEAN, sources : SUBSET {Origin, Remote}, inFlight : [{Via} -> Nat],
                probes : [{Via} -> {Probe} \cup {NoProbe}]]
      /\ x.inFlight[Via] \in Nat
  BY DEF Machines, SM!StateMachines
<1>2. CASE x.maybe = FALSE
  BY <1>2 DEF SM!Poll
<1>3. CASE x.maybe = TRUE
  <2>1. PICK lost : lost = SM!LostVias(x, failing)
    OBVIOUS
  <2>2. Via \in lost => failing # {}
    BY <2>1 DEF SM!LostVias
  <2>3. PICK z : z = SM!WriteOff(x, lost)
    OBVIOUS
  <2>4. /\ z.sources = x.sources /\ z.maybe = TRUE
        /\ z.inFlight[Via] = IF Via \in lost THEN 0 ELSE x.inFlight[Via]
    BY <1>1, <1>3, <2>3 DEF SM!WriteOff
  <2>5. /\ y.sources = z.sources /\ y.inFlight[Via] = z.inFlight[Via]
        /\ y.maybe = ~(z.sources = {} /\ z.inFlight[Via] = 0)
    BY <1>1, <1>3, <2>1, <2>3 DEF SM!Poll, SM!TakeIfVacant, SM!Vacant, SM!NoneInFlight, SM!WriteOff
  <2>6. TakenWhenVacant(y)
    BY <2>5 DEF TakenWhenVacant
  <2>7. QED
    BY <2>2, <2>4, <2>5, <2>6
<1>4. QED
  BY <1>1, <1>2, <1>3

-----------------------------------------------------------------------------
(* The steps, for what is tracked.                                         *)

LEMMA TrackedTypes ==
  ASSUME InPlaceInv
  PROVE  /\ ipc \in [IpcChannels -> Seq(Messages \cup {Wakeup})]
         /\ \A r \in Routes : /\ Of[r] \in IpcChannels /\ Of[r] \in Channels
                              /\ Of[r] # WakeupChannel /\ ipc[Of[r]] \in Seq(Messages)
                              /\ sm[r] \in Machines
         /\ sm \in [Routes -> Machines]
         /\ copy \in [Routes -> {"none", "sent", "lost", "held", "dropped", "exited"}]
         /\ at \in [Routes -> {"none", "lock", "wakeup", "wait", "failing", "failed", "routed"}]
         /\ tx \in SUBSET Routes
BY ChannelTyped, RouterAssumption DEF InPlaceInv, TypeOK, Machines

LEMMA TrackedKept ==
  ASSUME Tracked, UNCHANGED <<sm, copy>>, \A r \in Routes : ipc'[Of[r]] = ipc[Of[r]],
         \A r \in Routes : r \in Keepers' <=> r \in Keepers
  PROVE  Tracked'
<1>1. SUFFICES ASSUME NEW r \in Routes
               PROVE  TrackedIn(r, ipc'[Of[r]], Keepers', copy'[r], sm'[r])
  BY DEF Tracked
<1>2. TrackedIn(r, ipc[Of[r]], Keepers, copy[r], sm[r]) /\ TakenWhenVacant(sm[r])
  BY DEF Tracked, TrackedIn
<1>3. PICK L : L = Keepers'
  OBVIOUS
<1>4. TrackedIn(r, ipc[Of[r]], L, copy[r], sm[r])
  BY <1>2, <1>3, TrackedSame
<1>5. QED
  BY <1>3, <1>4

\* What is put for one route changes nothing for the others.
LEMMA TrackedPutFor ==
  ASSUME InPlaceInv, Running, Tracked, NEW s \in Routes, NEW m, m.route = s, Put(Of[s], m),
         sm' = sm,
         \A r \in Routes \ {s} : copy'[r] = copy[r] /\ (r \in Keepers' <=> r \in Keepers),
         TrackedIn(s, Append(ipc[Of[s]], m), Keepers', copy'[s], sm[s])
  PROVE  Tracked'
<1>1. SUFFICES ASSUME NEW r \in Routes
               PROVE  TrackedIn(r, ipc'[Of[r]], Keepers', copy'[r], sm'[r])
  BY DEF Tracked
<1>2. ipc' = [ipc EXCEPT ![Of[s]] = Append(ipc[Of[s]], m)]
  BY DEF Put, NoIpc, Running
<1>3. CASE r = s
  <2>1. ipc'[Of[r]] = Append(ipc[Of[s]], m)
    BY <1>2, <1>3, TrackedTypes
  <2>2. QED
    BY <1>3, <2>1
<1>4. CASE r # s
  <2>1. TrackedIn(r, ipc[Of[r]], Keepers, copy[r], sm[r]) /\ TakenWhenVacant(sm[r])
    BY DEF Tracked, TrackedIn
  <2>2. PICK L : L = Keepers'
    OBVIOUS
  <2>3. PICK c \in Seq(Messages) : c = ipc[Of[r]]
    BY TrackedTypes
  <2>4. TrackedIn(r, c, L, copy[r], sm[r])
    BY <1>4, <2>1, <2>2, <2>3, TrackedSame
  <2>5. TrackedIn(r, Append(c, m), L, copy[r], sm[r])
    BY <1>4, <2>4, TrackedForeign
  <2>6. ipc'[Of[r]] = c \/ ipc'[Of[r]] = Append(c, m)
    BY <1>2, <2>3, TrackedTypes
  <2>7. QED
    BY <1>4, <2>2, <2>4, <2>5, <2>6
<1>5. QED
  BY <1>3, <1>4

LEMMA TrackedClient ==
  ASSUME InPlaceInv, Running, Tracked, Exiting = {}, NEW s \in Routes,
         Send(s) \/ Drop(s) \/ Lend(s) \/ Borrow(s) \/ Lose(s) \/ Return(s)
  PROVE  Tracked'
<1> USE DEF proxyVars, demuxVars, routerVars, clientVars
<1>1. PICK c \in Seq(Messages) : c = ipc[Of[s]]
  BY TrackedTypes
<1>2. TrackedIn(s, c, Keepers, copy[s], sm[s])
  BY <1>1 DEF Tracked
<1>3. at' = at /\ sm' = sm
  BY DEF Send, Drop, Lend, Borrow, Lose, Return
<1>4. PICK L : L = Keepers'
  OBVIOUS
<1>5. CASE Send(s)
  <2>1. tx' = tx /\ copy' = copy /\ Put(Of[s], Data(s, sent'[s]))
    BY <1>5 DEF Send
  <2>2. Keepers' = Keepers
    BY <1>3, <2>1 DEF Keepers
  <2>3. s \in Keepers \/ copy[s] = "held"
    BY <1>5 DEF Send, HasSubSender, Keepers
  <2>4. \A n : TrackedIn(s, Append(c, Data(s, n)), Keepers, copy[s], sm[s])
    BY <1>2, <2>3, TrackedSend
  <2>5. PICK m : m = Data(s, sent'[s]) /\ m.route = s
    BY ReportKinds
  <2>6. TrackedIn(s, Append(c, m), L, copy'[s], sm[s])
    BY <1>4, <2>1, <2>2, <2>4, <2>5
  <2>7. QED
    BY <1>1, <1>3, <1>4, <2>1, <2>2, <2>5, <2>6, TrackedPutFor
<1>6. CASE Drop(s)
  <2>1. /\ at[s] = "routed" /\ s \in tx /\ tx' = tx \ {s} /\ copy' = copy
        /\ Put(Of[s], Disconnect(s, Origin))
    BY <1>6 DEF Drop, HasSubSender
  <2>2. s \in Keepers /\ s \notin L /\ \A r \in Routes \ {s} : r \in L <=> r \in Keepers
    BY <1>3, <1>4, <2>1 DEF Keepers
  <2>3. TrackedIn(s, Append(c, Disconnect(s, Origin)), L, copy[s], sm[s])
    BY <1>2, <2>2, TrackedDrop
  <2>4. PICK m : m = Disconnect(s, Origin) /\ m.route = s
    BY ReportKinds
  <2>5. TrackedIn(s, Append(c, m), L, copy'[s], sm[s])
    BY <2>1, <2>3, <2>4
  <2>6. QED
    BY <1>1, <1>3, <1>4, <2>1, <2>2, <2>4, <2>5, TrackedPutFor
<1>7. CASE Lend(s)
  <2>1. /\ at[s] = "routed" /\ s \in tx /\ tx' = tx /\ copy[s] = "none"
        /\ copy' = [copy EXCEPT ![s] = "sent"] /\ Put(Of[s], Sending(s))
    BY <1>7 DEF Lend, HasSubSender
  <2>2. Keepers' = Keepers /\ s \in Keepers
    BY <1>3, <2>1 DEF Keepers
  <2>3. TrackedIn(s, Append(c, Sending(s)), Keepers, "sent", sm[s])
    BY <1>2, <2>1, <2>2, TrackedLend
  <2>4. PICK m : m = Sending(s) /\ m.route = s
    BY ReportKinds
  <2>5. copy'[s] = "sent" /\ \A r \in Routes \ {s} : copy'[r] = copy[r]
    BY <2>1, TrackedTypes
  <2>6. TrackedIn(s, Append(c, m), L, copy'[s], sm[s])
    BY <1>4, <2>2, <2>3, <2>4, <2>5
  <2>7. QED
    BY <1>1, <1>3, <1>4, <2>1, <2>2, <2>4, <2>5, <2>6, TrackedPutFor
<1>8. CASE Borrow(s)
  <2>1. /\ tx' = tx /\ copy[s] = "sent" /\ copy' = [copy EXCEPT ![s] = "held"]
        /\ Put(Of[s], Received(s))
    BY <1>8 DEF Borrow
  <2>2. Keepers' = Keepers
    BY <1>3, <2>1 DEF Keepers
  <2>3. TrackedIn(s, Append(c, Received(s)), Keepers, "held", sm[s])
    BY <1>2, <2>1, TrackedBorrow
  <2>4. PICK m : m = Received(s) /\ m.route = s
    BY ReportKinds
  <2>5. copy'[s] = "held" /\ \A r \in Routes \ {s} : copy'[r] = copy[r]
    BY <2>1, TrackedTypes
  <2>6. TrackedIn(s, Append(c, m), L, copy'[s], sm[s])
    BY <1>4, <2>2, <2>3, <2>4, <2>5
  <2>7. QED
    BY <1>1, <1>3, <1>4, <2>1, <2>2, <2>4, <2>5, <2>6, TrackedPutFor
<1>9. CASE Lose(s)
  <2>1. tx' = tx /\ ipc' = ipc /\ copy[s] = "sent" /\ copy' = [copy EXCEPT ![s] = "lost"]
    BY <1>9 DEF Lose
  <2>2. Keepers' = Keepers
    BY <1>3, <2>1 DEF Keepers
  <2>3. TrackedIn(s, c, Keepers, "lost", sm[s])
    BY <1>2, <2>1, TrackedLose
  <2>4. copy'[s] = "lost" /\ \A r \in Routes \ {s} : copy'[r] = copy[r]
    BY <2>1, TrackedTypes
  <2>5. ASSUME NEW r \in Routes
        PROVE  TrackedIn(r, ipc'[Of[r]], Keepers', copy'[r], sm'[r])
    <3>1. TrackedIn(r, ipc[Of[r]], Keepers, copy'[r], sm[r])
      BY <1>1, <2>3, <2>4 DEF Tracked
    <3>2. QED
      BY <1>3, <2>1, <2>2, <3>1
  <2>6. QED
    BY <2>5 DEF Tracked
<1>10. CASE Return(s)
  <2>1. /\ tx' = tx /\ copy[s] = "held" /\ copy' = [copy EXCEPT ![s] = "dropped"]
        /\ Put(Of[s], Disconnect(s, Remote))
    BY <1>10 DEF Return
  <2>2. Keepers' = Keepers
    BY <1>3, <2>1 DEF Keepers
  <2>3. TrackedIn(s, Append(c, Disconnect(s, Remote)), Keepers, "dropped", sm[s])
    BY <1>2, <2>1, TrackedReturn
  <2>4. PICK m : m = Disconnect(s, Remote) /\ m.route = s
    BY ReportKinds
  <2>5. copy'[s] = "dropped" /\ \A r \in Routes \ {s} : copy'[r] = copy[r]
    BY <2>1, TrackedTypes
  <2>6. TrackedIn(s, Append(c, m), L, copy'[s], sm[s])
    BY <1>4, <2>2, <2>3, <2>4, <2>5
  <2>7. QED
    BY <1>1, <1>3, <1>4, <2>1, <2>2, <2>4, <2>5, <2>6, TrackedPutFor
<1>11. QED
  BY <1>5, <1>6, <1>7, <1>8, <1>9, <1>10

\* The message that is demultiplexed is tracked by the state machine of its route.
LEMMA TrackedHandled ==
  ASSUME NEW r, NEW c \in Seq(Messages), c # <<>>, NEW K, NEW x \in Machines,
         TrackedIn(r, c, K, copy[r], x), Head(c).route = r
  PROVE  TrackedIn(r, Tail(c), K, copy[r], Handle(x, Head(c)))
<1>1. PICK m \in Messages : m = Head(c) /\ m.route = r
  BY TailIndexed
<1>2. PICK y : y = Handle(x, m)
  OBVIOUS
<1>3. x.maybe
  <2>1. 1 \in DOMAIN c /\ c[1] = m
    BY <1>1, TailIndexed
  <2>2. QED
    BY <1>1, <2>1, NotTaken
<1>4. copy[r] # "exited"
  BY DEF TrackedIn, CopyTracked
<1>5. CASE IsData(m, r)
  <2>1. y = x
    BY <1>2, <1>5 DEF Handle, IsData
  <2>2. QED
    BY <1>1, <1>2, <1>5, <2>1, TrackedTakenQuiet
<1>6. CASE m = Sending(r)
  <2>1. m.type = "Sending"
    BY <1>6 DEF Sending
  <2>2. x.inFlight[Via] = 0
    <3>1. Has(c, Sending(r))
      BY <1>1, <1>6, TakenHas
    <3>2. QED
      BY <3>1 DEF TrackedIn, CopyTracked
  <2>3. y = IF Failing(r) = {} THEN SM!ToBeSent(x, Via, Probe)
            ELSE SM!ReceiveFailed(SM!ToBeSent(x, Via, Probe), Via)
    BY <1>1, <1>2, <2>1 DEF Handle
  <2>4. Failing(r) # {} => copy[r] = "lost"
    BY <1>4 DEF Failing
  <2>5. y.sources = x.sources /\ (y.inFlight[Via] = 1 \/ (copy[r] = "lost" /\ y.inFlight[Via] = 0))
    BY <2>2, <2>3, <2>4, MachineSteps
  <2>6. TakenWhenVacant(y)
    <3>1. CASE Failing(r) = {}
      BY <1>3, <2>3, <3>1, MachineSteps DEF TakenWhenVacant
    <3>2. CASE Failing(r) # {}
      BY <1>3, <2>3, <3>2, MachineSteps
    <3>3. QED
      BY <3>1, <3>2
  <2>7. TrackedIn(r, Tail(c), K, copy[r], y)
    BY <1>1, <1>6, <2>5, <2>6, TrackedSending
  <2>8. QED
    BY <1>1, <1>2, <2>7
<1>7. CASE m = Received(r)
  <2>1. y = SM!Received(x, Via, Remote)
    BY <1>2, <1>7 DEF Handle, Received
  <2>2. y.sources = x.sources \cup {Remote} /\ (x.inFlight[Via] = 1 => y.inFlight[Via] = 0)
    BY <2>1, MachineSteps
  <2>3. TakenWhenVacant(y)
    BY <1>3, <2>1, MachineSteps DEF TakenWhenVacant
  <2>4. TrackedIn(r, Tail(c), K, copy[r], y)
    BY <1>1, <1>7, <2>2, <2>3, TrackedReceived
  <2>5. QED
    BY <1>1, <1>2, <2>4
<1>8. ASSUME NEW s \in {Origin, Remote}, m = Disconnect(r, s)
      PROVE  TrackedIn(r, Tail(c), K, copy[r], Handle(x, Head(c)))
  <2>1. y = SM!Disconnect(x, s)
    BY <1>2, <1>8 DEF Handle, Disconnect
  <2>2. y.sources = x.sources \ {s} /\ y.inFlight[Via] = x.inFlight[Via] /\ TakenWhenVacant(y)
    BY <1>3, <2>1, MachineSteps
  <2>3. TrackedIn(r, Tail(c), K, copy[r], y)
    BY <1>1, <1>8, <2>2, TrackedDisconnect
  <2>4. QED
    BY <1>1, <1>2, <2>3
<1>9. QED
  BY <1>1, <1>5, <1>6, <1>7, <1>8, MessageKinds

\* What goes to the router's wakeup channel changes nothing in the other ones.
LEMMA WakeupElsewhere ==
  ASSUME InPlaceInv, Put(WakeupChannel, Wakeup)
  PROVE  \A r \in Routes : ipc'[Of[r]] = ipc[Of[r]]
BY TrackedTypes DEF Put

LEMMA TrackedCalls ==
  ASSUME InPlaceInv, Running, Tracked,
         \/ \E s \in Routes : SubChannel(s) \/ AddRoute(s)
         \/ Shutdown \/ Stop \/ OwnerLeaves \/ UNCHANGED vars
  PROVE  Tracked'
<1> USE DEF proxyVars, demuxVars, routerVars, clientVars
<1>1. ASSUME NEW s \in Routes, SubChannel(s)
      PROVE  Tracked'
  <2>1. /\ at[s] = "none" /\ at' = [at EXCEPT ![s] = "lock"] /\ tx' = tx \cup {s}
        /\ sm' = [sm EXCEPT ![s] = SM!New(Origin)] /\ ipc' = ipc /\ copy' = copy
    BY <1>1 DEF SubChannel
  <2>2. \A r \in Routes : r \in Keepers' <=> r \in Keepers
    BY <2>1, TrackedTypes DEF Keepers
  <2>3. PICK L : L = Keepers'
    OBVIOUS
  <2>4. PICK y : y = SM!New(Origin)
    OBVIOUS
  <2>5. y.sources = {Origin} /\ y.inFlight[Via] = 0 /\ TakenWhenVacant(y)
    BY <2>4 DEF SM!New, TakenWhenVacant
  <2>6. sm[s].sources = {Origin} /\ sm[s].inFlight[Via] = 0
    <3>1. copy[s] = "none"
      BY <2>1 DEF InPlaceInv, CallsAnswered
    <3>2. s \in Keepers
      BY <2>1 DEF Keepers
    <3>3. Origin \in sm[s].sources /\ Remote \notin sm[s].sources /\ sm[s].inFlight[Via] = 0
      BY <3>1, <3>2 DEF Tracked, TrackedIn, OriginTracked, CopyTracked
    <3>4. sm[s].sources \subseteq {Origin, Remote}
      BY TrackedTypes DEF Machines, SM!StateMachines
    <3>5. QED
      BY <3>3, <3>4
  <2>7. ASSUME NEW r \in Routes
        PROVE  TrackedIn(r, ipc'[Of[r]], Keepers', copy'[r], sm'[r])
    <3>1. TrackedIn(r, ipc[Of[r]], Keepers, copy[r], sm[r]) /\ TakenWhenVacant(sm[r])
      BY DEF Tracked, TrackedIn
    <3>2. CASE r = s
      <4>1. TrackedIn(s, ipc[Of[s]], L, copy[s], y)
        BY <2>2, <2>3, <2>5, <2>6, <3>1, <3>2, TrackedSame
      <4>2. sm'[r] = y
        BY <2>1, <2>4, <3>2, TrackedTypes
      <4>3. QED
        BY <2>1, <2>3, <3>2, <4>1, <4>2
    <3>3. CASE r # s
      <4>1. TrackedIn(r, ipc[Of[r]], L, copy[r], sm[r])
        BY <2>2, <2>3, <3>1, TrackedSame
      <4>2. sm'[r] = sm[r]
        BY <2>1, <3>3, TrackedTypes
      <4>3. QED
        BY <2>1, <2>3, <4>1, <4>2
    <3>4. QED
      BY <3>2, <3>3
  <2>8. QED
    BY <2>7 DEF Tracked
<1>2. ASSUME NEW s \in Routes, AddRoute(s)
      PROVE  Tracked'
  <2>1. ~Fail(s)
    BY DEF Fail, InPlaceInv, CallsAnswered
  <2>2. UNCHANGED <<sm, copy, tx>>
    BY <1>2, <2>1 DEF AddRoute, SendRoute, SendWakeup, AwaitAck
  <2>3. \A r \in Routes : ipc'[Of[r]] = ipc[Of[r]]
    BY <1>2, <2>1, WakeupElsewhere DEF AddRoute, SendRoute, SendWakeup, AwaitAck
  <2>4. \A r \in Routes : at'[r] = "none" <=> at[r] = "none"
    BY <1>2, <2>1, TrackedTypes DEF AddRoute, SendRoute, SendWakeup, AwaitAck
  <2>5. QED
    BY <2>2, <2>3, <2>4, TrackedKept DEF Keepers
<1>3. CASE Shutdown \/ Stop \/ OwnerLeaves \/ UNCHANGED vars
  <2>1. UNCHANGED <<sm, copy, tx, at>>
    BY <1>3 DEF Shutdown, Stop, SendShutdown, Join, OwnerLeaves, vars
  <2>2. \A r \in Routes : ipc'[Of[r]] = ipc[Of[r]]
    BY <1>3, WakeupElsewhere DEF Shutdown, Stop, SendShutdown, Join, OwnerLeaves, vars
  <2>3. QED
    BY <2>1, <2>2, TrackedKept DEF Keepers
<1>4. QED
  BY <1>1, <1>2, <1>3

LEMMA TrackedReceive ==
  ASSUME InPlaceInv, Running, Tracked, NEW k \in Channels, Receive(k)
  PROVE  Tracked'
<1> USE DEF proxyVars, demuxVars, routerVars, clientVars
<1>1. /\ k \in IpcChannels /\ k # WakeupChannel /\ ipc[k] \in Seq(Messages) /\ ipc[k] # <<>>
      /\ ipc' = [ipc EXCEPT ![k] = Tail(ipc[k])] /\ Demultiplex(Head(ipc[k]))
      /\ at' = at /\ tx' = tx /\ copy' = copy
  <2>1. k \in IpcChannels /\ k # WakeupChannel /\ ipc[k] \in Seq(Messages)
    BY ChannelQueue DEF InPlaceInv
  <2>2. ipc[k] # <<>> /\ ipc' = [ipc EXCEPT ![k] = Tail(ipc[k])] /\ Demultiplex(Head(ipc[k]))
    BY <2>1 DEF Receive
  <2>3. at' = at /\ tx' = tx /\ copy' = copy
    <3>1. UNCHANGED proxyVars /\ UNCHANGED clientVars
      BY <2>1 DEF Receive
    <3>2. QED
      BY <3>1
  <2>4. QED
    BY <2>1, <2>2, <2>3
<1>2. PICK m \in Messages : m = Head(ipc[k]) /\ m = ipc[k][1] /\ 1 \in DOMAIN ipc[k]
  BY <1>1, TailIndexed
<1>3. m.route \in Routes /\ Of[m.route] = k
  <2>1. UsedWhenRouted
    BY DEF InPlaceInv
  <2>2. \A i \in DOMAIN ipc[k] : Of[ipc[k][i].route] = k
    BY <2>1 DEF UsedWhenRouted
  <2>3. QED
    BY <1>2, <2>2, MessagesTyped
<1>4. sm' = [sm EXCEPT ![m.route] = Handle(sm[m.route], m)]
  BY <1>1, <1>2, Zenon DEF Demultiplex
<1>5. Keepers' = Keepers
  BY <1>1 DEF Keepers
<1>6. ASSUME NEW r \in Routes
      PROVE  TrackedIn(r, ipc'[Of[r]], Keepers', copy'[r], sm'[r])
  <2>1. TrackedIn(r, ipc[Of[r]], Keepers, copy[r], sm[r]) /\ sm[r] \in Machines
    BY TrackedTypes DEF Tracked
  <2>2. CASE r = m.route
    <3>1. TrackedIn(r, Tail(ipc[k]), Keepers, copy[r], Handle(sm[r], Head(ipc[k])))
      BY <1>1, <1>2, <1>3, <2>1, <2>2, TrackedHandled
    <3>2. ipc'[Of[r]] = Tail(ipc[k]) /\ sm'[r] = Handle(sm[r], Head(ipc[k]))
      BY <1>1, <1>2, <1>3, <1>4, <2>2, TrackedTypes
    <3>3. QED
      BY <1>1, <1>5, <3>1, <3>2
  <2>3. CASE r # m.route /\ Of[r] = k
    <3>1. TrackedIn(r, Tail(ipc[k]), Keepers, copy[r], sm[r])
      BY <1>1, <1>2, <2>1, <2>3, TrackedTakenQuiet
    <3>2. ipc'[Of[r]] = Tail(ipc[k]) /\ sm'[r] = sm[r]
      BY <1>1, <1>4, <2>3, TrackedTypes
    <3>3. QED
      BY <1>1, <1>5, <3>1, <3>2
  <2>4. CASE r # m.route /\ Of[r] # k
    <3>1. ipc'[Of[r]] = ipc[Of[r]] /\ sm'[r] = sm[r]
      BY <1>1, <1>4, <2>4, TrackedTypes
    <3>2. QED
      BY <1>1, <1>5, <2>1, <3>1
  <2>5. QED
    BY <2>2, <2>3, <2>4
<1>7. QED
  BY <1>6 DEF Tracked

LEMMA TrackedRun ==
  ASSUME InPlaceInv, Running, Running', Tracked, Run
  PROVE  Tracked'
<1> USE DEF proxyVars, demuxVars, routerVars, clientVars
<1>1. CASE Select \/ EndBatch \/ TimeOut \/ HandleMessage \/ HandleClosed
  <2>1. UNCHANGED <<sm, copy, ipc, at, tx>>
    BY <1>1 DEF Select, EndBatch, TimeOut, HandleMessage, HandleClosed
  <2>2. QED
    BY <2>1, TrackedKept DEF Keepers
<1>2. ASSUME NEW k \in IpcChannels, Receive(k)
      PROVE  Tracked'
  <2>1. CASE k = WakeupChannel
    <3>1. UNCHANGED <<sm, copy, at, tx>> /\ ipc' = [ipc EXCEPT ![k] = Tail(ipc[k])]
      BY <1>2, <2>1 DEF Receive
    <3>2. \A r \in Routes : ipc'[Of[r]] = ipc[Of[r]]
      BY <2>1, <3>1, TrackedTypes
    <3>3. QED
      BY <3>1, <3>2, TrackedKept DEF Keepers
  <2>2. CASE k # WakeupChannel
    BY <1>2, <2>2, TrackedReceive DEF IpcChannels
  <2>3. QED
    BY <2>1, <2>2
<1>3. CASE Poll
  <2>1. /\ UNCHANGED <<copy, ipc, at, tx>>
        /\ sm' = [r \in Routes |-> IF Of[r] \in registered /\ at[r] # "none"
                                   THEN SM!Poll(sm[r], Failing(r)) ELSE sm[r]]
    BY <1>3 DEF Poll
  <2>2. Keepers' = Keepers
    BY <2>1 DEF Keepers
  <2>3. ASSUME NEW r \in Routes
        PROVE  TrackedIn(r, ipc'[Of[r]], Keepers', copy'[r], sm'[r])
    <3>1. /\ TrackedIn(r, ipc[Of[r]], Keepers, copy[r], sm[r]) /\ sm[r] \in Machines
          /\ TakenWhenVacant(sm[r]) /\ copy[r] # "exited"
      BY TrackedTypes DEF Tracked, TrackedIn, CopyTracked
    <3>2. PICK y : y = SM!Poll(sm[r], Failing(r))
      OBVIOUS
    <3>3. Failing(r) # {} => copy[r] = "lost"
      BY <3>1 DEF Failing
    <3>4. /\ y.sources = sm[r].sources /\ TakenWhenVacant(y)
          /\ y.inFlight[Via] = sm[r].inFlight[Via] \/ (copy[r] = "lost" /\ y.inFlight[Via] = 0)
      BY <3>1, <3>2, <3>3, MachinePolled
    <3>5. TrackedIn(r, ipc[Of[r]], Keepers, copy[r], y)
      BY <3>1, <3>4, TrackedPolled
    <3>6. sm'[r] = y \/ sm'[r] = sm[r]
      BY <2>1, <3>2
    <3>7. QED
      BY <2>1, <2>2, <3>1, <3>5, <3>6
  <2>4. QED
    BY <2>3 DEF Tracked
<1>4. CASE HandleAddRoute
  <2>1. PICK s : s = Head(msgs)
    OBVIOUS
  <2>2. s \in Routes
    BY <1>4, <2>1, TailTyped DEF InPlaceInv, TypeOK, HandleAddRoute
  <2>3. UNCHANGED <<copy, ipc, at, tx>> /\ sm' = [sm EXCEPT ![s] = SM!SwitchSender(sm[s])]
    BY <1>4, <2>1 DEF HandleAddRoute
  <2>4. Keepers' = Keepers
    BY <2>3 DEF Keepers
  <2>5. ASSUME NEW r \in Routes
        PROVE  TrackedIn(r, ipc'[Of[r]], Keepers', copy'[r], sm'[r])
    <3>1. /\ TrackedIn(r, ipc[Of[r]], Keepers, copy[r], sm[r]) /\ sm[r] \in Machines
      BY TrackedTypes DEF Tracked
    <3>2. PICK y : y = SM!SwitchSender(sm[r])
      OBVIOUS
    <3>3. y.sources = sm[r].sources /\ TakenWhenVacant(y) /\ y.inFlight[Via] = sm[r].inFlight[Via]
      BY <3>1, <3>2 DEF SM!SwitchSender, TakenWhenVacant, Machines, SM!StateMachines
    <3>4. TrackedIn(r, ipc[Of[r]], Keepers, copy[r], y)
      BY <3>1, <3>3, TrackedSame
    <3>5. sm'[r] = y \/ sm'[r] = sm[r]
      BY <2>2, <2>3, <3>2, TrackedTypes
    <3>6. QED
      BY <2>3, <2>4, <3>1, <3>4, <3>5
  <2>6. QED
    BY <2>5 DEF Tracked
<1>5. CASE HandleShutdown \/ DropQueue \/ DropSubReceiverSet
  BY <1>5 DEF HandleShutdown, DropQueue, DropSubReceiverSet, Running
<1>6. QED
  BY <1>1, <1>2, <1>3, <1>4, <1>5 DEF Run

LEMMA TrackedStep ==
  ASSUME InPlaceInv, Running, Running', Tracked, Exiting = {}, [Next]_vars
  PROVE  Tracked'
BY TrackedClient, TrackedCalls, TrackedRun DEF Next

-----------------------------------------------------------------------------
(* The steps, for the rest.                                                *)

LEMMA IdsThereStep ==
  ASSUME InPlaceInv, EventsHandled, Running, Running', RoutesQueued, Orderly, IdsThere, [Next]_vars
  PROVE  IdsThere'
<1> USE DEF proxyVars, demuxVars, routerVars, clientVars
<1>0. local \in Seq(Events) /\ acks \subseteq Routes
  BY DEF InPlaceInv, TypeOK
<1>1. ASSUME UNCHANGED <<acks, ids, local>>, \A r \in acks : sm'[r].maybe => sm[r].maybe
      PROVE  IdsThere'
  BY <1>1 DEF IdsThere
<1>2. ASSUME NEW s \in Routes, SubChannel(s)
      PROVE  IdsThere'
  <2>1. s \notin acks
    BY <1>2 DEF SubChannel, RoutesQueued
  <2>2. UNCHANGED <<acks, ids, local>> /\ sm' = [sm EXCEPT ![s] = SM!New(Origin)]
    BY <1>2 DEF SubChannel
  <2>3. \A r \in acks : sm'[r] = sm[r]
    BY <1>0, <2>1, <2>2, TrackedTypes
  <2>4. QED
    BY <1>1, <2>2, <2>3
<1>3. CASE \/ \E r \in Routes : \/ AddRoute(r) \/ Send(r) \/ Drop(r) \/ Lend(r) \/ Borrow(r)
                                \/ Lose(r) \/ Return(r)
           \/ Shutdown \/ Stop \/ OwnerLeaves \/ UNCHANGED vars
  <2>1. UNCHANGED <<acks, ids, local, sm>>
    BY <1>3 DEF AddRoute, SendRoute, SendWakeup, AwaitAck, Fail, Send, Drop, Lend, Borrow, Lose,
                Return, Shutdown, Stop, SendShutdown, Join, OwnerLeaves, vars
  <2>2. QED
    BY <1>1, <2>1
<1>4. CASE EndBatch \/ TimeOut \/ HandleMessage \/ HandleClosed
  <2>1. UNCHANGED <<acks, ids, local, sm>>
    BY <1>4 DEF EndBatch, TimeOut, HandleMessage, HandleClosed
  <2>2. QED
    BY <1>1, <2>1
<1>5. CASE Select
  <2>1. /\ local' = <<>> /\ acks' = acks /\ sm' = sm
        /\ ids' = {r \in ids : ~\E i \in DOMAIN local : local[i] = Closed(r)}
    BY <1>5 DEF Select
  <2>2. ASSUME NEW r \in acks, sm[r].maybe
        PROVE  r \in ids'
    <3>1. r \in ids
      BY <2>2 DEF IdsThere
    <3>2. ~Has(local, Closed(r))
      BY <1>0, <2>2 DEF Orderly, OrderlyIn, ClosedLastIn
    <3>3. QED
      BY <2>1, <3>1, <3>2 DEF Has
  <2>3. QED
    BY <2>1, <2>2, EmptyHas DEF IdsThere
<1>6. ASSUME NEW k \in IpcChannels, Receive(k)
      PROVE  IdsThere'
  <2>1. CASE k = WakeupChannel
    <3>1. UNCHANGED <<acks, ids, sm>> /\ local' = Append(local, Wakeup)
      BY <1>6, <2>1 DEF Receive
    <3>2. \A r \in Routes : Has(local', Closed(r)) => Has(local, Closed(r))
      BY <1>0, <3>1, AppendedHas, EventKinds
    <3>3. QED
      BY <1>0, <3>1, <3>2 DEF IdsThere
  <2>2. CASE k # WakeupChannel
    <3>1. acks' = acks /\ ids' = ids
      BY <1>6 DEF Receive
    <3>2. k \in Channels
      BY <2>2 DEF IpcChannels
    <3>3. PICK m \in Messages :
            /\ m.route \in acks
            /\ \A r \in Routes : r # m.route => sm'[r] = sm[r]
            /\ \/ /\ m.type = "Data" /\ sm'[m.route] = sm[m.route] /\ local' = Append(local, m)
               \/ /\ sm'[m.route].maybe = sm[m.route].maybe /\ local' = local
               \/ /\ sm[m.route].maybe /\ ~sm'[m.route].maybe
                  /\ local' = Append(local, Closed(m.route))
      BY <1>6, <3>2, Demultiplexed
    <3>4. ASSUME NEW r \in acks, sm'[r].maybe \/ Has(local', Closed(r))
          PROVE  sm[r].maybe \/ Has(local, Closed(r))
      <4>1. sm'[r].maybe => sm[r].maybe
        BY <1>0, <3>3
      <4>2. m.type = "Data" => m # Closed(r)
        BY DEF Closed
      <4>3. CASE local' = local
        BY <3>4, <4>1, <4>3
      <4>4. CASE m.type = "Data" /\ local' = Append(local, m)
        BY <1>0, <3>4, <4>1, <4>2, <4>4, AppendedHas
      <4>5. CASE sm[m.route].maybe /\ local' = Append(local, Closed(m.route))
        BY <1>0, <3>4, <4>1, <4>5, AppendedHas, EventKinds
      <4>6. QED
        BY <3>3, <4>3, <4>4, <4>5
    <3>5. QED
      BY <3>1, <3>4 DEF IdsThere
  <2>3. QED
    BY <2>1, <2>2
<1>7. CASE Poll
  <2>1. /\ UNCHANGED <<acks, ids>>
        /\ sm' = [r \in Routes |-> IF Of[r] \in registered /\ at[r] # "none"
                                   THEN SM!Poll(sm[r], Failing(r)) ELSE sm[r]]
    BY <1>7 DEF Poll
  <2>2. PICK p \in Seq(Events) :
          /\ local' = local \o p
          /\ \A i \in DOMAIN p : \E r \in Routes : p[i] = Closed(r) /\ sm[r].maybe
          /\ \A i, j \in DOMAIN p : p[i] = p[j] => i = j
    BY <1>7, PolledClosed DEF InPlaceInv
  <2>3. ASSUME NEW r \in acks, sm'[r].maybe \/ Has(local', Closed(r))
        PROVE  sm[r].maybe \/ Has(local, Closed(r))
    <3>1. sm'[r].maybe => sm[r].maybe
      BY <1>0, <2>1, PollMaybe, TrackedTypes
    <3>2. Has(local', Closed(r)) => Has(local, Closed(r)) \/ Has(p, Closed(r))
      BY <1>0, <2>2, ConcatHas
    <3>3. Has(p, Closed(r)) => sm[r].maybe
      BY <2>2, EventKinds DEF Has
    <3>4. QED
      BY <2>3, <3>1, <3>2, <3>3
  <2>4. QED
    BY <2>1, <2>3 DEF IdsThere
<1>8. CASE HandleAddRoute
  <2>1. PICK s \in Routes : s = Head(msgs)
    BY <1>8, TailTyped DEF InPlaceInv, TypeOK, HandleAddRoute
  <2>2. /\ sm' = [sm EXCEPT ![s] = SM!SwitchSender(sm[s])] /\ local' = local
        /\ ids' = ids \cup {s} /\ acks' = acks \cup {s}
    BY <1>8, <2>1 DEF HandleAddRoute
  <2>3. ASSUME NEW r \in acks', r # s
        PROVE  r \in acks /\ sm'[r] = sm[r]
    BY <1>0, <2>2, <2>3, TrackedTypes
  <2>4. QED
    BY <2>2, <2>3 DEF IdsThere
<1>9. CASE HandleShutdown \/ DropQueue \/ DropSubReceiverSet
  BY <1>9 DEF HandleShutdown, DropQueue, DropSubReceiverSet, Running
<1>10. QED
  BY <1>2, <1>3, <1>4, <1>5, <1>6, <1>7, <1>8, <1>9 DEF Next, Run

\* Neither the call of shutdown nor the end of the owner is undone.
LEMMA ReasonsStay ==
  ASSUME [Next]_vars
  PROVE  (stop # "no" => stop' # "no") /\ (ownerLeft => ownerLeft')
<1> USE DEF proxyVars, demuxVars, routerVars, clientVars
<1>1. CASE \E r \in Routes :
             \/ SubChannel(r) \/ AddRoute(r) \/ Send(r) \/ Drop(r) \/ Lend(r) \/ Borrow(r)
             \/ Lose(r) \/ Return(r)
  BY <1>1 DEF SubChannel, AddRoute, SendRoute, SendWakeup, AwaitAck, Fail, Send, Drop, Lend,
              Borrow, Lose, Return
<1>2. CASE Shutdown \/ Stop \/ OwnerLeaves \/ UNCHANGED vars
  BY <1>2 DEF Shutdown, Stop, SendShutdown, Join, OwnerLeaves, vars
<1>3. CASE Run
  BY <1>3 DEF Run, Select, EndBatch, TimeOut, Poll, Receive, HandleAddRoute, HandleShutdown,
              HandleMessage, HandleClosed, DropQueue, DropSubReceiverSet
<1>4. QED
  BY <1>1, <1>2, <1>3 DEF Next

LEMMA ShutdownAskedStep ==
  ASSUME InPlaceInv, ShutdownAsked, [Next]_vars
  PROVE  ShutdownAsked'
<1> USE DEF proxyVars, demuxVars, routerVars, clientVars
<1>0. msgs \in Seq(Routes \cup {Stopper})
  BY DEF InPlaceInv, TypeOK
<1>1. CASE msgs' = msgs
  BY <1>1, ReasonsStay DEF ShutdownAsked
<1>2. CASE msgs' = <<>>
  BY <1>2 DEF ShutdownAsked
<1>3. CASE msgs # <<>> /\ msgs' = Tail(msgs)
  BY <1>0, <1>3, ReasonsStay, TailIndexed DEF ShutdownAsked
<1>4. ASSUME NEW r \in Routes, msgs' = Append(msgs, r)
      PROVE  ShutdownAsked'
  <2>1. r # Stopper
    BY RouterAssumption
  <2>2. QED
    BY <1>0, <1>4, <2>1, ReasonsStay, AppendIndexed DEF ShutdownAsked
<1>5. CASE stop' = "wait"
  BY <1>5 DEF ShutdownAsked
<1>6. CASE \E r \in Routes :
             \/ SubChannel(r) \/ AddRoute(r) \/ Send(r) \/ Drop(r) \/ Lend(r) \/ Borrow(r)
             \/ Lose(r) \/ Return(r)
  BY <1>1, <1>4, <1>6 DEF SubChannel, AddRoute, SendRoute, SendWakeup, AwaitAck, Fail, Send, Drop,
                          Lend, Borrow, Lose, Return
<1>7. CASE Shutdown \/ Stop \/ OwnerLeaves \/ UNCHANGED vars
  BY <1>1, <1>5, <1>7 DEF Shutdown, Stop, SendShutdown, Join, OwnerLeaves, vars
<1>8. CASE Run
  BY <1>1, <1>2, <1>3, <1>8
     DEF Run, Select, EndBatch, TimeOut, Poll, Receive, HandleAddRoute, HandleShutdown,
         HandleMessage, HandleClosed, DropQueue, DropSubReceiverSet
<1>9. QED
  BY <1>6, <1>7, <1>8 DEF Next

\* select has an id for each event.
LEMMA NoIdMissing ==
  ASSUME InPlaceInv, EventsHandled, Orderly, IdsThere, router = "select"
  PROVE  ~IdMissing(local)
<1>1. SUFFICES ASSUME NEW i \in DOMAIN local, local[i] # Wakeup,
                      \/ local[i].route \notin ids
                      \/ \E j \in 1 .. i - 1 : local[j] = Closed(local[i].route)
               PROVE  FALSE
  BY DEF IdMissing
<1>2. local \in Seq(Events) /\ local[i] \in Events /\ events = <<>> /\ acks \subseteq Routes
  BY DEF InPlaceInv, TypeOK, EventsHandled
<1>3. PICK r \in Routes : r = local[i].route /\ (i \in DataOf(r, local) \/ local[i] = Closed(r))
  BY <1>1, <1>2 DEF Events, DataOf, Closed
<1>4. OrderlyIn(r, <<>>, local, acks, switched, sm[r].maybe, handlers)
  BY <1>2 DEF Orderly
<1>5. r \in acks
  BY <1>3, <1>4 DEF OrderlyIn, Has
<1>6. ~sm[r].maybe => ClosedBehind(r, local)
  BY <1>4 DEF OrderlyIn, ClosedLastIn
<1>7. sm[r].maybe \/ Has(local, Closed(r))
  BY <1>3, <1>6 DEF ClosedBehind, Has
<1>8. r \in ids
  BY <1>5, <1>7 DEF IdsThere
<1>9. PICK j \in 1 .. i - 1 : local[j] = Closed(r)
  BY <1>1, <1>3, <1>8
<1>10. j \in DOMAIN local /\ j < i
  BY <1>2, <1>9
<1>11. Once(local, Closed(r)) /\ ~sm[r].maybe
  BY <1>4, <1>9, <1>10 DEF OrderlyIn, ClosedLastIn, Has
<1>12. i \in DataOf(r, local)
  BY <1>3, <1>9, <1>10, <1>11 DEF Once
<1>13. PICK h \in DOMAIN local : i < h /\ local[h] = Closed(r)
  BY <1>6, <1>11, <1>12 DEF ClosedBehind
<1>14. h = j
  BY <1>9, <1>10, <1>11, <1>13 DEF Once
<1>15. QED
  BY <1>2, <1>10, <1>13, <1>14

\* Nothing else makes the demultiplexing of a message fail than that its subsender
\* cannot be used any more.
LEMMA ReceiveSucceeds ==
  ASSUME InPlaceInv, Running, Tracked, NEW k \in IpcChannels, Receive(k), ~Running'
  PROVE  ownerLeft
<1>1. k \in Channels
  BY DEF Receive, Running, IpcChannels
<1>2. /\ ipc[k] \in Seq(Messages) /\ ipc[k] # <<>> /\ Demultiplex(Head(ipc[k]))
  <2>1. k # WakeupChannel /\ ipc[k] \in Seq(Messages)
    BY <1>1, ChannelQueue DEF InPlaceInv
  <2>2. QED
    BY <2>1 DEF Receive
<1>3. PICK m \in Messages : m = Head(ipc[k]) /\ m = ipc[k][1] /\ 1 \in DOMAIN ipc[k]
  BY <1>2, TailIndexed
<1>4. m.route \in Routes /\ Of[m.route] = k /\ at[m.route] = "routed"
  BY <1>1, <1>3, MessagesTyped DEF InPlaceInv, UsedWhenRouted
<1>5. m.route \in switched
  BY <1>4 DEF InPlaceInv, CallsAnswered, AcknowledgedInPlace
<1>6. sm[m.route].maybe
  <2>1. PICK r \in Routes : r = m.route /\ Of[r] = k
    BY <1>4
  <2>2. PICK c \in Seq(Messages) : c = ipc[k] /\ \E i \in DOMAIN c : c[i].route = r
    BY <1>2, <1>3, <2>1
  <2>3. TrackedIn(r, c, Keepers, copy[r], sm[r])
    BY <2>1, <2>2 DEF Tracked
  <2>4. sm[r].maybe
    BY <2>2, <2>3, NotTaken
  <2>5. QED
    BY <2>1, <2>4
<1>7. m.type = "Data" /\ DataRefused(m)
  BY <1>2, <1>3, <1>5, Zenon DEF Demultiplex, Running
<1>8. QED
  BY <1>6, <1>7 DEF DataRefused

LEMMA EndsStep ==
  ASSUME InPlaceInv, EventsHandled, Running, ~Running', Orderly, Tracked, IdsThere, ShutdownAsked,
         [Next]_vars
  PROVE  stop' # "no" \/ ownerLeft'
<1> USE DEF proxyVars, demuxVars, routerVars, clientVars
<1>1. CASE \E k \in IpcChannels : Receive(k)
  BY <1>1, ReceiveSucceeds, ReasonsStay
<1>2. CASE Select
  <2>1. router = "select" /\ (IdMissing(local) \/ router' \in {"ipc", "events"})
    BY <1>2 DEF Select
  <2>2. QED
    BY <2>1, NoIdMissing DEF Running
<1>3. CASE HandleShutdown
  <2>1. msgs # <<>> /\ Head(msgs) = Stopper /\ msgs \in Seq(Routes \cup {Stopper})
    BY <1>3 DEF HandleShutdown, InPlaceInv, TypeOK
  <2>2. 1 \in DOMAIN msgs /\ msgs[1] = Stopper
    BY <2>1, TailIndexed
  <2>3. QED
    BY <2>2, ReasonsStay DEF ShutdownAsked
<1>4. CASE \/ EndBatch \/ TimeOut \/ Poll \/ HandleAddRoute \/ HandleMessage \/ HandleClosed
           \/ DropQueue \/ DropSubReceiverSet
  BY <1>4 DEF EndBatch, TimeOut, Poll, HandleAddRoute, HandleMessage, HandleClosed, NextEvent,
              DropQueue, DropSubReceiverSet, Running
<1>5. CASE \E r \in Routes :
             \/ SubChannel(r) \/ AddRoute(r) \/ Send(r) \/ Drop(r) \/ Lend(r) \/ Borrow(r)
             \/ Lose(r) \/ Return(r)
  BY <1>5 DEF SubChannel, AddRoute, SendRoute, SendWakeup, AwaitAck, Fail, Send, Drop, Lend,
              Borrow, Lose, Return, Running
<1>6. CASE Shutdown \/ Stop \/ OwnerLeaves \/ UNCHANGED vars
  BY <1>6 DEF Shutdown, Stop, SendShutdown, Join, OwnerLeaves, vars, Running
<1>7. QED
  BY <1>1, <1>2, <1>3, <1>4, <1>5, <1>6 DEF Next, Run

LEMMA EndInvStep ==
  ASSUME InPlaceInv, EventsHandled, DeliveryInv, EndInv, Exiting = {}, [Next]_vars
  PROVE  EndInv'
<1>1. CASE Running'
  <2>1. Running
    BY <1>1, EndIsFinal
  <2>2. RoutesQueued /\ Orderly /\ Tracked /\ IdsThere /\ ShutdownAsked
    BY <2>1 DEF DeliveryInv, EndInv
  <2>3. Tracked' /\ IdsThere' /\ ShutdownAsked'
    BY <1>1, <2>1, <2>2, TrackedStep, IdsThereStep, ShutdownAskedStep
  <2>4. QED
    BY <1>1, <2>3 DEF EndInv, EndsForAReason
<1>2. CASE ~Running'
  <2>1. CASE Running
    <3>1. Orderly /\ Tracked /\ IdsThere /\ ShutdownAsked
      BY <2>1 DEF DeliveryInv, EndInv
    <3>2. stop' # "no" \/ ownerLeft'
      BY <1>2, <2>1, <3>1, EndsStep
    <3>3. QED
      BY <1>2, <3>2 DEF EndInv, EndsForAReason
  <2>2. CASE ~Running
    BY <1>2, <2>2, ReasonsStay DEF EndInv, EndsForAReason
  <2>3. QED
    BY <2>1, <2>2
<1>3. QED
  BY <1>1, <1>2

LEMMA EndInvInit == Init => EndInv
<1>1. SUFFICES ASSUME Init PROVE EndInv
  OBVIOUS
<1>2. Running /\ acks = {} /\ msgs = <<>>
  BY <1>1 DEF Init, Running
<1>3. ASSUME NEW r \in Routes
      PROVE  TrackedIn(r, ipc[Of[r]], Keepers, copy[r], sm[r])
  <2>1. ipc[Of[r]] = <<>> /\ copy[r] = "none" /\ sm[r] = SM!New(Origin) /\ r \in Keepers
    BY <1>1, ChannelTyped DEF Init, Keepers
  <2>2. PICK x : x = SM!New(Origin)
    OBVIOUS
  <2>3. x.sources = {Origin} /\ x.inFlight[Via] = 0 /\ x.maybe
    BY <2>2 DEF SM!New
  <2>4. PICK K : K = Keepers
    OBVIOUS
  <2>5. ReportsInOrder(r, <<>>) /\ OriginTracked(r, <<>>, K, x)
    BY <2>1, <2>3, <2>4 DEF ReportsInOrder, Once, Before, OriginTracked, Has
  <2>6. /\ ~Has(<<>>, Sending(r)) /\ ~Has(<<>>, Received(r)) /\ ~Has(<<>>, Disconnect(r, Remote))
        /\ Remote \notin x.sources
    BY <2>3, EmptyHas, RouterAssumption
  <2>7. CopyTracked("none", Has(<<>>, Sending(r)), Has(<<>>, Received(r)),
                    Has(<<>>, Disconnect(r, Remote)), Remote \in x.sources, x.inFlight[Via])
    BY <2>3, <2>6 DEF CopyTracked
  <2>8. Covered(r, <<>>, K, "none") /\ TakenWhenVacant(x)
    BY <2>3 DEF Covered, DataOf, TakenWhenVacant
  <2>9. TrackedIn(r, <<>>, K, "none", x)
    BY <2>5, <2>7, <2>8 DEF TrackedIn
  <2>10. QED
    BY <2>1, <2>2, <2>4, <2>9
<1>4. QED
  BY <1>2, <1>3 DEF EndInv, EndsForAReason, Tracked, IdsThere, ShutdownAsked

\* What is tracked, when no process exits with a copy.
LEMMA EndInvAlways ==
  ASSUME Exiting = {}
  PROVE  Spec => []EndInv
<1>1. Init => EndInv
  BY EndInvInit
<1>2. InPlaceInv /\ WakeupInv /\ DeliveryInv /\ EndInv /\ [Next]_vars => EndInv'
  BY EndInvStep DEF WakeupInv
<1>3. Spec => [](InPlaceInv /\ WakeupInv /\ DeliveryInv)
  <2>1. Spec => []WakeupInv
    BY InPlaceAlways, WakeupInvInit, WakeupInvStep, PTL DEF Spec
  <2>2. QED
    BY <2>1, InPlaceAlways, DeliveryAlways, PTL
<1>4. QED
  BY <1>1, <1>2, <1>3, PTL DEF Spec

\* When no process exits with a copy of a subsender, nothing ends the router thread
\* but a call of shutdown, or a message whose subsender cannot be used any more: it is
\* not ended by a message for a subchannel whose sender was taken, nor by an event for
\* a subreceiver without an id (Router::run breaks out of its loop when select fails).
THEOREM EndsOnlyForAReason ==
  ASSUME Exiting = {}
  PROVE  Spec => []EndsForAReason
<1>1. EndInv => EndsForAReason
  BY DEF EndInv
<1>2. QED
  BY <1>1, EndInvAlways, PTL

\* Then a handler is removed only when nobody has a subsender of the route any more and
\* all its messages have been handled (Router::run: "Remove handler once channel
\* closes").
THEOREM RemovedOnlyWhenOver ==
  ASSUME Exiting = {}
  PROVE  Spec => []RemovedWhenOver
<1>1. ASSUME InPlaceInv, DeliveryInv, EndInv
      PROVE  RemovedWhenOver
  <2>1. SUFFICES ASSUME NEW r \in Routes, Running, at[r] = "routed", r \notin handlers
                 PROVE  ~SenderLeft(r) /\ handled[r] = sent[r]
    BY DEF RemovedWhenOver
  <2>2. /\ OrderlyIn(r, events, local, acks, switched, sm[r].maybe, handlers)
        /\ TrackedIn(r, ipc[Of[r]], Keepers, copy[r], sm[r])
        /\ NumberedIn(r, events, local, ipc[Of[r]], handled[r], sent[r])
    BY <1>1, <2>1 DEF DeliveryInv, EndInv, Orderly, Tracked, Numbered
  <2>3. r \in acks
    BY <1>1, <2>1 DEF InPlaceInv, CallsAnswered
  <2>4. ~sm[r].maybe /\ ~Has(local, Closed(r)) /\ ~Has(events, Closed(r))
    BY <2>1, <2>2, <2>3 DEF OrderlyIn
  <2>5. DataOf(r, events) = {} /\ DataOf(r, local) = {}
    BY <2>2, <2>4 DEF OrderlyIn, ClosedLastIn, ClosedBehind, Has
  <2>6. /\ ~(r \in Keepers \/ copy[r] \in {"sent", "held"})
        /\ \A i \in DOMAIN ipc[Of[r]] : ipc[Of[r]][i].route # r
    BY <1>1, <2>2, <2>4, NotTaken, TrackedTypes
  <2>7. ~SenderLeft(r)
    BY <2>6 DEF SenderLeft, Keepers
  <2>8. DataOf(r, ipc[Of[r]]) = {}
    BY <2>6 DEF DataOf
  <2>9. handled[r] + 1 .. sent[r] = {} /\ handled[r] <= sent[r]
    BY <2>2, <2>5, <2>8 DEF NumberedIn, NumbersOf
  <2>10. handled[r] \in Nat /\ sent[r] \in Nat
    BY <1>1 DEF InPlaceInv, TypeOK
  <2>11. handled[r] = sent[r]
    <3>1. handled[r] < sent[r] => sent[r] \in handled[r] + 1 .. sent[r]
      BY <2>10
    <3>2. QED
      BY <2>9, <2>10, <3>1
  <2>12. QED
    BY <2>7, <2>11
<1>2. QED
  BY <1>1, InPlaceAlways, DeliveryAlways, EndInvAlways, PTL
===============================================================================
