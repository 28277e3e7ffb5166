---------------------------- MODULE OneShotProofs ----------------------------
(***************************************************************************)
(* Proofs about OneShot, for any threads and any messages: serialization   *)
(* and deserialization, item by item, and the invariants of the protocol.  *)
(***************************************************************************)
EXTENDS OneShot, FiniteSetTheorems, WellFoundedInduction, TLAPS

-----------------------------------------------------------------------------
(* Induction.  A least counterexample takes the place of an induction over *)
(* a formula.                                                              *)

LEMMA Least ==
  ASSUME NEW T \in SUBSET Nat, T # {}
  PROVE  \E n \in T : \A m \in T : n <= m
<1>1. PICK n \in T : \A m \in T : ~(<<m, n>> \in OpToRel(<, Nat))
  BY NatLessThanWellFounded, WFMin, Zenon
<1>2. \A m \in T : ~(m < n)
  BY <1>1 DEF OpToRel
<1>3. QED
  BY <1>2

LEMMA Induct ==
  ASSUME NEW T, 0 \in T, \A n \in Nat : n \in T => n + 1 \in T
  PROVE  Nat \subseteq T
<1>1. SUFFICES ASSUME Nat \ T # {} PROVE FALSE
  OBVIOUS
<1>2. PICK n \in Nat \ T : \A m \in Nat \ T : n <= m
  BY <1>1, Least
<1>3. n > 0
  BY <1>2
<1>4. n - 1 \in Nat /\ ~(n <= n - 1)
  BY <1>3
<1>5. n - 1 \in T
  BY <1>2, <1>4
<1>6. QED
  BY <1>4, <1>5

\* Up to a number only.
LEMMA InductUpTo ==
  ASSUME NEW l \in Nat, NEW T, 0 \in T, \A n \in 1 .. l : n - 1 \in T => n \in T
  PROVE  0 .. l \subseteq T
<1>1. PICK U : U = {n \in Nat : n <= l => n \in T}
  OBVIOUS
<1>2. \A n \in Nat : n \in U => n + 1 \in U
  BY <1>1
<1>3. Nat \subseteq U
  BY <1>1, <1>2, Induct
<1>4. QED
  BY <1>1, <1>3

\* And downwards.
LEMMA InductDown ==
  ASSUME NEW l \in Nat, NEW T, l \in T, \A n \in 1 .. l : n \in T => n - 1 \in T
  PROVE  0 .. l \subseteq T
<1>1. PICK U : U = {n \in Nat : n <= l => l - n \in T}
  OBVIOUS
<1>2. \A n \in Nat : n \in U => n + 1 \in U
  <2>1. ASSUME NEW n \in Nat, n \in U, n + 1 <= l PROVE l - (n + 1) \in T
    <3>1. l - n \in T /\ l - n \in 1 .. l /\ (l - n) - 1 = l - (n + 1)
      BY <1>1, <2>1
    <3>2. QED
      BY <3>1
  <2>2. QED
    BY <1>1, <2>1
<1>3. Nat \subseteq U
  <2>1. l - 0 = l
    OBVIOUS
  <2>2. 0 \in U
    BY <1>1, <2>1
  <2>3. QED
    BY <1>2, <2>2, Induct
<1>4. ASSUME NEW n \in 0 .. l PROVE n \in T
  <2>1. l - n \in U /\ l - n <= l /\ l - (l - n) = n
    BY <1>3
  <2>2. QED
    BY <1>1, <2>1
<1>5. QED
  BY <1>4

-----------------------------------------------------------------------------
(* The loops of serialization and deserialization.                         *)

StartWriting(before) ==
  [payload |-> <<>>, lists |-> before, wrapped |-> wrapped, failed |-> FALSE]

StartReading(m) ==
  [body |-> <<>>, lists |-> [k \in Kinds |-> Options(m.handles[k])], failed |-> FALSE]

\* The progress of serialization after n items.
Writes(f, body, before, n) ==
  f = [i \in 0 .. n |-> IF i = 0 THEN StartWriting(before) ELSE Write(f[i - 1], body[i])]

\* The progress of deserialization after n items.
Reads(f, m, n) ==
  f = [i \in 0 .. n |-> IF i = 0 THEN StartReading(m) ELSE Read(f[i - 1], m.payload[i])]

\* Serialization starts with the lists, and writes item by item.
LEMMA WritingSteps ==
  ASSUME NEW body, Len(body) \in Nat, NEW before
  PROVE  /\ Writing(body, before)[0] = StartWriting(before)
         /\ \A n \in 1 .. Len(body) :
              Writing(body, before)[n] = Write(Writing(body, before)[n - 1], body[n])
<1>1. PICK T : T = {n \in Nat : \E f : Writes(f, body, before, n)}
  OBVIOUS
<1>2. 0 \in T
  <2>1. PICK f : f = [i \in 0 .. 0 |-> StartWriting(before)]
    OBVIOUS
  <2>2. Writes(f, body, before, 0)
    BY <2>1 DEF Writes
  <2>3. QED
    BY <1>1, <2>2
<1>3. ASSUME NEW n \in Nat, n \in T PROVE n + 1 \in T
  <2>1. PICK f : Writes(f, body, before, n)
    BY <1>1, <1>3
  <2>2. PICK g : g = [i \in 0 .. n + 1 |-> IF i <= n THEN f[i] ELSE Write(f[n], body[n + 1])]
    OBVIOUS
  <2>3. ASSUME NEW i \in 0 .. n + 1
        PROVE  g[i] = IF i = 0 THEN StartWriting(before) ELSE Write(g[i - 1], body[i])
    <3>1. CASE i \in 0 .. n
      <4>1. g[i] = f[i] /\ (i # 0 => g[i - 1] = f[i - 1])
        BY <2>2, <3>1
      <4>2. f[i] = IF i = 0 THEN StartWriting(before) ELSE Write(f[i - 1], body[i])
        BY <2>1, <3>1 DEF Writes
      <4>3. QED
        BY <4>1, <4>2
    <3>2. CASE i = n + 1
      <4>1. g[i] = Write(f[n], body[i]) /\ g[n] = f[n] /\ i # 0 /\ i - 1 = n
        BY <2>2, <3>2
      <4>2. QED
        BY <4>1
    <3>3. QED
      BY <3>1, <3>2
  <2>4. Writes(g, body, before, n + 1)
    BY <2>2, <2>3 DEF Writes
  <2>5. QED
    BY <1>1, <2>4
<1>4. \E f : Writes(f, body, before, Len(body))
  BY <1>1, <1>2, <1>3, Induct
<1>5. Writing(body, before) = CHOOSE f : Writes(f, body, before, Len(body))
  BY DEF Writing, Writes, StartWriting
<1>6. Writes(Writing(body, before), body, before, Len(body))
  BY <1>4, <1>5
<1>7. PICK f : f = Writing(body, before)
  OBVIOUS
<1>8. f[0] = StartWriting(before) /\ \A n \in 1 .. Len(body) : f[n] = Write(f[n - 1], body[n])
  BY <1>6, <1>7 DEF Writes
<1>9. QED
  BY <1>7, <1>8

\* Deserialization starts with the handles of the message, and reads item by item.
LEMMA ReadingSteps ==
  ASSUME NEW m, Len(m.payload) \in Nat
  PROVE  /\ Reading(m)[0] = StartReading(m)
         /\ \A n \in 1 .. Len(m.payload) : Reading(m)[n] = Read(Reading(m)[n - 1], m.payload[n])
<1>1. PICK T : T = {n \in Nat : \E f : Reads(f, m, n)}
  OBVIOUS
<1>2. 0 \in T
  <2>1. PICK f : f = [i \in 0 .. 0 |-> StartReading(m)]
    OBVIOUS
  <2>2. Reads(f, m, 0)
    BY <2>1 DEF Reads
  <2>3. QED
    BY <1>1, <2>2
<1>3. ASSUME NEW n \in Nat, n \in T PROVE n + 1 \in T
  <2>1. PICK f : Reads(f, m, n)
    BY <1>1, <1>3
  <2>2. PICK g : g = [i \in 0 .. n + 1 |-> IF i <= n THEN f[i] ELSE Read(f[n], m.payload[n + 1])]
    OBVIOUS
  <2>3. ASSUME NEW i \in 0 .. n + 1
        PROVE  g[i] = IF i = 0 THEN StartReading(m) ELSE Read(g[i - 1], m.payload[i])
    <3>1. CASE i \in 0 .. n
      <4>1. g[i] = f[i] /\ (i # 0 => g[i - 1] = f[i - 1])
        BY <2>2, <3>1
      <4>2. f[i] = IF i = 0 THEN StartReading(m) ELSE Read(f[i - 1], m.payload[i])
        BY <2>1, <3>1 DEF Reads
      <4>3. QED
        BY <4>1, <4>2
    <3>2. CASE i = n + 1
      <4>1. g[i] = Read(f[n], m.payload[i]) /\ g[n] = f[n] /\ i # 0 /\ i - 1 = n
        BY <2>2, <3>2
      <4>2. QED
        BY <4>1
    <3>3. QED
      BY <3>1, <3>2
  <2>4. Reads(g, m, n + 1)
    BY <2>2, <2>3 DEF Reads
  <2>5. QED
    BY <1>1, <2>4
<1>4. \E f : Reads(f, m, Len(m.payload))
  BY <1>1, <1>2, <1>3, Induct
<1>5. Reading(m) = CHOOSE f : Reads(f, m, Len(m.payload))
  BY DEF Reading, Reads, StartReading
<1>6. Reads(Reading(m), m, Len(m.payload))
  BY <1>4, <1>5
<1>7. PICK f : f = Reading(m)
  OBVIOUS
<1>8. f[0] = StartReading(m) /\ \A n \in 1 .. Len(m.payload) : f[n] = Read(f[n - 1], m.payload[n])
  BY <1>6, <1>7 DEF Reads
<1>9. QED
  BY <1>7, <1>8

-----------------------------------------------------------------------------
(* One item more is written.                                               *)

Entries == [kind : Kinds, id : Handles, index : Nat]

Lists == [Kinds -> Seq(Handles)]

Written == [payload : Seq(Entries), lists : Lists, wrapped : SUBSET Handles, failed : BOOLEAN]

\* Nothing but the failure is new.
Stuck(p, q) == q.failed /\ q.payload = p.payload /\ q.lists = p.lists /\ q.wrapped = p.wrapped

\* The entry of the item, and its handle at the end of the list of its kind.
Added(p, item, q) ==
  LET entry == [kind |-> item.kind, id |-> item.handle, index |-> Len(p.lists[item.kind]) + 1]
  IN  /\ ~p.failed /\ ~q.failed /\ q.payload = Append(p.payload, entry)
      /\ q.lists[item.kind] = Append(p.lists[item.kind], item.handle)
      /\ \A k \in Kinds \ {item.kind} : q.lists[k] = p.lists[k]
      /\ item.kind # "receiver" => q.wrapped = p.wrapped
      /\ item.kind = "receiver" => item.handle \in p.wrapped /\ q.wrapped = p.wrapped \ {item.handle}

LEMMA WriteCases ==
  ASSUME NEW p \in Written, NEW item \in Items, NEW q, q = Write(p, item)
  PROVE  q \in Written /\ (Stuck(p, q) \/ Added(p, item, q))
<1>1. /\ p.payload \in Seq(Entries) /\ p.lists \in Lists /\ p.wrapped \subseteq Handles
      /\ p.failed \in BOOLEAN /\ item.kind \in Kinds /\ item.handle \in Handles
  BY DEF Written, Items
<1>2. CASE q = Failed(p)
  BY <1>1, <1>2 DEF Failed, Written, Stuck
<1>3. CASE q # Failed(p)
  <2>1. PICK list : list = p.lists[item.kind]
    OBVIOUS
  <2>2. list \in Seq(Handles) /\ Append(list, item.handle) \in Seq(Handles) /\ Len(list) + 1 \in Nat
    BY <1>1, <2>1 DEF Lists
  <2>3. PICK entry : entry = [kind |-> item.kind, id |-> item.handle, index |-> Len(list) + 1]
    OBVIOUS
  <2>4. entry \in Entries /\ Append(p.payload, entry) \in Seq(Entries)
    BY <1>1, <2>2, <2>3 DEF Entries
  <2>5. PICK lists2 : lists2 = [p.lists EXCEPT ![item.kind] = Append(list, item.handle)]
    OBVIOUS
  <2>6. /\ lists2 \in Lists /\ lists2[item.kind] = Append(list, item.handle)
        /\ \A k \in Kinds \ {item.kind} : lists2[k] = p.lists[k]
    BY <1>1, <2>2, <2>5 DEF Lists
  <2>7. PICK left : left = IF item.kind = "receiver" THEN p.wrapped \ {item.handle} ELSE p.wrapped
    OBVIOUS
  <2>8. ~p.failed /\ (item.kind = "receiver" => item.handle \in p.wrapped)
    BY <1>3 DEF Write
  <2>9. q = [p EXCEPT !.payload = Append(p.payload, entry), !.lists = lists2, !.wrapped = left]
    BY <1>3, <2>1, <2>3, <2>5, <2>7 DEF Write
  <2>10. /\ q \in Written /\ q.payload = Append(p.payload, entry) /\ q.lists = lists2
         /\ q.wrapped = left /\ q.failed = p.failed
    <3>1. q = [payload |-> Append(p.payload, entry), lists |-> lists2, wrapped |-> left,
               failed |-> p.failed]
      BY <2>9 DEF Written
    <3>2. left \in SUBSET Handles
      BY <1>1, <2>7
    <3>3. q \in Written
      BY <1>1, <2>4, <2>6, <3>1, <3>2 DEF Written
    <3>4. QED
      BY <3>1, <3>3
  <2>11. Added(p, item, q)
    BY <2>1, <2>3, <2>6, <2>7, <2>8, <2>10 DEF Added
  <2>12. QED
    BY <2>10, <2>11
<1>4. QED
  BY <1>2, <1>3

LEMMA AppendFacts ==
  ASSUME NEW S, NEW s \in Seq(S), NEW x \in S, NEW t, t = Append(s, x)
  PROVE  /\ t \in Seq(S) /\ Len(s) \in Nat /\ Len(t) = Len(s) + 1
         /\ DOMAIN s = 1 .. Len(s) /\ DOMAIN t = 1 .. Len(s) + 1
         /\ \A i \in 1 .. Len(s) : t[i] = s[i]
         /\ t[Len(s) + 1] = x
OBVIOUS

LEMMA AppendContains ==
  ASSUME NEW S, NEW s \in Seq(S), NEW x \in S, NEW h
  PROVE  Contains(Append(s, x), h) <=> Contains(s, h) \/ h = x
<1>1. PICK t \in Seq(S) : t = Append(s, x)
  BY AppendFacts
<1>2. /\ Len(s) \in Nat /\ Len(t) = Len(s) + 1 /\ t[Len(s) + 1] = x
      /\ \A i \in 1 .. Len(s) : t[i] = s[i]
  BY <1>1, AppendFacts
<1>3. Contains(t, h) => Contains(s, h) \/ h = x
  BY <1>2 DEF Contains
<1>4. Contains(s, h) \/ h = x => Contains(t, h)
  BY <1>2 DEF Contains
<1>5. QED
  BY <1>1, <1>3, <1>4

\* The course of the serialization of a body.
Course(f, body) ==
  /\ f[0] = StartWriting(NoHandles)
  /\ \A n \in 0 .. Len(body) : f[n] \in Written
  /\ \A n \in 1 .. Len(body) : Stuck(f[n - 1], f[n]) \/ Added(f[n - 1], body[n], f[n])

LEMMA StartWritten ==
  ASSUME wrapped \subseteq Handles
  PROVE  StartWriting(NoHandles) \in Written
<1>1. NoHandles \in Lists
  BY DEF NoHandles, Lists
<1>2. QED
  BY <1>1 DEF StartWriting, Written

LEMMA WritingCourse ==
  ASSUME wrapped \subseteq Handles, NEW body \in Seq(Items)
  PROVE  Course(Writing(body, NoHandles), body)
<1>1. PICK f : f = Writing(body, NoHandles)
  OBVIOUS
<1>2. PICK l \in Nat : l = Len(body)
  OBVIOUS
<1>3. f[0] = StartWriting(NoHandles) /\ \A n \in 1 .. l : f[n] = Write(f[n - 1], body[n])
  BY <1>1, <1>2, WritingSteps
<1>4. PICK T : T = {n \in Nat : f[n] \in Written}
  OBVIOUS
<1>5. 0 \in T
  BY <1>3, <1>4, StartWritten
<1>6. \A n \in 1 .. l : body[n] \in Items
  BY <1>2
<1>7. \A n \in 1 .. l : n - 1 \in T => n \in T
  BY <1>3, <1>4, <1>6, WriteCases
<1>8. \A n \in 0 .. l : f[n] \in Written
  BY <1>4, <1>5, <1>7, InductUpTo
<1>9. ASSUME NEW n \in 1 .. l PROVE Stuck(f[n - 1], f[n]) \/ Added(f[n - 1], body[n], f[n])
  <2>1. n - 1 \in 0 .. l
    OBVIOUS
  <2>2. QED
    BY <1>3, <1>6, <1>8, <2>1, WriteCases
<1>10. QED
  BY <1>1, <1>2, <1>3, <1>8, <1>9 DEF Course

\* Raw receivers are moved from their wrappers into the list.
Moved(p) ==
  /\ p.wrapped \subseteq wrapped
  /\ \A h : Contains(p.lists["receiver"], h) => h \in wrapped \ p.wrapped

LEMMA CourseMoved ==
  ASSUME NEW body \in Seq(Items), NEW f, Course(f, body)
  PROVE  \A n \in 0 .. Len(body) : Moved(f[n])
<1>1. PICK T : T = {n \in Nat : Moved(f[n])}
  OBVIOUS
<1>2. PICK l \in Nat : l = Len(body)
  OBVIOUS
<1>3. 0 \in T
  <2>1. f[0] = StartWriting(NoHandles)
    BY DEF Course
  <2>2. f[0].wrapped = wrapped /\ f[0].lists["receiver"] = <<>>
    BY <2>1 DEF StartWriting, NoHandles, Kinds
  <2>3. \A h : ~Contains(<<>>, h)
    BY DEF Contains
  <2>4. QED
    BY <1>1, <2>2, <2>3 DEF Moved
<1>4. ASSUME NEW n \in 1 .. l, n - 1 \in T PROVE n \in T
  <2>1. PICK p \in Written, q \in Written : p = f[n - 1] /\ q = f[n]
    BY <1>2 DEF Course
  <2>2. Moved(p) /\ body[n] \in Items
    BY <1>1, <1>2, <1>4, <2>1
  <2>3. CASE Stuck(p, q)
    BY <1>1, <2>1, <2>2, <2>3 DEF Moved, Stuck
  <2>4. CASE Added(p, body[n], q)
    <3>1. PICK item \in Items : item = body[n]
      BY <2>2
    <3>2. item.kind \in Kinds /\ item.handle \in Handles
      BY DEF Items
    <3>3. p.lists["receiver"] \in Seq(Handles)
      BY DEF Written, Lists, Kinds
    <3>4. CASE item.kind = "receiver"
      <4>1. /\ q.lists["receiver"] = Append(p.lists["receiver"], item.handle)
            /\ item.handle \in p.wrapped /\ q.wrapped = p.wrapped \ {item.handle}
        BY <2>4, <3>1, <3>4 DEF Added
      <4>2. \A h : Contains(q.lists["receiver"], h)
                    => Contains(p.lists["receiver"], h) \/ h = item.handle
        BY <3>2, <3>3, <4>1, AppendContains
      <4>3. Moved(q)
        BY <2>2, <4>1, <4>2 DEF Moved
      <4>4. QED
        BY <1>1, <2>1, <4>3
    <3>5. CASE item.kind # "receiver"
      <4>1. "receiver" \in Kinds
        BY DEF Kinds
      <4>2. q.lists["receiver"] = p.lists["receiver"] /\ q.wrapped = p.wrapped
        BY <2>4, <3>1, <3>5, <4>1 DEF Added
      <4>3. QED
        BY <1>1, <2>1, <2>2, <4>2 DEF Moved
    <3>6. QED
      BY <3>4, <3>5
  <2>5. QED
    BY <1>2, <2>1, <2>3, <2>4 DEF Course
<1>5. 0 .. l \subseteq T
  BY <1>3, <1>4, InductUpTo
<1>6. QED
  BY <1>1, <1>2, <1>5

OfKind(payload, k) == {j \in DOMAIN payload : payload[j].kind = k}

LEMMA OfKindMore ==
  ASSUME NEW n \in Nat, NEW s, NEW t, DOMAIN s = 1 .. n, DOMAIN t = 1 .. n + 1,
         \A i \in 1 .. n : t[i] = s[i], NEW k
  PROVE  /\ t[n + 1].kind = k => Cardinality(OfKind(t, k)) = Cardinality(OfKind(s, k)) + 1
         /\ t[n + 1].kind # k => OfKind(t, k) = OfKind(s, k)
<1>1. PICK A : A = OfKind(s, k)
  OBVIOUS
<1>2. IsFiniteSet(A)
  <2>1. IsFiniteSet(1 .. n)
    BY FS_Interval
  <2>2. A \subseteq 1 .. n
    BY <1>1 DEF OfKind
  <2>3. QED
    BY <2>1, <2>2, FS_Subset
<1>3. ASSUME t[n + 1].kind = k PROVE Cardinality(OfKind(t, k)) = Cardinality(A) + 1
  <2>1. OfKind(t, k) = A \cup {n + 1} /\ n + 1 \notin A
    BY <1>1, <1>3 DEF OfKind
  <2>2. Cardinality(A \cup {n + 1}) = Cardinality(A) + 1
    BY <1>2, <2>1, FS_AddElement
  <2>3. QED
    BY <2>1, <2>2
<1>4. ASSUME t[n + 1].kind # k PROVE OfKind(t, k) = A
  BY <1>1, <1>4 DEF OfKind
<1>5. QED
  BY <1>1, <1>3, <1>4

\* Unless it has failed, serialization has an entry and a handle for each item,
\* and no handles that are not of these.
Good(p, body, n) ==
  ~p.failed =>
    /\ Len(p.payload) = n
    /\ \A i \in 1 .. n : p.payload[i].kind = body[i].kind /\ p.payload[i].id = body[i].handle
    /\ \A k \in Kinds : Len(p.lists[k]) = Cardinality(OfKind(p.payload, k))
    /\ \A i \in 1 .. n :
         body[i].kind = "receiver" => Contains(p.lists["receiver"], body[i].handle)

LEMMA CourseGood ==
  ASSUME NEW body \in Seq(Items), NEW f, Course(f, body)
  PROVE  \A n \in 0 .. Len(body) : Good(f[n], body, n)
<1>1. PICK T : T = {n \in Nat : Good(f[n], body, n)}
  OBVIOUS
<1>2. PICK l \in Nat : l = Len(body)
  OBVIOUS
<1>3. 0 \in T
  <2>1. f[0] = StartWriting(NoHandles)
    BY DEF Course
  <2>2. f[0].payload = <<>> /\ \A k \in Kinds : f[0].lists[k] = <<>>
    BY <2>1 DEF StartWriting, NoHandles
  <2>3. \A k \in Kinds : OfKind(<<>>, k) = {}
    BY DEF OfKind
  <2>4. \A k \in Kinds : Len(<<>>) = Cardinality(OfKind(<<>>, k))
    BY <2>3, FS_EmptySet
  <2>5. QED
    BY <1>1, <2>2, <2>4 DEF Good
<1>4. ASSUME NEW n \in 1 .. l, n - 1 \in T PROVE n \in T
  <2>1. PICK p \in Written, q \in Written : p = f[n - 1] /\ q = f[n]
    BY <1>2 DEF Course
  <2>2. Good(p, body, n - 1) /\ body[n] \in Items /\ n \in Nat
    BY <1>1, <1>2, <1>4, <2>1
  <2>3. CASE Stuck(p, q)
    BY <1>1, <2>1, <2>2, <2>3 DEF Good, Stuck
  <2>4. CASE Added(p, body[n], q)
    <3>1. PICK item \in Items : item = body[n]
      BY <2>2
    <3>2. item.kind \in Kinds /\ item.handle \in Handles
      BY DEF Items
    <3>3. PICK index : index = Len(p.lists[item.kind]) + 1
      OBVIOUS
    <3>4. PICK entry : entry = [kind |-> item.kind, id |-> item.handle, index |-> index]
      OBVIOUS
    <3>5. /\ ~p.failed /\ q.payload = Append(p.payload, entry)
          /\ q.lists[item.kind] = Append(p.lists[item.kind], item.handle)
          /\ \A k \in Kinds \ {item.kind} : q.lists[k] = p.lists[k]
      BY <2>4, <3>1, <3>3, <3>4 DEF Added
    <3>6. p.payload \in Seq(Entries) /\ \A k \in Kinds : p.lists[k] \in Seq(Handles)
      BY DEF Written, Lists
    <3>7. index \in Nat /\ entry \in Entries
      BY <3>2, <3>3, <3>4, <3>6 DEF Entries
    <3>8. /\ Len(p.payload) = n - 1
          /\ \A i \in 1 .. n - 1 : p.payload[i].kind = body[i].kind /\ p.payload[i].id = body[i].handle
          /\ \A k \in Kinds : Len(p.lists[k]) = Cardinality(OfKind(p.payload, k))
          /\ \A i \in 1 .. n - 1 :
               body[i].kind = "receiver" => Contains(p.lists["receiver"], body[i].handle)
      BY <2>2, <3>5 DEF Good
    <3>9. /\ Len(q.payload) = n /\ q.payload[n] = entry
          /\ \A i \in 1 .. n - 1 : q.payload[i] = p.payload[i]
      <4>1. /\ Len(q.payload) = (n - 1) + 1 /\ q.payload[(n - 1) + 1] = entry
            /\ \A i \in 1 .. n - 1 : q.payload[i] = p.payload[i]
        BY <3>5, <3>6, <3>7, <3>8, AppendFacts
      <4>2. (n - 1) + 1 = n
        BY <2>2
      <4>3. QED
        BY <4>1, <4>2
    <3>10. ASSUME NEW i \in 1 .. n
           PROVE  q.payload[i].kind = body[i].kind /\ q.payload[i].id = body[i].handle
      <4>1. CASE i = n
        BY <3>1, <3>4, <3>9, <4>1
      <4>2. CASE i \in 1 .. n - 1
        BY <3>8, <3>9, <4>2
      <4>3. QED
        BY <2>2, <4>1, <4>2
    <3>11. ASSUME NEW k \in Kinds PROVE Len(q.lists[k]) = Cardinality(OfKind(q.payload, k))
      <4>1. /\ item.kind = k => Cardinality(OfKind(q.payload, k)) = Cardinality(OfKind(p.payload, k)) + 1
            /\ item.kind # k => OfKind(q.payload, k) = OfKind(p.payload, k)
        <5>1. PICK b \in Nat : b = n - 1
          OBVIOUS
        <5>2. PICK s, t : s = p.payload /\ t = q.payload
          OBVIOUS
        <5>3. /\ DOMAIN s = 1 .. b /\ DOMAIN t = 1 .. b + 1 /\ \A i \in 1 .. b : t[i] = s[i]
              /\ t[b + 1] = entry
          BY <3>5, <3>6, <3>7, <3>8, <5>1, <5>2, AppendFacts
        <5>4. entry.kind = item.kind
          BY <3>4
        <5>5. /\ t[b + 1].kind = k => Cardinality(OfKind(t, k)) = Cardinality(OfKind(s, k)) + 1
              /\ t[b + 1].kind # k => OfKind(t, k) = OfKind(s, k)
          BY <5>3, OfKindMore
        <5>6. QED
          BY <5>2, <5>3, <5>4, <5>5
      <4>2. Len(p.lists[k]) \in Nat /\ Len(p.lists[k]) = Cardinality(OfKind(p.payload, k))
        BY <3>6, <3>8
      <4>3. CASE item.kind = k
        <5>1. Len(q.lists[k]) = Len(p.lists[k]) + 1
          BY <3>2, <3>5, <3>6, <4>3, AppendFacts
        <5>2. QED
          BY <4>1, <4>2, <4>3, <5>1
      <4>4. CASE item.kind # k
        <5>1. q.lists[k] = p.lists[k]
          BY <3>5, <4>4
        <5>2. QED
          BY <4>1, <4>2, <4>4, <5>1
      <4>5. QED
        BY <4>3, <4>4
    <3>12. ASSUME NEW i \in 1 .. n, body[i].kind = "receiver"
           PROVE  Contains(q.lists["receiver"], body[i].handle)
      <4>1. "receiver" \in Kinds
        BY DEF Kinds
      <4>2. \A h : Contains(p.lists["receiver"], h) => Contains(q.lists["receiver"], h)
        <5>1. PICK list \in Seq(Handles) : list = p.lists["receiver"]
          BY <3>6, <4>1
        <5>2. q.lists["receiver"] = list \/ q.lists["receiver"] = Append(list, item.handle)
          BY <3>5, <4>1, <5>1
        <5>3. \A h : Contains(list, h) => Contains(Append(list, item.handle), h)
          BY <3>2, AppendContains
        <5>4. QED
          BY <5>1, <5>2, <5>3
      <4>3. CASE i = n
        <5>1. PICK list \in Seq(Handles) : list = p.lists["receiver"]
          BY <3>6, <4>1
        <5>2. item.kind = "receiver" /\ item.handle = body[i].handle
          BY <3>1, <3>12, <4>3
        <5>3. q.lists["receiver"] = Append(list, item.handle)
          BY <3>5, <5>1, <5>2
        <5>4. Contains(Append(list, item.handle), item.handle)
          BY <3>2, AppendContains
        <5>5. QED
          BY <5>2, <5>3, <5>4
      <4>4. CASE i \in 1 .. n - 1
        BY <3>8, <3>12, <4>2, <4>4
      <4>5. QED
        BY <2>2, <4>3, <4>4
    <3>13. Good(q, body, n)
      BY <3>9, <3>10, <3>11, <3>12 DEF Good
    <3>14. QED
      BY <1>1, <2>1, <2>2, <3>13
  <2>5. QED
    BY <1>2, <2>1, <2>3, <2>4 DEF Course
<1>5. 0 .. l \subseteq T
  BY <1>3, <1>4, InductUpTo
<1>6. QED
  BY <1>1, <1>2, <1>5

Begins(s, t) == Len(s) <= Len(t) /\ \A i \in 1 .. Len(s) : s[i] = t[i]

\* Nothing is taken back.
Grown(p, q) ==
  ~q.failed => /\ ~p.failed /\ Begins(p.payload, q.payload)
               /\ \A k \in Kinds : Begins(p.lists[k], q.lists[k])

LEMMA BeginsAppended ==
  ASSUME NEW S, NEW s \in Seq(S), NEW x \in S
  PROVE  Begins(s, s) /\ Begins(s, Append(s, x))
<1>1. PICK t : t = Append(s, x)
  OBVIOUS
<1>2. Len(s) \in Nat /\ Len(t) = Len(s) + 1 /\ \A i \in 1 .. Len(s) : t[i] = s[i]
  BY <1>1, AppendFacts
<1>3. Begins(s, s) /\ Begins(s, t)
  BY <1>2 DEF Begins
<1>4. QED
  BY <1>1, <1>3

\* The components of what is written.
LEMMA WrittenTyped ==
  ASSUME NEW p \in Written
  PROVE  /\ p.payload \in Seq(Entries) /\ p.lists \in Lists
         /\ \A k \in Kinds : p.lists[k] \in Seq(Handles)
<1>1. p.payload \in Seq(Entries) /\ p.lists \in Lists
  BY DEF Written
<1>2. QED
  BY <1>1 DEF Lists

LEMMA CourseGrows ==
  ASSUME NEW body \in Seq(Items), NEW f, Course(f, body), NEW l \in Nat, l = Len(body)
  PROVE  \A n \in 0 .. l : Grown(f[n], f[l])
<1>1. PICK T : T = {n \in 0 .. l : Grown(f[n], f[l])}
  OBVIOUS
<1>2. PICK z \in Written : z = f[l]
  BY DEF Course
<1>3. l \in T
  BY <1>1 DEF Grown, Begins
<1>4. ASSUME NEW n \in 1 .. l, n \in T PROVE n - 1 \in T
  <2>1. PICK p \in Written, q \in Written : p = f[n - 1] /\ q = f[n]
    BY DEF Course
  <2>2. Grown(q, z) /\ body[n] \in Items
    BY <1>1, <1>2, <1>4, <2>1
  <2>3. CASE Stuck(p, q)
    <3>1. z.failed
      BY <2>2, <2>3 DEF Grown, Stuck
    <3>2. QED
      BY <1>1, <1>2, <2>1, <3>1 DEF Grown
  <2>4. CASE Added(p, body[n], q)
    <3>1. PICK item \in Items : item = body[n]
      BY <2>2
    <3>2. PICK entry \in Entries : q.payload = Append(p.payload, entry)
      <4>1. Len(p.lists[item.kind]) + 1 \in Nat /\ item.kind \in Kinds /\ item.handle \in Handles
        BY DEF Written, Lists, Items
      <4>2. QED
        BY <2>4, <3>1, <4>1 DEF Added, Entries
    <3>3. Begins(p.payload, q.payload)
      <4>1. p.payload \in Seq(Entries)
        BY WrittenTyped
      <4>2. QED
        BY <3>2, <4>1, BeginsAppended
    <3>4. ASSUME NEW k \in Kinds PROVE Begins(p.lists[k], q.lists[k])
      <4>1. p.lists[k] \in Seq(Handles) /\ item.handle \in Handles
        BY DEF Written, Lists, Items
      <4>2. q.lists[k] = p.lists[k] \/ q.lists[k] = Append(p.lists[k], item.handle)
        BY <2>4, <3>1 DEF Added
      <4>3. Begins(p.lists[k], p.lists[k]) /\ Begins(p.lists[k], Append(p.lists[k], item.handle))
        BY <4>1, BeginsAppended
      <4>4. QED
        BY <4>2, <4>3
    <3>5. \A s \in Seq(Entries), t \in Seq(Entries), u \in Seq(Entries) :
            Begins(s, t) /\ Begins(t, u) => Begins(s, u)
      BY DEF Begins
    <3>6. \A s \in Seq(Handles), t \in Seq(Handles), u \in Seq(Handles) :
            Begins(s, t) /\ Begins(t, u) => Begins(s, u)
      BY DEF Begins
    <3>7. \A x \in {p, q, z} : x.payload \in Seq(Entries)
                               /\ \A k \in Kinds : x.lists[k] \in Seq(Handles)
      BY DEF Written, Lists
    <3>8. ~p.failed /\ ~q.failed
      BY <2>4 DEF Added
    <3>9. Grown(p, z)
      BY <2>2, <3>3, <3>4, <3>5, <3>6, <3>7, <3>8 DEF Grown
    <3>10. QED
      BY <1>1, <1>2, <2>1, <3>9
  <2>5. QED
    BY <2>1, <2>3, <2>4 DEF Course
<1>5. 0 .. l \subseteq T
  BY <1>3, <1>4, InductDown
<1>6. QED
  BY <1>1, <1>5

-----------------------------------------------------------------------------
(* One entry more is read.                                                 *)

ReadStates ==
  [body : Seq(Items), lists : [Kinds -> Seq(SUBSET Handles)], failed : BOOLEAN]

\* Where Read looks for the handle of an entry, and what it leaves of the list.
NextIn(entry) == IF entry.kind = "subsender" THEN 1 ELSE entry.index

RestOf(entry, list) ==
  IF entry.kind = "subsender" THEN Tail(list) ELSE [list EXCEPT ![NextIn(entry)] = {}]

\* The item is back, and its handle no longer in the options of its kind.
Back(r, item, entry, r2) ==
  /\ r2 \in ReadStates /\ ~r2.failed /\ r2.body = Append(r.body, item)
  /\ r2.lists[item.kind] = RestOf(entry, r.lists[item.kind])
  /\ \A k \in Kinds \ {item.kind} : r2.lists[k] = r.lists[k]

LEMMA ReadOne ==
  ASSUME NEW r \in ReadStates, ~r.failed, NEW item \in Items, NEW entry \in Entries,
         entry.kind = item.kind /\ entry.id = item.handle,
         NextIn(entry) \in DOMAIN r.lists[item.kind],
         r.lists[item.kind][NextIn(entry)] = {item.handle}
  PROVE  Back(r, item, entry, Read(r, entry))
<1> DEFINE list == r.lists[item.kind]
           r2 == Read(r, entry)
<1>0. NextIn(entry) \in DOMAIN list /\ list[NextIn(entry)] = {item.handle}
  OBVIOUS
<1>1. /\ r.body \in Seq(Items) /\ r.lists \in [Kinds -> Seq(SUBSET Handles)]
      /\ item.kind \in Kinds /\ item.handle \in Handles /\ list \in Seq(SUBSET Handles)
  BY DEF ReadStates, Items
<1>2. (CHOOSE h \in list[NextIn(entry)] : TRUE) = item.handle
  BY <1>0
<1>3. [kind |-> entry.kind, handle |-> item.handle] = item
  BY DEF Items
<1>4. Present(list, NextIn(entry))
  BY <1>0 DEF Present
<1>5. PICK rest : rest = RestOf(entry, list)
  OBVIOUS
<1>6. rest \in Seq(SUBSET Handles)
  <2>1. CASE entry.kind = "subsender"
    BY <1>0, <1>1, <1>5, <2>1 DEF RestOf, NextIn
  <2>2. CASE entry.kind # "subsender"
    BY <1>0, <1>1, <1>5, <2>2 DEF RestOf, NextIn
  <2>3. QED
    BY <2>1, <2>2
<1>7. r2 = [r EXCEPT !.body = Append(@, item), !.lists[item.kind] = rest]
  <2>1. r2 = [r EXCEPT !.body = Append(@, [kind |-> entry.kind, handle |-> item.handle]),
                       !.lists[entry.kind] = rest]
    BY <1>2, <1>4, <1>5, Zenon DEF Read, NextIn, RestOf
  <2>2. QED
    BY <1>3, <2>1
<1>8. PICK lists2 : lists2 = [r.lists EXCEPT ![item.kind] = rest]
  OBVIOUS
<1>9. /\ lists2 \in [Kinds -> Seq(SUBSET Handles)] /\ lists2[item.kind] = rest
      /\ \A k \in Kinds \ {item.kind} : lists2[k] = r.lists[k]
  BY <1>1, <1>6, <1>8
<1>10. r2 = [body |-> Append(r.body, item), lists |-> lists2, failed |-> r.failed]
  BY <1>7, <1>8 DEF ReadStates
<1>11. r2 \in ReadStates
  BY <1>1, <1>9, <1>10 DEF ReadStates
<1> HIDE DEF r2
<1>12. Back(r, item, entry, r2)
  BY <1>5, <1>9, <1>10, <1>11 DEF Back
<1>13. QED
  BY <1>12 DEF r2

\* What is left of the options of a kind, when c handles of the kind are read.
Remains(options, list, c, k) ==
  /\ k = "subsender" => /\ Len(options) = Len(list) - c
                         /\ \A i \in 1 .. Len(options) : options[i] = {list[i + c]}
  /\ k # "subsender" => /\ Len(options) = Len(list)
                         /\ \A i \in c + 1 .. Len(list) : options[i] = {list[i]}

LEMMA StartRemains ==
  ASSUME NEW list \in Seq(Handles), NEW k
  PROVE  Options(list) \in Seq(SUBSET Handles) /\ Remains(Options(list), list, 0, k)
<1>1. PICK l \in Nat : l = Len(list)
  OBVIOUS
<1>2. PICK options : options = [i \in 1 .. l |-> {list[i]}]
  OBVIOUS
<1>3. Options(list) = options
  BY <1>1, <1>2 DEF Options
<1>4. \A i \in 1 .. l : list[i] \in Handles /\ options[i] = {list[i]}
  BY <1>1, <1>2
<1>5. options \in Seq(SUBSET Handles) /\ Len(options) = l
  BY <1>2, <1>4
<1>6. Remains(options, list, 0, k)
  BY <1>1, <1>4, <1>5 DEF Remains
<1>7. QED
  BY <1>3, <1>5, <1>6

\* The next handle is there, and taking it leaves the rest.
LEMMA NextRemains ==
  ASSUME NEW list \in Seq(Handles), NEW c \in Nat, c + 1 <= Len(list),
         NEW entry \in Entries, entry.index = c + 1,
         NEW options \in Seq(SUBSET Handles), Remains(options, list, c, entry.kind)
  PROVE  /\ NextIn(entry) \in DOMAIN options /\ options[NextIn(entry)] = {list[c + 1]}
         /\ Remains(RestOf(entry, options), list, c + 1, entry.kind)
<1>1. CASE entry.kind = "subsender"
  <2>1. /\ NextIn(entry) = 1 /\ RestOf(entry, options) = Tail(options)
        /\ Len(options) = Len(list) - c /\ \A i \in 1 .. Len(options) : options[i] = {list[i + c]}
    BY <1>1 DEF NextIn, RestOf, Remains
  <2>2. PICK rest : rest = Tail(options)
    OBVIOUS
  <2>3. Len(options) \in Nat /\ Len(list) \in Nat /\ Len(options) >= 1
    BY <2>1
  <2>4. /\ 1 \in DOMAIN options /\ Len(rest) = Len(options) - 1
        /\ \A i \in 1 .. Len(rest) : rest[i] = options[i + 1]
    BY <2>2, <2>3
  <2>5. options[1] = {list[c + 1]}
    <3>1. 1 \in 1 .. Len(options) /\ 1 + c = c + 1
      BY <2>3
    <3>2. QED
      BY <2>1, <3>1
  <2>6. ASSUME NEW i \in 1 .. Len(rest) PROVE rest[i] = {list[i + (c + 1)]}
    <3>1. i + 1 \in 1 .. Len(options) /\ (i + 1) + c = i + (c + 1)
      BY <2>3, <2>4
    <3>2. QED
      BY <2>1, <2>4, <3>1
  <2>7. Len(rest) = Len(list) - (c + 1)
    BY <2>1, <2>3, <2>4
  <2>8. Remains(rest, list, c + 1, entry.kind)
    BY <1>1, <2>6, <2>7 DEF Remains
  <2>9. QED
    BY <2>1, <2>2, <2>4, <2>5, <2>8
<1>2. CASE entry.kind # "subsender"
  <2>1. /\ NextIn(entry) = c + 1 /\ RestOf(entry, options) = [options EXCEPT ![c + 1] = {}]
        /\ Len(options) = Len(list) /\ \A i \in c + 1 .. Len(list) : options[i] = {list[i]}
    BY <1>2 DEF NextIn, RestOf, Remains
  <2>2. PICK rest : rest = [options EXCEPT ![c + 1] = {}]
    OBVIOUS
  <2>3. /\ Len(list) \in Nat /\ c + 1 \in DOMAIN options /\ Len(rest) = Len(options)
        /\ \A i \in 1 .. Len(options) : i # c + 1 => rest[i] = options[i]
    BY <2>1, <2>2
  <2>4. Remains(rest, list, c + 1, entry.kind)
    BY <1>2, <2>1, <2>3 DEF Remains
  <2>5. QED
    BY <2>1, <2>2, <2>3, <2>4
<1>3. QED
  BY <1>1, <1>2

\* After n entries, the first n items are back, and the options of the other
\* handles are left.
Aligned(r, p, z, body, n) ==
  /\ r \in ReadStates /\ ~r.failed
  /\ Len(r.body) = n /\ \A i \in 1 .. n : r.body[i] = body[i]
  /\ \A k \in Kinds : Remains(r.lists[k], z.lists[k], Len(p.lists[k]), k)

LEMMA ReadsBack ==
  ASSUME NEW body \in Seq(Items), NEW f, Course(f, body), NEW l \in Nat, l = Len(body),
         NEW z, z = f[l], ~z.failed,
         NEW m, m.payload = z.payload, m.handles = z.lists
  PROVE  ~Deserialize(m).failed /\ Deserialize(m).body = body
<1>1. z \in Written /\ Good(z, body, l)
  BY CourseGood DEF Course
<1>2. Len(m.payload) = l
  BY <1>1 DEF Good
<1>3. PICK g : g = Reading(m)
  OBVIOUS
<1>4. g[0] = StartReading(m) /\ \A n \in 1 .. l : g[n] = Read(g[n - 1], m.payload[n])
  BY <1>2, <1>3, ReadingSteps
<1>5. PICK T : T = {n \in 0 .. l : Aligned(g[n], f[n], z, body, n)}
  OBVIOUS
<1>6. 0 \in T
  <2>1. PICK r : r = StartReading(m)
    OBVIOUS
  <2>2. r = [body |-> <<>>, lists |-> [k \in Kinds |-> Options(z.lists[k])], failed |-> FALSE]
    BY <2>1 DEF StartReading
  <2>3. ASSUME NEW k \in Kinds
        PROVE  Options(z.lists[k]) \in Seq(SUBSET Handles) /\ Remains(Options(z.lists[k]), z.lists[k], 0, k)
    <3>1. PICK list \in Seq(Handles) : list = z.lists[k]
      BY <1>1 DEF Written, Lists
    <3>2. QED
      BY <3>1, StartRemains
  <2>4. r \in ReadStates
    BY <2>2, <2>3 DEF ReadStates
  <2>5. \A k \in Kinds : Len(f[0].lists[k]) = 0
    BY DEF Course, StartWriting, NoHandles
  <2>6. \A k \in Kinds : Remains(r.lists[k], z.lists[k], Len(f[0].lists[k]), k)
    BY <2>2, <2>3, <2>5
  <2>7. ~r.failed /\ Len(r.body) = 0
    BY <2>2
  <2>8. Aligned(r, f[0], z, body, 0)
    BY <2>4, <2>6, <2>7 DEF Aligned
  <2>9. QED
    BY <1>4, <1>5, <2>1, <2>8
<1>7. ASSUME NEW n \in 1 .. l, n - 1 \in T PROVE n \in T
  <2>1. PICK p \in Written, q \in Written : p = f[n - 1] /\ q = f[n]
    BY DEF Course
  <2>2. Grown(q, z)
    BY <2>1, CourseGrows
  <2>3. Added(p, body[n], q)
    BY <2>1, <2>2 DEF Course, Grown, Stuck
  <2>4. PICK item \in Items : item = body[n]
    OBVIOUS
  <2>5. PICK r, r2 : r = g[n - 1] /\ r2 = g[n]
    OBVIOUS
  <2>6. Aligned(r, p, z, body, n - 1)
    BY <1>5, <1>7, <2>1, <2>5
  <2>7. PICK c \in Nat : c = Len(p.lists[item.kind])
    BY DEF Written, Lists, Items
  <2>8. PICK entry : entry = [kind |-> item.kind, id |-> item.handle, index |-> c + 1]
    OBVIOUS
  <2>9. item.kind \in Kinds /\ item.handle \in Handles /\ entry \in Entries
    BY <2>8 DEF Items, Entries
  <2>10. m.payload[n] = entry
    <3>1. q.payload = Append(p.payload, entry) /\ p.payload \in Seq(Entries)
      BY <2>3, <2>4, <2>7, <2>8 DEF Added, Written
    <3>2. Good(p, body, n - 1)
      BY <2>1, CourseGood
    <3>3. Len(p.payload) = n - 1
      BY <2>3, <3>2 DEF Good, Added
    <3>4. q.payload[(n - 1) + 1] = entry /\ Len(q.payload) = (n - 1) + 1
      BY <2>9, <3>1, <3>3, AppendFacts
    <3>5. Begins(q.payload, z.payload)
      BY <2>2 DEF Grown
    <3>6. (n - 1) + 1 = n /\ n \in 1 .. n
      OBVIOUS
    <3>7. QED
      BY <3>4, <3>5, <3>6 DEF Begins
  <2>11. PICK list \in Seq(Handles) : list = z.lists[item.kind]
    <3>1. z.lists \in Lists
      BY <1>1 DEF Written
    <3>2. QED
      BY <2>9, <3>1 DEF Lists
  <2>12. /\ Len(q.lists[item.kind]) = c + 1 /\ c + 1 <= Len(list)
         /\ list[c + 1] = item.handle
    <3>1. PICK old \in Seq(Handles) : old = p.lists[item.kind]
      <4>1. p.lists[item.kind] \in Seq(Handles)
        BY <2>9, WrittenTyped, Zenon
      <4>2. QED
        BY <4>1, Zenon
    <3>2. q.lists[item.kind] = Append(old, item.handle) /\ Len(old) = c
      BY <2>3, <2>4, <2>7, <3>1 DEF Added
    <3>3. Begins(Append(old, item.handle), list)
      BY <2>2, <2>9, <2>11, <3>2 DEF Grown
    <3>4. Len(Append(old, item.handle)) = c + 1 /\ Append(old, item.handle)[c + 1] = item.handle
      BY <2>9, <3>2, AppendFacts
    <3>5. c + 1 \in 1 .. c + 1
      OBVIOUS
    <3>6. QED
      BY <3>2, <3>3, <3>4, <3>5 DEF Begins
  <2>13. PICK options \in Seq(SUBSET Handles) : options = r.lists[item.kind]
    BY <2>6, <2>9 DEF Aligned, ReadStates
  <2>14. Remains(options, list, c, item.kind)
    BY <2>6, <2>7, <2>9, <2>11, <2>13 DEF Aligned
  <2>15. /\ NextIn(entry) \in DOMAIN options /\ options[NextIn(entry)] = {item.handle}
         /\ Remains(RestOf(entry, options), list, c + 1, item.kind)
    <3>1. entry.kind = item.kind /\ entry.index = c + 1
      BY <2>8
    <3>2. Remains(options, list, c, entry.kind)
      BY <2>14, <3>1
    <3>3. /\ NextIn(entry) \in DOMAIN options /\ options[NextIn(entry)] = {list[c + 1]}
          /\ Remains(RestOf(entry, options), list, c + 1, entry.kind)
      BY <2>9, <2>12, <3>1, <3>2, NextRemains
    <3>4. QED
      BY <2>12, <3>1, <3>3
  <2>16. /\ r2 \in ReadStates /\ ~r2.failed /\ r2.body = Append(r.body, item)
         /\ r2.lists[item.kind] = RestOf(entry, options)
         /\ \A k \in Kinds \ {item.kind} : r2.lists[k] = r.lists[k]
    <3>1. r2 = Read(r, entry)
      BY <1>4, <2>5, <2>10
    <3>2. entry.kind = item.kind /\ entry.id = item.handle
      BY <2>8
    <3>3. r \in ReadStates /\ ~r.failed
      BY <2>6 DEF Aligned
    <3>4. /\ NextIn(entry) \in DOMAIN r.lists[item.kind]
          /\ r.lists[item.kind][NextIn(entry)] = {item.handle}
      BY <2>13, <2>15
    <3>5. Back(r, item, entry, Read(r, entry))
      BY <2>9, <3>2, <3>3, <3>4, ReadOne
    <3>6. QED
      BY <2>13, <3>1, <3>5 DEF Back
  <2>17. Len(r2.body) = n /\ \A i \in 1 .. n : r2.body[i] = body[i]
    <3>1. PICK b \in Seq(Items) : b = r.body
      BY <2>6 DEF Aligned, ReadStates
    <3>2. Len(b) = n - 1 /\ \A i \in 1 .. n - 1 : b[i] = body[i]
      BY <2>6, <3>1 DEF Aligned
    <3>3. /\ Len(r2.body) = (n - 1) + 1 /\ r2.body[(n - 1) + 1] = item
          /\ \A i \in 1 .. n - 1 : r2.body[i] = b[i]
      BY <2>16, <3>1, <3>2, AppendFacts
    <3>4. (n - 1) + 1 = n /\ \A i \in 1 .. n : i = n \/ i \in 1 .. n - 1
      OBVIOUS
    <3>5. QED
      BY <2>4, <3>2, <3>3, <3>4
  <2>18. ASSUME NEW k \in Kinds PROVE Remains(r2.lists[k], z.lists[k], Len(q.lists[k]), k)
    <3>1. CASE k = item.kind
      BY <2>11, <2>12, <2>15, <2>16, <3>1
    <3>2. CASE k # item.kind
      <4>1. r2.lists[k] = r.lists[k] /\ q.lists[k] = p.lists[k]
        BY <2>3, <2>4, <2>16, <3>2 DEF Added
      <4>2. QED
        BY <2>6, <4>1 DEF Aligned
    <3>3. QED
      BY <3>1, <3>2
  <2>19. Aligned(r2, q, z, body, n)
    BY <2>16, <2>17, <2>18 DEF Aligned
  <2>20. QED
    BY <1>5, <2>1, <2>5, <2>19
<1>8. 0 .. l \subseteq T
  BY <1>6, <1>7, InductUpTo
<1>9. PICK r : r = g[l]
  OBVIOUS
<1>10. Aligned(r, z, z, body, l)
  BY <1>5, <1>8, <1>9
<1>11. r.body = body
  <2>1. PICK b \in Seq(Items) : b = r.body
    BY <1>10 DEF Aligned, ReadStates
  <2>2. Len(b) = Len(body) /\ \A i \in 1 .. Len(body) : b[i] = body[i]
    BY <1>10, <2>1 DEF Aligned
  <2>3. b = body
    BY <2>2
  <2>4. QED
    BY <2>1, <2>3
<1>12. Deserialize(m) = r
  BY <1>2, <1>3, <1>9 DEF Deserialize
<1>13. QED
  BY <1>10, <1>11, <1>12 DEF Aligned

-----------------------------------------------------------------------------
(* What is sent is what is received.                                       *)

\* A Data message from which its body comes back, with just its own handles.
Carries(m, body) ==
  /\ m.type = "Data"
  /\ ~Deserialize(m).failed /\ Deserialize(m).body = body
  /\ \A k \in Kinds : Len(m.handles[k]) = Cardinality(OfKind(m.payload, k))
  /\ \A h \in Receivers(body) : Contains(m.handles["receiver"], h)

Messages ==
       {Connect, SubChannelId, Disconnect}
  \cup [type : {"Data"}, payload : Seq(Entries), handles : Lists]

\* Serialization with empty lists, of a body of any length: either it fails, or
\* deserialization of the message gives the body.
LEMMA Serialized ==
  ASSUME wrapped \subseteq Handles, NEW body \in Bodies,
         NEW done, done = Serialize(body, NoHandles),
         NEW m, m = [type |-> "Data", payload |-> done.payload, handles |-> done.lists]
  PROVE  done \in Written /\ Moved(done) /\ m \in Messages /\ (~done.failed => Carries(m, body))
<1>1. PICK b \in Seq(Items) : b = body
  BY OneShotAssumption
<1>2. PICK l \in Nat : l = Len(b)
  OBVIOUS
<1>3. PICK f : f = Writing(b, NoHandles)
  OBVIOUS
<1>4. Course(f, b) /\ done = f[l]
  BY <1>1, <1>2, <1>3, WritingCourse DEF Serialize
<1>5. l \in 0 .. l
  OBVIOUS
<1>6. done \in Written /\ Moved(done) /\ Good(done, b, l)
  BY <1>2, <1>4, <1>5, CourseMoved, CourseGood DEF Course
<1>7. m \in Messages
  BY <1>6 DEF Messages, Written
<1>8. ASSUME ~done.failed PROVE Carries(m, b)
  <2>1. m.payload = done.payload /\ m.handles = done.lists /\ m.type = "Data"
    OBVIOUS
  <2>2. ~Deserialize(m).failed /\ Deserialize(m).body = b
    BY <1>2, <1>4, <1>8, <2>1, ReadsBack
  <2>3. \A k \in Kinds : Len(m.handles[k]) = Cardinality(OfKind(m.payload, k))
    BY <1>6, <1>8, <2>1 DEF Good
  <2>4. ASSUME NEW h \in Receivers(b) PROVE Contains(m.handles["receiver"], h)
    <3>1. PICK i \in 1 .. l : b[i].kind = "receiver" /\ b[i].handle = h
      BY <1>2 DEF Receivers
    <3>2. QED
      BY <1>6, <1>8, <2>1, <3>1 DEF Good
  <2>5. QED
    BY <2>1, <2>2, <2>3, <2>4 DEF Carries
<1>9. QED
  BY <1>1, <1>6, <1>7, <1>8

-----------------------------------------------------------------------------
(* The messages of the client in line: what is left of the handshake, the  *)
(* messages sent and not received, and a last Disconnect.                  *)

Handshake(i) == IF i = 1 THEN Connect ELSE SubChannelId

InLine(q, taken, lead, s, g, left) ==
  /\ Len(q) = lead + (Len(s) - g) + left
  /\ \A i \in 1 .. lead : q[i] = Handshake(taken + i)
  /\ \A n \in 1 .. Len(s) - g : Carries(q[lead + n], s[g + n])
  /\ left = 1 => q[Len(q)] = Disconnect

LEMMA PutHandshake ==
  ASSUME NEW S, NEW q \in Seq(S), NEW m \in S, NEW taken \in Nat, NEW lead \in Nat,
         NEW s, NEW g, Len(s) = g, Len(s) \in Nat,
         InLine(q, taken, lead, s, g, 0), m = Handshake(taken + (lead + 1))
  PROVE  InLine(Append(q, m), taken, lead + 1, s, g, 0)
<1>1. PICK t : t = Append(q, m)
  OBVIOUS
<1>2. Len(q) = lead /\ \A i \in 1 .. lead : q[i] = Handshake(taken + i)
  BY DEF InLine
<1>3. /\ Len(t) = lead + 1 /\ \A i \in 1 .. lead : t[i] = q[i]
      /\ t[lead + 1] = m
  BY <1>1, <1>2, AppendFacts
<1>4. \A i \in 1 .. lead + 1 : t[i] = Handshake(taken + i)
  <2>1. \A i \in 1 .. lead + 1 : i = lead + 1 \/ i \in 1 .. lead
    OBVIOUS
  <2>2. QED
    BY <1>2, <1>3, <2>1
<1>5. Len(t) = (lead + 1) + (Len(s) - g) + 0 /\ \A n \in 1 .. Len(s) - g : FALSE
  BY <1>3
<1>6. InLine(t, taken, lead + 1, s, g, 0)
  BY <1>4, <1>5 DEF InLine
<1>7. QED
  BY <1>1, <1>6

LEMMA PutData ==
  ASSUME NEW S, NEW q \in Seq(S), NEW m \in S, NEW taken \in Nat, NEW lead \in Nat,
         NEW B, NEW s \in Seq(B), NEW b \in B, NEW g \in Nat, g <= Len(s),
         InLine(q, taken, lead, s, g, 0), Carries(m, b)
  PROVE  InLine(Append(q, m), taken, lead, Append(s, b), g, 0)
<1> DEFINE t == Append(q, m)
           u == Append(s, b)
<1>1. t = Append(q, m) /\ u = Append(s, b)
  OBVIOUS
<1> HIDE DEF t, u
<1>2. /\ Len(q) = lead + (Len(s) - g)
      /\ \A i \in 1 .. lead : q[i] = Handshake(taken + i)
      /\ \A n \in 1 .. Len(s) - g : Carries(q[lead + n], s[g + n])
  BY DEF InLine
<1>3. /\ Len(q) \in Nat /\ Len(t) = Len(q) + 1 /\ t[Len(q) + 1] = m
      /\ \A i \in 1 .. Len(q) : t[i] = q[i]
  BY <1>1, AppendFacts
<1>4. /\ Len(s) \in Nat /\ Len(u) = Len(s) + 1 /\ u[Len(s) + 1] = b
      /\ \A i \in 1 .. Len(s) : u[i] = s[i]
  BY <1>1, AppendFacts
<1>5. Len(t) = lead + (Len(u) - g) + 0
  BY <1>2, <1>3, <1>4
<1>6. \A i \in 1 .. lead : t[i] = Handshake(taken + i)
  BY <1>2, <1>3, <1>4
<1>7. ASSUME NEW n \in 1 .. Len(u) - g PROVE Carries(t[lead + n], u[g + n])
  <2>1. CASE n \in 1 .. Len(s) - g
    <3>1. lead + n \in 1 .. Len(q) /\ g + n \in 1 .. Len(s)
      BY <1>2, <1>3, <1>4, <2>1
    <3>2. QED
      BY <1>2, <1>3, <1>4, <2>1, <3>1
  <2>2. CASE n = (Len(s) - g) + 1
    <3>1. lead + n = Len(q) + 1 /\ g + n = Len(s) + 1
      BY <1>2, <1>3, <1>4, <2>2
    <3>2. QED
      BY <1>3, <1>4, <3>1
  <2>3. n \in 1 .. Len(s) - g \/ n = (Len(s) - g) + 1
    BY <1>4
  <2>4. QED
    BY <2>1, <2>2, <2>3
<1>8. 0 # 1
  OBVIOUS
<1>9. InLine(t, taken, lead, u, g, 0)
  BY <1>5, <1>6, <1>7, <1>8, Zenon DEF InLine
<1>10. QED
  BY <1>1, <1>9

LEMMA PutDisconnect ==
  ASSUME NEW S, NEW q \in Seq(S), Disconnect \in S, NEW taken \in Nat, NEW lead \in Nat,
         NEW s, Len(s) \in Nat, NEW g \in Nat, g <= Len(s),
         InLine(q, taken, lead, s, g, 0)
  PROVE  InLine(Append(q, Disconnect), taken, lead, s, g, 1)
<1>1. PICK t : t = Append(q, Disconnect)
  OBVIOUS
<1>2. /\ Len(q) = lead + (Len(s) - g)
      /\ \A i \in 1 .. lead : q[i] = Handshake(taken + i)
      /\ \A n \in 1 .. Len(s) - g : Carries(q[lead + n], s[g + n])
  BY DEF InLine
<1>3. /\ Len(q) \in Nat /\ Len(t) = Len(q) + 1 /\ t[Len(q) + 1] = Disconnect
      /\ \A i \in 1 .. Len(q) : t[i] = q[i]
  BY <1>1, AppendFacts
<1>4. Len(t) = lead + (Len(s) - g) + 1
  BY <1>2, <1>3
<1>5. \A i \in 1 .. lead : t[i] = Handshake(taken + i)
  BY <1>2, <1>3
<1>6. ASSUME NEW n \in 1 .. Len(s) - g PROVE Carries(t[lead + n], s[g + n])
  <2>1. lead + n \in 1 .. Len(q)
    BY <1>2
  <2>2. QED
    BY <1>2, <1>3, <2>1
<1>7. InLine(t, taken, lead, s, g, 1)
  BY <1>3, <1>4, <1>5, <1>6 DEF InLine
<1>8. QED
  BY <1>1, <1>7

\* The head and the tail of a sequence.
LEMMA TailFacts ==
  ASSUME NEW S, NEW q \in Seq(S), q # <<>>, NEW t, t = Tail(q)
  PROVE  /\ t \in Seq(S) /\ Len(q) \in Nat /\ Len(q) >= 1 /\ Len(t) = Len(q) - 1
         /\ Head(q) = q[1] /\ Head(q) \in S
         /\ \A i \in 1 .. Len(t) : t[i] = q[i + 1]
OBVIOUS

LEMMA TakeHandshake ==
  ASSUME NEW S, NEW q \in Seq(S), q # <<>>, NEW taken \in Nat, NEW lead \in Nat, lead >= 1,
         NEW s, Len(s) \in Nat, NEW g \in Nat, g <= Len(s), NEW left \in 0 .. 1,
         InLine(q, taken, lead, s, g, left)
  PROVE  Head(q) = Handshake(taken + 1) /\ InLine(Tail(q), taken + 1, lead - 1, s, g, left)
<1>1. PICK t : t = Tail(q)
  OBVIOUS
<1>2. /\ Len(q) = lead + (Len(s) - g) + left
      /\ \A i \in 1 .. lead : q[i] = Handshake(taken + i)
      /\ \A n \in 1 .. Len(s) - g : Carries(q[lead + n], s[g + n])
      /\ left = 1 => q[Len(q)] = Disconnect
  BY DEF InLine
<1>3. /\ Len(t) = Len(q) - 1 /\ Head(q) = q[1] /\ \A i \in 1 .. Len(t) : t[i] = q[i + 1]
  BY <1>1, TailFacts
<1>4. Head(q) = Handshake(taken + 1)
  BY <1>2, <1>3
<1>5. Len(t) = (lead - 1) + (Len(s) - g) + left
  BY <1>2, <1>3
<1>6. ASSUME NEW i \in 1 .. lead - 1 PROVE t[i] = Handshake((taken + 1) + i)
  <2>1. i \in 1 .. Len(t) /\ i + 1 \in 1 .. lead /\ taken + (i + 1) = (taken + 1) + i
    BY <1>5
  <2>2. QED
    BY <1>2, <1>3, <2>1
<1>7. ASSUME NEW n \in 1 .. Len(s) - g PROVE Carries(t[(lead - 1) + n], s[g + n])
  <2>1. (lead - 1) + n \in 1 .. Len(t) /\ ((lead - 1) + n) + 1 = lead + n
    BY <1>5
  <2>2. QED
    BY <1>2, <1>3, <2>1
<1>8. left = 1 => t[Len(t)] = Disconnect
  <2>1. left = 1 => Len(t) \in 1 .. Len(t) /\ Len(t) + 1 = Len(q)
    BY <1>2, <1>3
  <2>2. QED
    BY <1>2, <1>3, <2>1
<1>9. InLine(t, taken + 1, lead - 1, s, g, left)
  BY <1>5, <1>6, <1>7, <1>8 DEF InLine
<1>10. QED
  BY <1>1, <1>4, <1>9

LEMMA TakeData ==
  ASSUME NEW S, NEW q \in Seq(S), q # <<>>, NEW taken \in Nat,
         NEW s, Len(s) \in Nat, NEW g \in Nat, g < Len(s), NEW left \in 0 .. 1,
         InLine(q, taken, 0, s, g, left)
  PROVE  Carries(Head(q), s[g + 1]) /\ InLine(Tail(q), taken, 0, s, g + 1, left)
<1>1. PICK t : t = Tail(q)
  OBVIOUS
<1>2. /\ Len(q) = 0 + (Len(s) - g) + left
      /\ \A n \in 1 .. Len(s) - g : Carries(q[0 + n], s[g + n])
      /\ left = 1 => q[Len(q)] = Disconnect
  BY DEF InLine
<1>3. /\ Len(t) = Len(q) - 1 /\ Head(q) = q[1] /\ \A i \in 1 .. Len(t) : t[i] = q[i + 1]
  BY <1>1, TailFacts
<1>4. Carries(Head(q), s[g + 1])
  <2>1. 1 \in 1 .. Len(s) - g /\ 0 + 1 = 1
    OBVIOUS
  <2>2. QED
    BY <1>2, <1>3, <2>1
<1>5. Len(t) = 0 + (Len(s) - (g + 1)) + left
  BY <1>2, <1>3
<1>6. ASSUME NEW n \in 1 .. Len(s) - (g + 1) PROVE Carries(t[0 + n], s[(g + 1) + n])
  <2>1. /\ 0 + n \in 1 .. Len(t) /\ n + 1 \in 1 .. Len(s) - g
        /\ (0 + n) + 1 = 0 + (n + 1) /\ g + (n + 1) = (g + 1) + n
    BY <1>5
  <2>2. QED
    BY <1>2, <1>3, <2>1
<1>7. left = 1 => t[Len(t)] = Disconnect
  <2>1. left = 1 => Len(t) \in 1 .. Len(t) /\ Len(t) + 1 = Len(q)
    BY <1>2, <1>3
  <2>2. QED
    BY <1>2, <1>3, <2>1
<1>8. InLine(t, taken, 0, s, g + 1, left)
  BY <1>5, <1>6, <1>7 DEF InLine
<1>9. QED
  BY <1>1, <1>4, <1>8

\* At the end of the line is nothing, or the Disconnect.
LEMMA AtTheEnd ==
  ASSUME NEW S, NEW q \in Seq(S), q # <<>>, NEW taken, NEW s, Len(s) \in Nat,
         NEW left \in 0 .. 1, InLine(q, taken, 0, s, Len(s), left)
  PROVE  Head(q) = Disconnect
<1>1. Len(q) = 0 + (Len(s) - Len(s)) + left /\ (left = 1 => q[Len(q)] = Disconnect)
  BY DEF InLine
<1>2. Len(q) >= 1 /\ Head(q) = q[1]
  BY TailFacts
<1>3. Len(q) = 1 /\ left = 1
  BY <1>1, <1>2
<1>4. QED
  BY <1>1, <1>2, <1>3

\* All Data messages in line carry just their own handles.
LEMMA OwnInLine ==
  ASSUME NEW S, NEW q \in Seq(S), NEW taken, NEW lead \in Nat, NEW s, Len(s) \in Nat,
         NEW g \in Nat, g <= Len(s), NEW left \in 0 .. 1, InLine(q, taken, lead, s, g, left),
         NEW i \in 1 .. Len(q), q[i].type = "Data"
  PROVE  \E b : Carries(q[i], b)
<1>1. /\ Len(q) = lead + (Len(s) - g) + left
      /\ \A j \in 1 .. lead : q[j] = Handshake(taken + j)
      /\ \A n \in 1 .. Len(s) - g : Carries(q[lead + n], s[g + n])
      /\ left = 1 => q[Len(q)] = Disconnect
  BY DEF InLine
<1>2. /\ \A j : Handshake(j).type # "Data"
      /\ Disconnect.type # "Data"
  BY DEF Handshake, Connect, SubChannelId, Disconnect
<1>3. ~(i \in 1 .. lead)
  BY <1>1, <1>2
<1>4. ~(left = 1 /\ i = Len(q))
  BY <1>1, <1>2
<1>5. i - lead \in 1 .. Len(s) - g /\ lead + (i - lead) = i
  BY <1>1, <1>3, <1>4
<1>6. Carries(q[lead + (i - lead)], s[g + (i - lead)])
  BY <1>1, <1>5
<1>7. QED
  BY <1>5, <1>6

-----------------------------------------------------------------------------
(* The inductive invariant.                                                *)

TypeOK ==
  /\ client \in {"new", "connecting", "connected", "done", "dead"}
  /\ server \in {"listening", "connected", "attached", "accepted",
                 "panicked", "failed", "told", "dropped"}
  /\ holding \subseteq Threads /\ lists \in [Threads -> Lists] /\ wrapped \subseteq Handles
  /\ calls \in Nat /\ sent \in Seq(Bodies) /\ got \in Seq(Bodies)
  /\ ipc \in Seq(Messages) /\ open \in BOOLEAN

\* How the ends are related, and what is received to what is sent.
Linked ==
  /\ open <=> server \in {"listening", "connected", "attached", "accepted"}
  /\ ~open => ipc = <<>>
  /\ server = "panicked" => client = "dead"
  /\ client = "dead" => holding = {}
  /\ server \in {"told", "failed"} => Len(got) = Len(sent)
  /\ Len(got) <= Len(sent) /\ \A i \in 1 .. Len(got) : got[i] = sent[i]

\* How many messages of the handshake the server has taken, and how many the
\* client may have sent.
Taken == IF server = "listening" THEN 0 ELSE IF server = "connected" THEN 1 ELSE 2

Asked(n) ==
  /\ client = "new" => n = 0
  /\ client = "connecting" => n = 1
  /\ client \in {"connected", "done"} => n = 2
  /\ client = "dead" => n >= 1

\* The line of messages: nothing is sent before the handshake and nothing after
\* the Disconnect.
Line(asked, left) ==
  /\ Asked(asked) /\ Taken <= asked
  /\ asked < 2 => sent = <<>> /\ holding = {} /\ left = 0
  /\ left = 1 => holding = {}
  /\ InLine(ipc, Taken, asked - Taken, sent, Len(got), left)

InOrder == open => \E asked \in 0 .. 2, left \in 0 .. 1 : Line(asked, left)

\* At most one of four places, and it just once.
One(W, L, M, G) ==
  /\ W = {} \/ (L = {} /\ M = {} /\ G = {})
  /\ L = {} \/ (M = {} /\ G = {})
  /\ M = {} \/ G = {}
  /\ \A t, u \in L : t = u
  /\ \A i, j \in M : i = j
  /\ \A i, j \in G : i = j

ListsWith(h) == {t \in Threads : Contains(lists[t]["receiver"], h)}

Bears(m, h) == m.type = "Data" /\ Contains(m.handles["receiver"], h)

MessagesWith(h) == {i \in 1 .. Len(ipc) : Bears(ipc[i], h)}

GotWith(h) == {i \in 1 .. Len(got) : h \in Receivers(got[i])}

Alone ==
  \A h \in Handles : One(wrapped \cap {h}, ListsWith(h), MessagesWith(h), GotWith(h))

Inv == TypeOK /\ Linked /\ InOrder /\ Alone

LEMMA OneKept ==
  ASSUME NEW W, NEW L, NEW M, NEW G, One(W, L, M, G),
         NEW W2 \in SUBSET W, NEW L2 \in SUBSET L, NEW G2 \in SUBSET G,
         NEW M2, NEW d \in Nat, \A i \in M2 : i \in Nat /\ i + d \in M
  PROVE  One(W2, L2, M2, G2)
<1>1. M = {} => M2 = {}
  OBVIOUS
<1>2. \A i, j \in M2 : i = j
  BY DEF One
<1>3. QED
  BY <1>1, <1>2 DEF One

\* From the wrapper to the list of the thread.
LEMMA OneListed ==
  ASSUME NEW W, NEW L, NEW M, NEW G, One(W, L, M, G),
         NEW W2 \in SUBSET W, NEW t, NEW L2 \in SUBSET (L \cup {t}),
         t \in L2 => W # {} /\ W2 = {}
  PROVE  One(W2, L2, M, G)
<1>1. CASE t \in L2
  BY <1>1 DEF One
<1>2. CASE t \notin L2
  BY <1>2 DEF One
<1>3. QED
  BY <1>1, <1>2

\* From the wrapper to a new message.
LEMMA OneSent ==
  ASSUME NEW W, NEW L, NEW M, NEW G, One(W, L, M, G),
         NEW W2 \in SUBSET W, NEW L2 \in SUBSET L, NEW n, NEW M2 \in SUBSET (M \cup {n}),
         n \in M2 => W # {} /\ W2 = {}
  PROVE  One(W2, L2, M2, G)
<1>1. CASE n \in M2
  BY <1>1 DEF One
<1>2. CASE n \notin M2
  BY <1>2 DEF One
<1>3. QED
  BY <1>1, <1>2

\* From the first message to the last body received.
LEMMA OneReceived ==
  ASSUME NEW W, NEW L, NEW M, NEW G, One(W, L, M, G), NEW n, NEW G2 \in SUBSET (G \cup {n}),
         NEW M2, \A i \in M2 : i \in Nat /\ i >= 1 /\ i + 1 \in M,
         n \in G2 => 1 \in M
  PROVE  One(W, L, M2, G2)
<1>1. CASE n \in G2
  <2>1. 1 \in M
    BY <1>1
  <2>2. W = {} /\ L = {} /\ G = {} /\ \A i \in M : i = 1
    BY <2>1 DEF One
  <2>3. M2 = {}
    BY <2>2
  <2>4. G2 \subseteq {n}
    BY <2>2
  <2>5. QED
    BY <2>2, <2>3, <2>4 DEF One
<1>2. CASE n \notin G2
  <2>1. G2 \subseteq G
    BY <1>2
  <2>2. QED
    BY <2>1, OneKept
<1>3. QED
  BY <1>1, <1>2

-----------------------------------------------------------------------------
(* What the steps have in common.                                          *)

LEMMA InitInv == Init => Inv
<1>1. SUFFICES ASSUME Init PROVE Inv
  OBVIOUS
<1>2. NoHandles \in Lists /\ \A h : ~Contains(NoHandles["receiver"], h)
  BY DEF NoHandles, Lists, Kinds, Contains
<1>3. wrapped \subseteq Handles
  BY <1>1 DEF Init, Receivers, Handles
<1>4. TypeOK
  BY <1>1, <1>2, <1>3 DEF Init, TypeOK
<1>5. Linked
  BY <1>1 DEF Init, Linked
<1>6. InOrder
  <2>1. InLine(<<>>, 0, 0 - 0, <<>>, 0, 0)
    BY DEF InLine
  <2>2. Taken = 0 /\ ipc = <<>> /\ sent = <<>> /\ Len(got) = 0 /\ holding = {} /\ Asked(0)
    BY <1>1 DEF Init, Taken, Asked
  <2>3. Line(0, 0)
    BY <2>1, <2>2 DEF Line
  <2>4. QED
    BY <2>3 DEF InOrder
<1>7. ASSUME NEW h \in Handles
      PROVE  One(wrapped \cap {h}, ListsWith(h), MessagesWith(h), GotWith(h))
  <2>1. ListsWith(h) = {}
    BY <1>1, <1>2 DEF Init, ListsWith
  <2>2. MessagesWith(h) = {} /\ GotWith(h) = {}
    BY <1>1 DEF Init, MessagesWith, GotWith
  <2>3. QED
    BY <2>1, <2>2 DEF One
<1>8. QED
  BY <1>4, <1>5, <1>6, <1>7 DEF Inv, Alone

\* Nothing arrives anywhere, but messages may move up and lists and wrappers be left.
LEMMA AloneKept ==
  ASSUME Alone, wrapped' \subseteq wrapped, got' = got,
         \A t \in Threads : lists'[t] \in {lists[t], NoHandles},
         NEW d \in Nat,
         \A i \in 1 .. Len(ipc') :
           ipc'[i].type = "Data" => i + d \in 1 .. Len(ipc) /\ ipc'[i] = ipc[i + d]
  PROVE  Alone'
<1>1. ASSUME NEW h \in Handles
      PROVE  One(wrapped' \cap {h}, ListsWith(h)', MessagesWith(h)', GotWith(h)')
  <2>1. One(wrapped \cap {h}, ListsWith(h), MessagesWith(h), GotWith(h))
    BY DEF Alone
  <2>2. \A t \in Threads : Contains(lists'[t]["receiver"], h) => Contains(lists[t]["receiver"], h)
    <3>1. ~Contains(NoHandles["receiver"], h)
      BY DEF NoHandles, Kinds, Contains
    <3>2. QED
      BY <3>1
  <2>3. ListsWith(h)' \subseteq ListsWith(h)
    BY <2>2 DEF ListsWith
  <2>4. GotWith(h)' = GotWith(h)
    BY DEF GotWith
  <2>5. \A i \in MessagesWith(h)' : i \in Nat /\ i + d \in MessagesWith(h)
    BY DEF MessagesWith, Bears
  <2>6. QED
    BY <2>1, <2>3, <2>4, <2>5, OneKept
<1>2. QED
  BY <1>1 DEF Alone

\* A message that is not a Data message is put in the channel, or none is.
LEMMA PutType ==
  ASSUME TypeOK, NEW m \in Messages, Put(m)
  PROVE  ipc' \in Seq(Messages)
BY AppendFacts DEF Put, TypeOK

LEMMA PutKept ==
  ASSUME TypeOK, Alone, NEW m \in {Connect, SubChannelId, Disconnect}, Put(m) \/ ipc' = ipc,
         wrapped' = wrapped, got' = got, lists' = lists
  PROVE  Alone'
<1>1. m.type # "Data" /\ m \in Messages
  BY DEF Connect, SubChannelId, Disconnect, Messages
<1>2. PICK q \in Seq(Messages) : q = ipc
  BY DEF TypeOK
<1>3. ASSUME NEW i \in 1 .. Len(ipc'), ipc'[i].type = "Data"
      PROVE  i + 0 \in 1 .. Len(q) /\ ipc'[i] = q[i + 0]
  <2>1. CASE ipc' = q
    BY <1>3, <2>1
  <2>2. CASE ipc' = Append(q, m)
    <3>1. /\ Len(q) \in Nat /\ Len(ipc') = Len(q) + 1
          /\ \A j \in 1 .. Len(q) : ipc'[j] = q[j]
          /\ ipc'[Len(q) + 1] = m
      BY <1>1, <2>2, AppendFacts
    <3>2. i # Len(q) + 1
      BY <1>1, <1>3, <3>1
    <3>3. i \in 1 .. Len(q)
      BY <3>1, <3>2
    <3>4. QED
      BY <3>1, <3>3
  <2>3. QED
    BY <1>2, <2>1, <2>2 DEF Put
<1>4. QED
  BY <1>2, <1>3, AloneKept

\* The server closes its end, or takes the first message and drops it.
LEMMA CloseKept ==
  ASSUME TypeOK, Alone, Close, UNCHANGED clientVars, got' = got
  PROVE  Alone'
<1>1. ipc' = <<>> /\ wrapped' = wrapped /\ lists' = lists
  BY DEF Close, clientVars
<1>2. \A i \in 1 .. Len(ipc') : FALSE
  BY <1>1
<1>3. QED
  BY <1>1, <1>2, AloneKept

LEMMA TailKept ==
  ASSUME TypeOK, Alone, ipc # <<>>, ipc' = Tail(ipc), UNCHANGED clientVars, got' = got
  PROVE  Alone'
<1>1. PICK q \in Seq(Messages) : q = ipc
  BY DEF TypeOK
<1>2. Len(ipc') = Len(q) - 1 /\ Len(q) \in Nat /\ \A i \in 1 .. Len(ipc') : ipc'[i] = q[i + 1]
  BY <1>1, TailFacts
<1>3. \A i \in 1 .. Len(ipc') : i + 1 \in 1 .. Len(q)
  BY <1>2
<1>4. wrapped' = wrapped /\ lists' = lists
  BY DEF clientVars
<1>5. QED
  BY <1>1, <1>2, <1>3, <1>4, AloneKept

\* How far the handshake and the bodies are, as numbers.
LEMMA Numbers ==
  ASSUME TypeOK, Linked
  PROVE  /\ Taken \in 0 .. 2 /\ Len(got) \in Nat /\ Len(sent) \in Nat /\ Len(got) <= Len(sent)
         /\ sent = <<>> => Len(got) = 0 /\ Len(sent) = 0
         /\ Connect = Handshake(1) /\ SubChannelId = Handshake(2)
         /\ {Connect, SubChannelId, Disconnect} \subseteq Messages
<1>1. sent = <<>> => Len(sent) = 0
  OBVIOUS
<1>2. Len(got) \in Nat /\ Len(sent) \in Nat /\ Len(got) <= Len(sent)
  BY DEF TypeOK, Linked
<1>3. QED
  BY <1>1, <1>2 DEF Taken, Handshake, Messages

-----------------------------------------------------------------------------
(* The steps of the client.                                                *)

LEMMA BeginConnectInv == Inv /\ BeginConnect => Inv'
<1> SUFFICES ASSUME Inv, BeginConnect PROVE Inv'
  OBVIOUS
<1>1. TypeOK /\ Linked /\ InOrder /\ Alone
  BY DEF Inv
<1>2. /\ client = "new" /\ client' = "connecting" /\ Put(Connect)
      /\ holding' = holding /\ lists' = lists /\ wrapped' = wrapped /\ calls' = calls
      /\ sent' = sent /\ open' = open /\ server' = server /\ got' = got
  BY DEF BeginConnect
<1>3. TypeOK'
  <2>1. ipc' \in Seq(Messages)
    BY <1>1, <1>2, Numbers, PutType
  <2>2. QED
    BY <1>1, <1>2, <2>1 DEF TypeOK
<1>4. Linked'
  BY <1>1, <1>2 DEF Linked, Put
<1>5. ASSUME open PROVE Line(1, 0)'
  <2>1. PICK asked \in 0 .. 2, left \in 0 .. 1 : Line(asked, left)
    BY <1>1, <1>5 DEF InOrder
  <2>2. /\ asked = 0 /\ Taken = 0 /\ left = 0 /\ sent = <<>> /\ holding = {}
        /\ Len(got) = 0 /\ Len(sent) = 0 /\ InLine(ipc, 0, 0, sent, 0, 0)
    <3>1. asked = 0 /\ Taken <= asked
      BY <1>2, <2>1 DEF Line, Asked
    <3>2. Taken = 0 /\ left = 0 /\ sent = <<>> /\ holding = {}
      BY <1>1, <2>1, <3>1, Numbers DEF Line
    <3>3. Len(got) = 0 /\ Len(sent) = 0
      BY <1>1, <3>2, Numbers
    <3>4. asked - Taken = 0
      BY <3>1, <3>2
    <3>5. QED
      BY <2>1, <3>1, <3>2, <3>3, <3>4 DEF Line
  <2>3. InLine(Append(ipc, Connect), 0, 0 + 1, sent, 0, 0)
    <3>1. ipc \in Seq(Messages) /\ Connect \in Messages /\ Connect = Handshake(0 + (0 + 1))
      BY <1>1, Numbers DEF TypeOK
    <3>2. QED
      BY <2>2, <3>1, PutHandshake
  <2>4. ipc' = Append(ipc, Connect) /\ Taken' = 0
    BY <1>2, <1>5, <2>2 DEF Put, Taken
  <2>5. Asked(1)'
    BY <1>2 DEF Asked
  <2>6. 0 + 1 = 1 - 0
    OBVIOUS
  <2>7. QED
    BY <1>2, <2>2, <2>3, <2>4, <2>5, <2>6 DEF Line
<1>6. InOrder'
  BY <1>2, <1>5 DEF InOrder
<1>7. Alone'
  BY <1>1, <1>2, PutKept
<1>8. QED
  BY <1>3, <1>4, <1>6, <1>7 DEF Inv

LEMMA EndConnectInv == Inv /\ EndConnect => Inv'
<1> SUFFICES ASSUME Inv, EndConnect PROVE Inv'
  OBVIOUS
<1>1. TypeOK /\ Linked /\ InOrder /\ Alone
  BY DEF Inv
<1>2. /\ client = "connecting" /\ client' = "connected" /\ Put(SubChannelId)
      /\ holding' = Threads /\ lists' = lists /\ wrapped' = wrapped /\ calls' = calls
      /\ sent' = sent /\ open' = open /\ server' = server /\ got' = got
  BY DEF EndConnect
<1>3. TypeOK'
  <2>1. ipc' \in Seq(Messages)
    BY <1>1, <1>2, Numbers, PutType
  <2>2. QED
    BY <1>1, <1>2, <2>1 DEF TypeOK
<1>4. Linked'
  BY <1>1, <1>2 DEF Linked, Put
<1>5. ASSUME open PROVE Line(2, 0)'
  <2>1. PICK asked \in 0 .. 2, left \in 0 .. 1 : Line(asked, left)
    BY <1>1, <1>5 DEF InOrder
  <2>2. PICK taken \in Nat : taken = Taken
    BY <1>1, Numbers
  <2>3. /\ asked = 1 /\ taken <= 1 /\ left = 0 /\ sent = <<>>
        /\ Len(got) = 0 /\ Len(sent) = 0 /\ InLine(ipc, taken, 1 - taken, sent, 0, 0)
    <3>1. asked = 1 /\ Taken <= asked
      BY <1>2, <2>1 DEF Line, Asked
    <3>2. left = 0 /\ sent = <<>>
      BY <2>1, <3>1 DEF Line
    <3>3. Len(got) = 0 /\ Len(sent) = 0
      BY <1>1, <3>2, Numbers
    <3>4. QED
      BY <2>1, <2>2, <3>1, <3>2, <3>3 DEF Line
  <2>4. InLine(Append(ipc, SubChannelId), taken, (1 - taken) + 1, sent, 0, 0)
    <3>1. ipc \in Seq(Messages) /\ SubChannelId \in Messages
      BY <1>1, Numbers DEF TypeOK
    <3>2. 1 - taken \in Nat /\ taken + ((1 - taken) + 1) = 2
      BY <2>3
    <3>3. SubChannelId = Handshake(taken + ((1 - taken) + 1))
      BY <1>1, <3>2, Numbers
    <3>4. QED
      BY <2>3, <3>1, <3>2, <3>3, PutHandshake
  <2>5. ipc' = Append(ipc, SubChannelId) /\ Taken' = taken
    BY <1>2, <1>5, <2>2 DEF Put, Taken
  <2>6. Asked(2)'
    BY <1>2 DEF Asked
  <2>7. (1 - taken) + 1 = 2 - taken /\ taken <= 2
    BY <2>3
  <2>8. QED
    BY <1>2, <2>3, <2>4, <2>5, <2>6, <2>7 DEF Line
<1>6. InOrder'
  BY <1>2, <1>5 DEF InOrder
<1>7. Alone'
  BY <1>1, <1>2, PutKept
<1>8. QED
  BY <1>3, <1>4, <1>6, <1>7 DEF Inv

LEMMA DropInv == ASSUME NEW t \in Threads PROVE Inv /\ Drop(t) => Inv'
<1> SUFFICES ASSUME Inv, Drop(t) PROVE Inv'
  OBVIOUS
<1>1. TypeOK /\ Linked /\ InOrder /\ Alone
  BY DEF Inv
<1>2. /\ t \in holding /\ holding' = holding \ {t} /\ lists' = lists /\ wrapped' = wrapped
      /\ calls' = calls /\ sent' = sent /\ open' = open /\ server' = server /\ got' = got
      /\ IF holding = {t} THEN client' = "done" /\ Put(Disconnect)
         ELSE client' = client /\ ipc' = ipc
  BY DEF Drop
<1>3. TypeOK'
  <2>1. ipc' \in Seq(Messages)
    <3>1. ipc \in Seq(Messages) /\ Disconnect \in Messages
      BY <1>1, Numbers DEF TypeOK
    <3>2. QED
      BY <1>1, <1>2, <3>1, PutType
  <2>2. QED
    BY <1>1, <1>2, <2>1 DEF TypeOK
<1>4. Linked'
  BY <1>1, <1>2 DEF Linked, Put
<1>5. InOrder'
  <2>1. SUFFICES ASSUME open PROVE InOrder'
    BY <1>2 DEF InOrder
  <2>2. PICK asked \in 0 .. 2, left \in 0 .. 1 : Line(asked, left)
    BY <1>1, <2>1 DEF InOrder
  <2>3. asked = 2 /\ left = 0 /\ Taken <= 2
    BY <1>2, <2>2 DEF Line
  <2>4. Taken' = Taken /\ Len(got)' = Len(got)
    BY <1>2 DEF Taken
  <2>5. CASE holding = {t}
    <3>1. InLine(Append(ipc, Disconnect), Taken, 2 - Taken, sent, Len(got), 1)
      <4>1. PICK q \in Seq(Messages) : q = ipc /\ Disconnect \in Messages
        BY <1>1, Numbers DEF TypeOK
      <4>2. PICK taken \in Nat, lead \in Nat : taken = Taken /\ lead = 2 - Taken
        BY <1>1, <2>3, Numbers
      <4>3. InLine(q, taken, lead, sent, Len(got), 0)
        BY <2>2, <2>3, <4>1, <4>2 DEF Line
      <4>4. Len(sent) \in Nat /\ Len(got) \in Nat /\ Len(got) <= Len(sent)
        BY <1>1, Numbers
      <4>5. InLine(Append(q, Disconnect), taken, lead, sent, Len(got), 1)
        BY <4>1, <4>3, <4>4, PutDisconnect
      <4>6. QED
        BY <4>1, <4>2, <4>5
    <3>2. ipc' = Append(ipc, Disconnect) /\ client' = "done" /\ holding' = {}
      BY <1>2, <2>1, <2>5 DEF Put
    <3>3. Asked(2)'
      BY <3>2 DEF Asked
    <3>4. Line(2, 1)'
      BY <1>2, <2>3, <2>4, <3>1, <3>2, <3>3 DEF Line
    <3>5. QED
      BY <3>4 DEF InOrder
  <2>6. CASE holding # {t}
    <3>1. Asked(2)'
      BY <1>2, <2>2, <2>3, <2>6 DEF Line, Asked
    <3>2. Line(2, 0)'
      BY <1>2, <2>2, <2>3, <2>4, <2>6, <3>1 DEF Line
    <3>3. QED
      BY <3>2 DEF InOrder
  <2>7. QED
    BY <2>5, <2>6
<1>6. Alone'
  BY <1>1, <1>2, PutKept
<1>7. QED
  BY <1>3, <1>4, <1>5, <1>6 DEF Inv

LEMMA DieInv == Inv /\ Die => Inv'
<1> SUFFICES ASSUME Inv, Die PROVE Inv'
  OBVIOUS
<1>1. TypeOK /\ Linked /\ InOrder /\ Alone
  BY DEF Inv
<1>2. /\ client \in {"connecting", "connected", "done"} /\ client' = "dead" /\ holding' = {}
      /\ lists' = [t \in Threads |-> NoHandles] /\ wrapped' = {} /\ calls' = calls
      /\ sent' = sent /\ ipc' = ipc /\ open' = open /\ server' = server /\ got' = got
  BY DEF Die
<1>3. TypeOK'
  <2>1. NoHandles \in Lists
    BY DEF NoHandles, Lists
  <2>2. QED
    BY <1>1, <1>2, <2>1 DEF TypeOK
<1>4. Linked'
  BY <1>1, <1>2 DEF Linked
<1>5. InOrder'
  <2>1. SUFFICES ASSUME open PROVE InOrder'
    BY <1>2 DEF InOrder
  <2>2. PICK asked \in 0 .. 2, left \in 0 .. 1 : Line(asked, left)
    BY <1>1, <2>1 DEF InOrder
  <2>3. Asked(asked)'
    BY <1>2, <2>2 DEF Line, Asked
  <2>4. Taken' = Taken
    BY <1>2 DEF Taken
  <2>5. Line(asked, left)'
    BY <1>2, <2>2, <2>3, <2>4 DEF Line
  <2>6. QED
    BY <2>5 DEF InOrder
<1>6. Alone'
  <2>1. \A i \in 1 .. Len(ipc') : i + 0 \in 1 .. Len(ipc) /\ ipc'[i] = ipc[i + 0]
    BY <1>1, <1>2 DEF TypeOK
  <2>2. \A t \in Threads : lists'[t] = NoHandles
    BY <1>2
  <2>3. QED
    BY <1>1, <1>2, <2>1, <2>2, AloneKept
<1>7. QED
  BY <1>3, <1>4, <1>5, <1>6 DEF Inv

\* A message that is serialized takes its receivers out of their wrappers.
LEMMA SendInv ==
  ASSUME NEW t \in Threads, NEW body \in Bodies PROVE Inv /\ Send(t, body) => Inv'
<1> SUFFICES ASSUME Inv, Send(t, body) PROVE Inv'
  OBVIOUS
<1>1. TypeOK /\ Linked /\ InOrder /\ Alone
  BY DEF Inv
<1>2. PICK done : done = Serialize(body, NoHandles)
  OBVIOUS
<1>3. PICK m : m = [type |-> "Data", payload |-> done.payload, handles |-> done.lists]
  OBVIOUS
<1>4. /\ t \in holding /\ calls' = calls + 1 /\ wrapped' = done.wrapped
      /\ lists' = [lists EXCEPT ![t] = IF done.failed THEN done.lists ELSE NoHandles]
      /\ done.failed => ipc' = ipc /\ sent' = sent
      /\ ~done.failed => Put(m) /\ sent' = IF open THEN Append(sent, body) ELSE sent
      /\ client' = client /\ holding' = holding /\ open' = open /\ server' = server /\ got' = got
  BY <1>2, <1>3 DEF Send, StartLists
<1>5. done \in Written /\ Moved(done) /\ m \in Messages /\ (~done.failed => Carries(m, body))
  BY <1>1, <1>2, <1>3, Serialized DEF TypeOK
<1>6. done.lists \in Lists /\ done.wrapped \subseteq Handles /\ NoHandles \in Lists
  BY <1>5 DEF Written, NoHandles, Lists
<1>7. TypeOK'
  <2>1. ipc' \in Seq(Messages)
    BY <1>1, <1>4, <1>5, PutType DEF TypeOK
  <2>2. sent' \in Seq(Bodies)
    BY <1>1, <1>4 DEF TypeOK
  <2>3. lists' \in [Threads -> Lists]
    BY <1>1, <1>4, <1>6 DEF TypeOK
  <2>4. QED
    BY <1>1, <1>4, <1>6, <2>1, <2>2, <2>3 DEF TypeOK
<1>8. Linked'
  <2>1. CASE done.failed \/ ~open
    BY <1>1, <1>4, <2>1 DEF Linked, Put
  <2>2. CASE ~done.failed /\ open
    <3>1. sent' = Append(sent, body) /\ server \notin {"told", "failed"}
      BY <1>1, <1>4, <2>2 DEF Linked
    <3>2. /\ Len(sent) \in Nat /\ Len(sent') = Len(sent) + 1
          /\ \A i \in 1 .. Len(sent) : sent'[i] = sent[i]
      BY <1>1, <3>1, AppendFacts DEF TypeOK
    <3>3. Len(got) \in Nat /\ Len(got) <= Len(sent) /\ \A i \in 1 .. Len(got) : got[i] = sent[i]
      BY <1>1, Numbers DEF Linked
    <3>4. Len(got') <= Len(sent') /\ \A i \in 1 .. Len(got') : got'[i] = sent'[i]
      BY <1>4, <3>2, <3>3
    <3>5. QED
      BY <1>1, <1>4, <2>2, <3>1, <3>4 DEF Linked
  <2>3. QED
    BY <2>1, <2>2
<1>9. InOrder'
  <2>1. SUFFICES ASSUME open PROVE InOrder'
    BY <1>4 DEF InOrder
  <2>2. PICK asked \in 0 .. 2, left \in 0 .. 1 : Line(asked, left)
    BY <1>1, <2>1 DEF InOrder
  <2>3. asked = 2 /\ left = 0
    BY <1>4, <2>2 DEF Line
  <2>4. /\ Taken' = Taken /\ Taken <= 2 /\ Asked(2)'
        /\ InLine(ipc, Taken, 2 - Taken, sent, Len(got), 0)
    BY <1>4, <2>2, <2>3 DEF Line, Asked, Taken
  <2>5. InLine(ipc', Taken, 2 - Taken, sent', Len(got), 0)
    <3>1. CASE done.failed
      BY <1>4, <2>4, <3>1
    <3>2. CASE ~done.failed
      <4>1. PICK q \in Seq(Messages), s \in Seq(Bodies) : q = ipc /\ s = sent
        BY <1>1 DEF TypeOK
      <4>2. PICK taken \in Nat, lead \in Nat, g \in Nat :
              taken = Taken /\ lead = 2 - Taken /\ g = Len(got) /\ g <= Len(s)
        BY <1>1, <2>4, <4>1, Numbers
      <4>3. InLine(Append(q, m), taken, lead, Append(s, body), g, 0)
        BY <1>5, <2>4, <3>2, <4>1, <4>2, PutData
      <4>4. ipc' = Append(q, m) /\ sent' = Append(s, body)
        BY <1>4, <2>1, <3>2, <4>1 DEF Put
      <4>5. QED
        BY <4>2, <4>3, <4>4
    <3>3. QED
      BY <3>1, <3>2
  <2>6. Line(2, 0)'
    BY <1>4, <2>4, <2>5 DEF Line
  <2>7. QED
    BY <2>6 DEF InOrder
<1>10. Alone'
  <2>1. /\ \A u \in Threads \ {t} : lists'[u] = lists[u]
        /\ lists'[t] = IF done.failed THEN done.lists ELSE NoHandles
    BY <1>1, <1>4 DEF TypeOK
  <2>2. /\ wrapped' \subseteq wrapped
        /\ \A h : Contains(done.lists["receiver"], h) => h \in wrapped \ wrapped'
    BY <1>4, <1>5 DEF Moved
  <2>3. \A h : ~Contains(NoHandles["receiver"], h)
    BY DEF NoHandles, Kinds, Contains
  <2>4. CASE done.failed
    <3>1. ASSUME NEW h \in Handles
          PROVE  One(wrapped' \cap {h}, ListsWith(h)', MessagesWith(h)', GotWith(h)')
      <4>1. One(wrapped \cap {h}, ListsWith(h), MessagesWith(h), GotWith(h))
        BY <1>1 DEF Alone
      <4>2. MessagesWith(h)' = MessagesWith(h) /\ GotWith(h)' = GotWith(h)
        BY <1>4, <2>4 DEF MessagesWith, GotWith
      <4>3. ListsWith(h)' \subseteq ListsWith(h) \cup {t}
        BY <2>1 DEF ListsWith
      <4>4. t \in ListsWith(h)' => wrapped \cap {h} # {} /\ wrapped' \cap {h} = {}
        BY <2>1, <2>2, <2>4 DEF ListsWith
      <4>5. wrapped' \cap {h} \subseteq wrapped \cap {h}
        BY <2>2
      <4>6. QED
        BY <4>1, <4>2, <4>3, <4>4, <4>5, OneListed
    <3>2. QED
      BY <3>1 DEF Alone
  <2>5. CASE ~done.failed /\ open
    <3>1. PICK q \in Seq(Messages) : q = ipc
      BY <1>1 DEF TypeOK
    <3>2. ipc' = Append(q, m)
      BY <1>4, <2>5, <3>1 DEF Put
    <3>3. /\ Len(q) \in Nat /\ Len(ipc') = Len(q) + 1 /\ ipc'[Len(q) + 1] = m
          /\ \A i \in 1 .. Len(q) : ipc'[i] = q[i]
      BY <1>5, <3>2, AppendFacts
    <3>4. ASSUME NEW h \in Handles
          PROVE  One(wrapped' \cap {h}, ListsWith(h)', MessagesWith(h)', GotWith(h)')
      <4>1. One(wrapped \cap {h}, ListsWith(h), MessagesWith(h), GotWith(h))
        BY <1>1 DEF Alone
      <4>2. GotWith(h)' = GotWith(h)
        BY <1>4 DEF GotWith
      <4>3. ListsWith(h)' \subseteq ListsWith(h)
        BY <2>1, <2>3, <2>5 DEF ListsWith
      <4>4. MessagesWith(h)' \subseteq MessagesWith(h) \cup {Len(q) + 1}
        BY <3>1, <3>3 DEF MessagesWith
      <4>5. Len(q) + 1 \in MessagesWith(h)' => wrapped \cap {h} # {} /\ wrapped' \cap {h} = {}
        <5>1. Len(q) + 1 \in MessagesWith(h)' => Contains(done.lists["receiver"], h)
          BY <1>3, <3>3 DEF MessagesWith, Bears
        <5>2. QED
          BY <2>2, <5>1
      <4>6. wrapped' \cap {h} \subseteq wrapped \cap {h}
        BY <2>2
      <4>7. QED
        BY <4>1, <4>2, <4>3, <4>4, <4>5, <4>6, OneSent
    <3>5. QED
      BY <3>4 DEF Alone
  <2>6. CASE ~done.failed /\ ~open
    <3>1. ipc' = ipc /\ ipc \in Seq(Messages)
      BY <1>1, <1>4, <2>6 DEF Put, TypeOK
    <3>2. \A i \in 1 .. Len(ipc') : i + 0 \in 1 .. Len(ipc) /\ ipc'[i] = ipc[i + 0]
      BY <3>1
    <3>3. \A u \in Threads : lists'[u] \in {lists[u], NoHandles}
      BY <2>1, <2>6
    <3>4. QED
      BY <1>1, <1>4, <2>2, <3>2, <3>3, AloneKept
  <2>7. QED
    BY <2>4, <2>5, <2>6
<1>11. QED
  BY <1>7, <1>8, <1>9, <1>10 DEF Inv

-----------------------------------------------------------------------------
(* The steps of the server.                                                *)

LEMMA AcceptConnectInv == Inv /\ AcceptConnect => Inv'
<1> SUFFICES ASSUME Inv, AcceptConnect PROVE Inv'
  OBVIOUS
<1>1. TypeOK /\ Linked /\ InOrder /\ Alone
  BY DEF Inv
<1>2. /\ server = "listening" /\ ipc # <<>> /\ ipc' = Tail(ipc) /\ server' = "connected"
      /\ open' = open /\ got' = got /\ UNCHANGED clientVars
  BY DEF AcceptConnect, Take
<1>3. /\ client' = client /\ holding' = holding /\ lists' = lists /\ wrapped' = wrapped
      /\ calls' = calls /\ sent' = sent
  BY <1>2 DEF clientVars
<1>4. PICK q \in Seq(Messages) : q = ipc
  BY <1>1 DEF TypeOK
<1>5. TypeOK'
  <2>1. Tail(q) \in Seq(Messages)
    BY <1>2, <1>4, TailFacts
  <2>2. QED
    BY <1>1, <1>2, <1>3, <1>4, <2>1 DEF TypeOK
<1>6. open
  BY <1>1, <1>2 DEF Linked
<1>7. Linked'
  BY <1>1, <1>2, <1>3, <1>6 DEF Linked
<1>8. InOrder'
  <2>1. PICK asked \in 0 .. 2, left \in 0 .. 1 : Line(asked, left)
    BY <1>1, <1>6 DEF InOrder
  <2>2. Len(got) \in Nat /\ Len(sent) \in Nat /\ Len(got) <= Len(sent)
    BY <1>1, Numbers
  <2>3. InLine(q, 0, asked, sent, Len(got), left)
    <3>1. Taken = 0 /\ asked - 0 = asked
      BY <1>2 DEF Taken
    <3>2. QED
      BY <1>4, <2>1, <3>1 DEF Line
  <2>4. asked # 0
    <3>1. SUFFICES ASSUME asked = 0 PROVE FALSE
      OBVIOUS
    <3>2. Len(q) = 0 + (Len(sent) - Len(got)) + 0 /\ Len(sent) = 0 /\ Len(got) = 0
      BY <1>1, <2>1, <2>3, <3>1, Numbers DEF Line, InLine
    <3>3. Len(q) = 0
      BY <3>2
    <3>4. QED
      BY <1>2, <1>4, <3>3
  <2>5. InLine(Tail(q), 0 + 1, asked - 1, sent, Len(got), left)
    BY <1>2, <1>4, <2>2, <2>3, <2>4, TakeHandshake
  <2>6. Asked(asked)' /\ Taken' = 1 /\ 0 + 1 = 1 /\ 1 <= asked
    BY <1>2, <1>3, <2>1, <2>4 DEF Line, Asked, Taken
  <2>7. Line(asked, left)'
    BY <1>2, <1>3, <1>4, <2>1, <2>5, <2>6 DEF Line
  <2>8. QED
    BY <2>7 DEF InOrder
<1>9. Alone'
  BY <1>1, <1>2, TailKept
<1>10. QED
  BY <1>5, <1>7, <1>8, <1>9 DEF Inv

LEMMA CloseInv ==
  ASSUME Inv, Close, UNCHANGED clientVars, got' = got,
         server' \in {"panicked", "failed", "told", "dropped"},
         server' = "panicked" => client = "dead",
         server' \in {"told", "failed"} => Len(got) = Len(sent)
  PROVE  Inv'
<1>1. TypeOK /\ Linked /\ Alone
  BY DEF Inv
<1>2. /\ client' = client /\ holding' = holding /\ lists' = lists /\ wrapped' = wrapped
      /\ calls' = calls /\ sent' = sent /\ open' = FALSE /\ ipc' = <<>>
  BY DEF clientVars, Close
<1>3. TypeOK'
  <2>1. ipc' \in Seq(Messages)
    BY <1>2
  <2>2. QED
    BY <1>1, <1>2, <2>1 DEF TypeOK
<1>4. Linked'
  BY <1>1, <1>2 DEF Linked
<1>5. InOrder'
  BY <1>2 DEF InOrder
<1>6. Alone'
  BY <1>1, CloseKept
<1>7. QED
  BY <1>3, <1>4, <1>5, <1>6 DEF Inv

LEMMA AcceptSubChannelInv == Inv /\ AcceptSubChannel => Inv'
<1> SUFFICES ASSUME Inv, AcceptSubChannel PROVE Inv'
  OBVIOUS
<1>1. TypeOK /\ Linked /\ InOrder /\ Alone
  BY DEF Inv
<1>2. /\ server = "connected" /\ (ipc # <<>> \/ HungUp) /\ got' = got /\ UNCHANGED clientVars
      /\ IF ipc # <<>> /\ Head(ipc) = SubChannelId
         THEN server' = "attached" /\ ipc' = Tail(ipc) /\ open' = open
         ELSE server' = "panicked" /\ Close
  BY DEF AcceptSubChannel
<1>3. /\ client' = client /\ holding' = holding /\ lists' = lists /\ wrapped' = wrapped
      /\ calls' = calls /\ sent' = sent
  BY <1>2 DEF clientVars
<1>4. PICK q \in Seq(Messages) : q = ipc
  BY <1>1 DEF TypeOK
<1>5. open
  BY <1>1, <1>2 DEF Linked
<1>6. PICK asked \in 0 .. 2, left \in 0 .. 1 : Line(asked, left)
  BY <1>1, <1>5 DEF InOrder
<1>7. Len(got) \in Nat /\ Len(sent) \in Nat /\ Len(got) <= Len(sent)
  BY <1>1, Numbers
<1>8. 1 <= asked /\ InLine(q, 1, asked - 1, sent, Len(got), left)
  <2>1. Taken = 1
    BY <1>2 DEF Taken
  <2>2. QED
    BY <1>4, <1>6, <2>1 DEF Line
<1>9. ASSUME q # <<>> PROVE asked = 2
  <2>1. SUFFICES ASSUME asked = 1 PROVE FALSE
    BY <1>8
  <2>2. /\ Len(q) = (asked - 1) + (Len(sent) - Len(got)) + left
        /\ left = 0 /\ Len(sent) = 0 /\ Len(got) = 0
    BY <1>1, <1>6, <1>8, <2>1, Numbers DEF Line, InLine
  <2>3. Len(q) = 0
    BY <2>1, <2>2
  <2>4. QED
    BY <1>9, <2>3
<1>10. ASSUME q # <<>>
       PROVE  Head(q) = SubChannelId /\ InLine(Tail(q), 2, 0, sent, Len(got), left)
  <2>1. InLine(q, 1, 1, sent, Len(got), left)
    BY <1>8, <1>9, <1>10
  <2>2. Head(q) = Handshake(1 + 1) /\ InLine(Tail(q), 1 + 1, 1 - 1, sent, Len(got), left)
    BY <1>7, <1>10, <2>1, TakeHandshake
  <2>3. 1 + 1 = 2 /\ 1 - 1 = 0
    OBVIOUS
  <2>4. QED
    BY <1>1, <2>2, <2>3, Numbers
<1>11. CASE q # <<>>
  <2>1. server' = "attached" /\ ipc' = Tail(q) /\ open' = open
    BY <1>2, <1>4, <1>10, <1>11
  <2>2. TypeOK'
    <3>1. Tail(q) \in Seq(Messages)
      BY <1>11, TailFacts
    <3>2. QED
      BY <1>1, <1>2, <1>3, <2>1, <3>1 DEF TypeOK
  <2>3. Linked'
    BY <1>1, <1>2, <1>3, <1>5, <2>1 DEF Linked
  <2>4. Line(2, left)'
    <3>1. Asked(2)' /\ Taken' = 2 /\ 2 - 2 = 0
      BY <1>3, <1>6, <1>9, <1>11, <2>1 DEF Line, Asked, Taken
    <3>2. QED
      BY <1>2, <1>3, <1>6, <1>10, <1>11, <2>1, <3>1 DEF Line
  <2>5. InOrder'
    BY <2>4 DEF InOrder
  <2>6. Alone'
    BY <1>1, <1>2, <1>4, <1>11, <2>1, TailKept
  <2>7. QED
    BY <2>2, <2>3, <2>5, <2>6 DEF Inv
<1>12. CASE q = <<>>
  <2>1. client = "dead" /\ server' = "panicked" /\ Close
    BY <1>2, <1>4, <1>12 DEF HungUp
  <2>2. QED
    BY <1>2, <2>1, CloseInv
<1>13. QED
  BY <1>11, <1>12

\* The first of the messages that are sent and not received.
LEMMA ReceiveInv == Inv /\ Receive => Inv'
<1> SUFFICES ASSUME Inv, Receive PROVE Inv'
  OBVIOUS
<1>1. TypeOK /\ Linked /\ InOrder /\ Alone
  BY DEF Inv
<1>2. PICK result : result = Deserialize(Head(ipc))
  OBVIOUS
<1>3. /\ server \in {"attached", "accepted"} /\ ipc # <<>> /\ Head(ipc).type = "Data"
      /\ got' = Append(got, IF result.failed THEN <<>> ELSE result.body)
      /\ ~result.failed => server' = "accepted" /\ ipc' = Tail(ipc) /\ open' = open
      /\ UNCHANGED clientVars
  BY <1>2 DEF Receive
<1>4. /\ client' = client /\ holding' = holding /\ lists' = lists /\ wrapped' = wrapped
      /\ calls' = calls /\ sent' = sent
  BY <1>3 DEF clientVars
<1>5. PICK q \in Seq(Messages), s \in Seq(Bodies) : q = ipc /\ s = sent
  BY <1>1 DEF TypeOK
<1>6. PICK g \in Nat : g = Len(got) /\ Len(s) \in Nat /\ g <= Len(s)
  BY <1>1, <1>5, Numbers
<1>7. open
  BY <1>1, <1>3 DEF Linked
<1>8. PICK left \in 0 .. 1 : Line(2, left)
  <2>1. PICK asked \in 0 .. 2, left \in 0 .. 1 : Line(asked, left)
    BY <1>1, <1>7 DEF InOrder
  <2>2. Taken = 2
    BY <1>3 DEF Taken
  <2>3. asked = 2
    BY <2>1, <2>2 DEF Line
  <2>4. QED
    BY <2>1, <2>3
<1>9. InLine(q, 2, 0, s, g, left)
  <2>1. Taken = 2 /\ 2 - 2 = 0
    BY <1>3 DEF Taken
  <2>2. QED
    BY <1>5, <1>6, <1>8, <2>1 DEF Line
<1>10. g < Len(s)
  <2>1. Disconnect.type # "Data"
    BY DEF Disconnect
  <2>2. g # Len(s)
    BY <1>3, <1>5, <1>9, <2>1, AtTheEnd
  <2>3. QED
    BY <1>6, <2>2
<1>11. Carries(Head(q), s[g + 1]) /\ InLine(Tail(q), 2, 0, s, g + 1, left)
  BY <1>3, <1>5, <1>6, <1>9, <1>10, TakeData
<1>12. PICK b \in Bodies : b = s[g + 1]
  BY <1>6, <1>10
<1>13. ~result.failed /\ result.body = b
  BY <1>2, <1>5, <1>11, <1>12 DEF Carries
<1>14. got' = Append(got, b) /\ server' = "accepted" /\ ipc' = Tail(q) /\ open' = open
  BY <1>3, <1>5, <1>13
<1>15. /\ got' \in Seq(Bodies) /\ Len(got') = g + 1 /\ got'[g + 1] = b
       /\ \A i \in 1 .. g : got'[i] = got[i]
  BY <1>1, <1>6, <1>14, AppendFacts DEF TypeOK
<1>16. /\ Tail(q) \in Seq(Messages) /\ Head(q) = q[1] /\ Len(q) \in Nat /\ Len(q) >= 1
       /\ Len(ipc') = Len(q) - 1 /\ \A i \in 1 .. Len(ipc') : ipc'[i] = q[i + 1]
  BY <1>3, <1>5, <1>14, TailFacts
<1>17. TypeOK'
  BY <1>1, <1>4, <1>14, <1>15, <1>16 DEF TypeOK
<1>18. Linked'
  <2>1. \A i \in 1 .. g : got[i] = s[i]
    BY <1>1, <1>5, <1>6 DEF Linked
  <2>2. Len(got') <= Len(s) /\ \A i \in 1 .. Len(got') : got'[i] = s[i]
    BY <1>6, <1>10, <1>12, <1>15, <2>1
  <2>3. QED
    BY <1>1, <1>4, <1>5, <1>7, <1>14, <2>2 DEF Linked
<1>19. InOrder'
  <2>1. Asked(2)' /\ Taken' = 2 /\ 2 - 2 = 0
    BY <1>4, <1>8, <1>14 DEF Line, Asked, Taken
  <2>2. Line(2, left)'
    BY <1>4, <1>5, <1>8, <1>11, <1>14, <1>15, <2>1 DEF Line
  <2>3. QED
    BY <2>2 DEF InOrder
<1>20. ASSUME NEW h \in Handles
       PROVE  One(wrapped' \cap {h}, ListsWith(h)', MessagesWith(h)', GotWith(h)')
  <2>1. One(wrapped \cap {h}, ListsWith(h), MessagesWith(h), GotWith(h))
    BY <1>1 DEF Alone
  <2>2. ListsWith(h)' = ListsWith(h)
    BY <1>4 DEF ListsWith
  <2>3. \A i \in MessagesWith(h)' : i \in Nat /\ i >= 1 /\ i + 1 \in MessagesWith(h)
    BY <1>5, <1>16 DEF MessagesWith
  <2>4. GotWith(h)' \subseteq GotWith(h) \cup {g + 1}
    BY <1>6, <1>15 DEF GotWith
  <2>5. g + 1 \in GotWith(h)' => 1 \in MessagesWith(h)
    <3>1. g + 1 \in GotWith(h)' => h \in Receivers(b)
      BY <1>15 DEF GotWith
    <3>2. h \in Receivers(b) => Bears(q[1], h)
      BY <1>11, <1>12, <1>16 DEF Carries, Bears
    <3>3. Bears(q[1], h) => 1 \in MessagesWith(h)
      BY <1>5, <1>16 DEF MessagesWith
    <3>4. QED
      BY <3>1, <3>2, <3>3
  <2>6. QED
    BY <1>4, <2>1, <2>2, <2>3, <2>4, <2>5, OneReceived
<1>21. Alone'
  BY <1>20 DEF Alone
<1>22. QED
  BY <1>17, <1>18, <1>19, <1>21 DEF Inv

\* A message in line would have been first.
LEMMA HearDisconnectInv == Inv /\ HearDisconnect => Inv'
<1> SUFFICES ASSUME Inv, HearDisconnect PROVE Inv'
  OBVIOUS
<1>1. TypeOK /\ Linked /\ InOrder /\ Alone
  BY DEF Inv
<1>2. /\ server \in {"attached", "accepted"} /\ server' \in {"failed", "told"}
      /\ ipc = <<>> \/ Head(ipc) = Disconnect
      /\ Close /\ UNCHANGED clientVars /\ got' = got
  BY DEF HearDisconnect, HungUp
<1>3. PICK q \in Seq(Messages), s \in Seq(Bodies) : q = ipc /\ s = sent
  BY <1>1 DEF TypeOK
<1>4. PICK g \in Nat : g = Len(got) /\ Len(s) \in Nat /\ g <= Len(s)
  BY <1>1, <1>3, Numbers
<1>5. open
  BY <1>1, <1>2 DEF Linked
<1>6. PICK asked \in 0 .. 2, left \in 0 .. 1 : Line(asked, left)
  BY <1>1, <1>5 DEF InOrder
<1>7. InLine(q, 2, 0, s, g, left)
  <2>1. Taken = 2
    BY <1>2 DEF Taken
  <2>2. asked = 2 /\ 2 - 2 = 0
    BY <1>6, <2>1 DEF Line
  <2>3. QED
    BY <1>3, <1>4, <1>6, <2>1, <2>2 DEF Line
<1>8. g = Len(s)
  <2>1. SUFFICES ASSUME g < Len(s) PROVE FALSE
    BY <1>4
  <2>2. Len(q) = 0 + (Len(s) - g) + left
    BY <1>7 DEF InLine
  <2>3. q # <<>>
    BY <1>4, <2>1, <2>2
  <2>4. Carries(Head(q), s[g + 1])
    BY <1>4, <1>7, <2>1, <2>3, TakeData
  <2>5. Disconnect.type # "Data"
    BY DEF Disconnect
  <2>6. QED
    BY <1>2, <1>3, <2>3, <2>4, <2>5 DEF Carries
<1>9. QED
  BY <1>2, <1>3, <1>4, <1>8, CloseInv

LEMMA DropReceiverInv == Inv /\ DropReceiver => Inv'
BY CloseInv DEF DropReceiver

-----------------------------------------------------------------------------
(* The theorems.                                                           *)

LEMMA NextInv == Inv /\ [Next]_vars => Inv'
<1> SUFFICES ASSUME Inv, [Next]_vars PROVE Inv'
  OBVIOUS
<1>1. CASE BeginConnect \/ EndConnect \/ Die
  BY <1>1, BeginConnectInv, EndConnectInv, DieInv
<1>2. CASE \E t \in Threads : Drop(t) \/ \E body \in Bodies : Send(t, body)
  BY <1>2, DropInv, SendInv
<1>3. CASE Accept \/ DropReceiver
  BY <1>3, AcceptConnectInv, AcceptSubChannelInv, ReceiveInv, HearDisconnectInv, DropReceiverInv
     DEF Accept
<1>4. CASE UNCHANGED vars
  BY <1>4 DEF vars, clientVars, Inv, TypeOK, Linked, InOrder, Line, Asked, Taken, Alone,
       ListsWith, MessagesWith, GotWith
<1>5. QED
  BY <1>1, <1>2, <1>3, <1>4 DEF Next

\* The variables stay in their types, the messages of connect, send and the last drop
\* stay in line (MultiSender::connect, SubSender::connect, SubChannelSender::send,
\* SubChannelDisconnector::dropped), and no raw receiver is in two places.
THEOREM InductiveInvariant == Spec => []Inv
BY InitInv, NextInv, PTL DEF Spec

\* ReceivedAsSent: whatever sends failed before it on the same thread, RawMessage::to
\* and the Deserialize of the wrappers make of a message the items it was sent with,
\* and messages are received in the order of their sending.
THEOREM ReceivedAsSentHolds == Spec => []ReceivedAsSent
<1>1. Inv => ReceivedAsSent
  <2>1. SUFFICES ASSUME Inv PROVE ReceivedAsSent
    OBVIOUS
  <2>2. PICK s \in Seq(Bodies), g \in Seq(Bodies) : s = sent /\ g = got
    BY <2>1 DEF Inv, TypeOK
  <2>3. Len(g) \in Nat /\ Len(g) <= Len(s) /\ \A i \in 1 .. Len(g) : g[i] = s[i]
    BY <2>1, <2>2 DEF Inv, Linked
  <2>4. g = SubSeq(s, 1, Len(g))
    BY <2>3
  <2>5. QED
    BY <2>2, <2>3, <2>4 DEF ReceivedAsSent, IsPrefix
<1>2. QED
  BY <1>1, InductiveInvariant, PTL

\* CarriesItsOwn: SubChannelSender::send clears the lists, and takes for the Data
\* message what the serialization of its own payload has left in them.
THEOREM CarriesItsOwnHolds == Spec => []CarriesItsOwn
<1>1. Inv => CarriesItsOwn
  <2>1. SUFFICES ASSUME Inv, NEW i \in DOMAIN ipc, ipc[i].type = "Data", NEW k \in Kinds
                 PROVE  Len(ipc[i].handles[k]) = Cardinality(OfKind(ipc[i].payload, k))
    BY Zenon DEF CarriesItsOwn, OfKind
  <2>2. PICK q \in Seq(Messages) : q = ipc
    BY <2>1 DEF Inv, TypeOK
  <2>3. i \in 1 .. Len(q)
    BY <2>1, <2>2
  <2>4. open
    BY <2>1, <2>2, <2>3 DEF Inv, Linked
  <2>5. PICK asked \in 0 .. 2, left \in 0 .. 1 : Line(asked, left)
    BY <2>1, <2>4 DEF Inv, InOrder
  <2>6. Len(got) \in Nat /\ Len(sent) \in Nat /\ Len(got) <= Len(sent) /\ Taken \in 0 .. 2
    BY <2>1, Numbers DEF Inv
  <2>7. PICK lead \in Nat : lead = asked - Taken
    BY <2>5, <2>6 DEF Line
  <2>8. InLine(q, Taken, lead, sent, Len(got), left)
    BY <2>2, <2>5, <2>7 DEF Line
  <2>9. \E b : Carries(q[i], b)
    BY <2>1, <2>2, <2>3, <2>6, <2>8, OwnInLine
  <2>10. QED
    BY <2>1, <2>2, <2>9 DEF Carries
<1>2. QED
  BY <1>1, InductiveInvariant, PTL

\* A set without two members has one at most.
LEMMA AtMostOne ==
  ASSUME NEW S, \A p, q \in S : p = q
  PROVE  Cardinality(S) <= 1
<1>1. CASE S = {}
  BY <1>1, FS_EmptySet
<1>2. CASE S # {}
  <2>1. PICK p : p \in S
    BY <1>2
  <2>2. S = {p}
    BY <2>1
  <2>3. Cardinality({p}) = 1
    BY FS_Singleton
  <2>4. QED
    BY <2>2, <2>3
<1>3. QED
  BY <1>1, <1>2

\* ReceiverInOnePlace: serialization takes the raw receiver out of its wrapper
\* (Serialize of IpcReceiver) and it is in one place from there on, also when the
\* serialization fails, the client dies or the server closes its end.
THEOREM ReceiverInOnePlaceHolds == Spec => []ReceiverInOnePlace
<1>1. Inv => ReceiverInOnePlace
  <2>1. SUFFICES ASSUME Inv, NEW body \in Bodies, NEW h \in Receivers(body)
                 PROVE  Cardinality(Places(h)) <= 1
    BY DEF ReceiverInOnePlace
  <2>2. h \in Handles
    BY DEF Receivers, Handles
  <2>3. PICK W, L, M, G :
          W = wrapped \cap {h} /\ L = ListsWith(h) /\ M = MessagesWith(h) /\ G = GotWith(h)
    OBVIOUS
  <2>4. One(W, L, M, G)
    BY <2>1, <2>2, <2>3 DEF Inv, Alone
  <2>5. Places(h) =      {<<"wrapper">> : w \in W} \cup {<<"list", t>> : t \in L}
                    \cup {<<"message", i>> : i \in M} \cup {<<"received", i>> : i \in G}
    <3>1. DOMAIN ipc = 1 .. Len(ipc) /\ DOMAIN got = 1 .. Len(got)
      BY <2>1 DEF Inv, TypeOK
    <3>2. QED
      BY <2>3, <3>1, Zenon DEF Places, ListsWith, MessagesWith, GotWith, Bears
  <2>6. ASSUME NEW p \in Places(h), NEW q \in Places(h) PROVE p = q
    BY <2>4, <2>5, <2>6 DEF One
  <2>7. QED
    BY <2>6, AtMostOne
<1>2. QED
  BY <1>1, InductiveInvariant, PTL

\* PanicsOnlyIfClientDied: accept expects receive_sub_channel to succeed
\* (SubOneShotServer::accept), which fails only if the client died between the two
\* messages of SubSender::connect.
THEOREM PanicsOnlyIfClientDiedHolds == Spec => []PanicsOnlyIfClientDied
<1>1. Inv => PanicsOnlyIfClientDied
  BY DEF Inv, Linked, PanicsOnlyIfClientDied
<1>2. QED
  BY <1>1, InductiveInvariant, PTL

\* ToldAfterAll: the Disconnect of the last clone and the hang-up of a client that
\* died are behind all of its messages.
THEOREM ToldAfterAllHolds == Spec => []ToldAfterAll
<1>1. Inv => ToldAfterAll
  <2>1. SUFFICES ASSUME Inv, server \in {"told", "failed"} PROVE got = sent
    BY DEF ToldAfterAll
  <2>2. PICK s \in Seq(Bodies), g \in Seq(Bodies) : s = sent /\ g = got
    BY <2>1 DEF Inv, TypeOK
  <2>3. Len(g) = Len(s) /\ \A i \in 1 .. Len(g) : g[i] = s[i]
    BY <2>1, <2>2 DEF Inv, Linked
  <2>4. g = s
    BY <2>3
  <2>5. QED
    BY <2>2, <2>4
<1>2. QED
  BY <1>1, InductiveInvariant, PTL
=============================================================================
