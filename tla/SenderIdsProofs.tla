--------------------------- MODULE SenderIdsProofs ---------------------------
(***************************************************************************)
(* Proofs about SenderIds: when one thread sends, UUIDs are known, and     *)
(* Sources and Targets agree, for any embedded subsenders, any numbers of  *)
(* messages and any channels that go.                                      *)
(*                                                                         *)
(* A Source says that an IPC sender has been mentioned in full.  The       *)
(* invariant says where the mention is: the receiver has it, or it is      *)
(* ahead in the channel, or in the call that is under way, or is missed.   *)
(***************************************************************************)
EXTENDS SenderIds, TLAPS

OneThread == \A t, u \in Threads : t = u

-----------------------------------------------------------------------------
(* Types.                                                                  *)

\* A call has something left to announce while it announces.
Announcing == \A t \in Threads : calls[t].announcing # "no" => calls[t].todo # <<>>

\* Queues stay typed as they lose their first element.
LEMMA HeadTailTyped ==
  ASSUME NEW S, NEW q \in Seq(S), q # <<>>
  PROVE  Head(q) \in S /\ Tail(q) \in Seq(S)
OBVIOUS

\* What is appended comes first in an empty queue only.
LEMMA HeadAppended ==
  ASSUME NEW q \in Seq(BOOLEAN), NEW x \in BOOLEAN, NEW p, p = Append(q, x)
  PROVE  /\ p # <<>>
         /\ q = <<>> => Head(p) = x
         /\ q # <<>> => Head(p) = Head(q)
OBVIOUS

\* What replacing one value of a function changes.
LEMMA Replaced ==
  ASSUME NEW D, NEW f, f = [d \in D |-> f[d]], NEW e \in D, NEW x,
         NEW g, g = [f EXCEPT ![e] = x]
  PROVE  g[e] = x /\ \A d \in D : d # e => g[d] = f[d]
OBVIOUS

\* The parts of a call ...
LEMMA CallTyped ==
  ASSUME NEW c \in Calls
  PROVE  /\ c.todo \in Seq(Embeddable) /\ c.mentions \in Seq(Mentions)
         /\ c.announcing \in {"no", "in_full", "by_id"}
         /\ c = [todo |-> c.todo, announcing |-> c.announcing, mentions |-> c.mentions]
BY DEF Calls

\* ... make a call.
LEMMA RecordIsCall ==
  ASSUME NEW todo \in Seq(Embeddable), NEW a \in {"no", "in_full", "by_id"},
         NEW m \in Seq(Mentions)
  PROVE  [todo |-> todo, announcing |-> a, mentions |-> m] \in Calls
BY DEF Calls

\* Settling how the carrier is mentioned changes nothing else.
LEMMA SettledIsCall ==
  ASSUME NEW c \in Calls, NEW a \in {"no", "in_full", "by_id"},
         NEW d, d = [c EXCEPT !.announcing = a]
  PROVE  d \in Calls /\ d.todo = c.todo /\ d.mentions = c.mentions /\ d.announcing = a
BY DEF Calls

\* A thread that settles it changes no other call.
LEMMA SettledCall ==
  ASSUME calls \in [Threads -> Calls], NEW t \in Threads, NEW a \in {"in_full", "by_id"},
         calls' = [calls EXCEPT ![t].announcing = a]
  PROVE  /\ calls' \in [Threads -> Calls]
         /\ \A u \in Threads : calls'[u].todo = calls[u].todo
         /\ \A u \in Threads : calls'[u].mentions = calls[u].mentions
         /\ calls'[t].announcing = a /\ \A u \in Threads \ {t} : calls'[u] = calls[u]
<1>1. PICK d : d = [calls[t] EXCEPT !.announcing = a]
  OBVIOUS
<1>2. /\ d \in Calls /\ d.todo = calls[t].todo /\ d.mentions = calls[t].mentions
      /\ d.announcing = a
  <2>1. PICK c \in Calls : c = calls[t]
    OBVIOUS
  <2>2. d = [c EXCEPT !.announcing = a]
    BY <1>1, <2>1
  <2>3. d \in Calls /\ d.todo = c.todo /\ d.mentions = c.mentions /\ d.announcing = a
    BY <2>2, SettledIsCall
  <2>4. QED
    BY <2>1, <2>3
<1>3. calls' = [calls EXCEPT ![t] = d]
  BY <1>1
<1>4. \A u \in Threads : calls'[u] = IF u = t THEN d ELSE calls[u]
  BY <1>3
<1>5. calls' \in [Threads -> Calls]
  BY <1>2, <1>3
<1>6. QED
  BY <1>2, <1>4, <1>5

LEMMA IdleTyped == Idle \in Calls /\ Idle.announcing = "no" /\ Idle.mentions = <<>>
<1>1. <<>> \in Seq(Embeddable) /\ <<>> \in Seq(Mentions)
  OBVIOUS
<1>2. QED
  BY <1>1, RecordIsCall DEF Idle

\* The senders of mentions are embeddables.
LEMMA InFullTyped ==
  ASSUME NEW m \in Seq(Mentions)
  PROVE  /\ InFull(m) \subseteq Embeddable
         /\ \A i \in DOMAIN m : m[i].sender \in Embeddable /\ m[i].full \in BOOLEAN
<1>1. \A i \in DOMAIN m : m[i] \in Mentions
  OBVIOUS
<1>2. QED
  BY <1>1 DEF InFull, Mentions

LEMMA TypeStep ==
  ASSUME TypeOK, Announcing, [Next]_vars
  PROVE  TypeOK' /\ Announcing'
<1> USE DEF TypeOK, Announcing
<1>1. ASSUME NEW t \in Threads, BeginSend(t) PROVE TypeOK' /\ Announcing'
  <2>0. PICK n \in 1 .. MaxEmbedded : \E embedded \in [1 .. n -> Embeddable] :
          calls' = [calls EXCEPT ![t] = [Idle EXCEPT !.todo = embedded]]
    BY <1>1 DEF BeginSend
  <2>1. PICK embedded \in [1 .. n -> Embeddable] :
          calls' = [calls EXCEPT ![t] = [Idle EXCEPT !.todo = embedded]]
    BY <2>0
  <2>2. embedded \in Seq(Embeddable)
    BY SenderIdsAssumption
  <2>3. [Idle EXCEPT !.todo = embedded]
          = [todo |-> embedded, announcing |-> "no", mentions |-> <<>>]
    BY DEF Idle
  <2>4. [Idle EXCEPT !.todo = embedded] \in Calls
    <3>1. <<>> \in Seq(Mentions)
      OBVIOUS
    <3>2. QED
      BY <2>2, <2>3, <3>1, RecordIsCall
  <2>5. calls' \in [Threads -> Calls]
    BY <2>1, <2>4
  <2>6. Announcing'
    BY <2>1, <2>3
  <2>7. QED
    BY <1>1, <2>5, <2>6 DEF BeginSend
<1>2. ASSUME NEW t \in Threads, MentionCarrier(t) PROVE TypeOK' /\ Announcing'
  <2>1. /\ calls[t] \in Calls /\ calls[t].todo # <<>>
        /\ calls[t].todo \in Seq(Embeddable) /\ calls[t].mentions \in Seq(Mentions)
        /\ Head(calls[t].todo) \in Embeddable
    BY <1>2, CallTyped, HeadTailTyped DEF MentionCarrier
  <2>2. PICK a \in {"in_full", "by_id"} : calls' = [calls EXCEPT ![t].announcing = a]
    BY <1>2 DEF MentionCarrier
  <2>3. /\ calls' \in [Threads -> Calls] /\ calls'[t].todo # <<>>
        /\ \A u \in Threads \ {t} : calls'[u] = calls[u]
    BY <2>1, <2>2, SettledCall
  <2>4. Announcing'
    BY <2>3
  <2>5. QED
    BY <1>2, <2>1, <2>3, <2>4 DEF MentionCarrier
<1>3. ASSUME NEW t \in Threads, Announce(t) PROVE TypeOK' /\ Announcing'
  <2> DEFINE e == Head(calls[t].todo)
  <2>1. /\ calls[t] \in Calls /\ calls[t].todo # <<>> /\ e \in Embeddable
        /\ Tail(calls[t].todo) \in Seq(Embeddable) /\ calls[t].mentions \in Seq(Mentions)
    BY <1>3, CallTyped, HeadTailTyped DEF Announce
  <2>2. Idle \in Calls /\ Idle.announcing = "no" /\ InFull(calls[t].mentions) \subseteq Embeddable
    BY <2>1, IdleTyped, InFullTyped
  <2>3. CASE e \in owned
    <3>1. PICK next : next = [todo |-> Tail(calls[t].todo), announcing |-> "no",
             mentions |-> Append(calls[t].mentions, [sender |-> e, full |-> e \notin source])]
      OBVIOUS
    <3>2. [sender |-> e, full |-> e \notin source] \in Mentions
      BY <2>1 DEF Mentions
    <3>3. next \in Calls /\ next.announcing = "no"
      <4>1. Append(calls[t].mentions, [sender |-> e, full |-> e \notin source]) \in Seq(Mentions)
        BY <2>1, <3>2
      <4>2. QED
        BY <2>1, <3>1, <4>1, RecordIsCall
    <3>4. calls' = [calls EXCEPT ![t] = next]
      BY <1>3, <2>3, <3>1 DEF Announce
    <3>5. calls' \in [Threads -> Calls] /\ Announcing'
      BY <3>3, <3>4
    <3>6. sendings' \in [Embeddable -> Seq(BOOLEAN)] /\ source' \subseteq Embeddable
      <4>1. Append(sendings[e], calls[t].announcing = "in_full") \in Seq(BOOLEAN)
        BY <2>1
      <4>2. QED
        BY <1>3, <2>1, <2>3, <4>1 DEF Announce
    <3>7. QED
      BY <1>3, <2>3, <3>5, <3>6 DEF Announce
  <2>4. CASE e \notin owned
    BY <1>3, <2>2, <2>4 DEF Announce
  <2>5. QED
    BY <2>3, <2>4
<1>4. ASSUME NEW t \in Threads, SendData(t) PROVE TypeOK' /\ Announcing'
  <2>1. calls[t].mentions \in Seq(Mentions) /\ Idle \in Calls /\ Idle.announcing = "no"
    BY IdleTyped, CallTyped
  <2>2. data' \in Seq(Seq(Mentions))
    BY <1>4, <2>1 DEF SendData
  <2>3. QED
    BY <1>4, <2>1, <2>2 DEF SendData
<1>5. CASE HandleData
  <2>1. Head(data) \in Seq(Mentions) /\ data' \in Seq(Seq(Mentions))
    BY <1>5 DEF HandleData
  <2>2. target' \subseteq Embeddable /\ missed' \subseteq Embeddable
    BY <1>5, <2>1, InFullTyped DEF HandleData
  <2>3. QED
    BY <1>5, <2>1, <2>2 DEF HandleData
<1>6. ASSUME NEW e \in Embeddable, HandleSending(e) PROVE TypeOK' /\ Announcing'
  <2>1. Tail(sendings[e]) \in Seq(BOOLEAN)
    BY <1>6, HeadTailTyped DEF HandleSending
  <2>2. QED
    BY <1>6, <2>1 DEF HandleSending
<1>7. ASSUME NEW e \in Embeddable, LoseOwner(e) PROVE TypeOK' /\ Announcing'
  BY <1>7 DEF LoseOwner
<1>8. CASE UNCHANGED vars
  BY <1>8 DEF vars
<1>9. QED
  BY <1>1, <1>2, <1>3, <1>4, <1>5, <1>6, <1>7, <1>8 DEF Next, ThreadStep

\* Variables keep their types, however many threads send.
THEOREM TypeCorrect == Spec => [](TypeOK /\ Announcing)
<1>1. Init => TypeOK /\ Announcing
  <2> SUFFICES ASSUME Init PROVE TypeOK /\ Announcing
    OBVIOUS
  <2>1. Idle \in Calls /\ Idle.announcing = "no"
    BY IdleTyped
  <2>2. QED
    BY <2>1 DEF Init, TypeOK, Announcing
<1>2. TypeOK /\ Announcing /\ [Next]_vars => (TypeOK /\ Announcing)'
  BY TypeStep
<1>3. QED
  BY <1>1, <1>2, PTL DEF Spec

-----------------------------------------------------------------------------
(* The carrier's UUID in Sending messages.                                 *)

\* The owner of e has the carrier's IPC sender, or gets it next.
Acquainted(e) == e \in viaTarget \/ (sendings[e] # <<>> /\ Head(sendings[e]))

AnnouncedTo(t, e) == calls[t].announcing # "no" /\ Head(calls[t].todo) = e

\* What e's Source has seen has gone out, or goes out with the call's next step.
MentionedVia ==
  \A e \in owned \cap viaSource :
    Acquainted(e) \/ \E t \in Threads : AnnouncedTo(t, e) /\ calls[t].announcing = "in_full"

\* A call names the carrier by UUID to those only who know it.
ByIdToAcquainted ==
  \A t \in Threads : \A e \in owned :
    AnnouncedTo(t, e) /\ calls[t].announcing = "by_id" => Acquainted(e)

SendingInv == MentionedVia /\ ByIdToAcquainted /\ IdsInSendingKnown

LEMMA SendingStep ==
  ASSUME OneThread, TypeOK, Announcing, SendingInv, [Next]_vars
  PROVE  SendingInv'
<1> USE DEF SendingInv, MentionedVia, ByIdToAcquainted, IdsInSendingKnown, Acquainted, AnnouncedTo
<1>0. /\ \A t \in Threads : calls[t] \in Calls
      /\ owned \subseteq Embeddable
      /\ \A e \in Embeddable : sendings[e] \in Seq(BOOLEAN)
      /\ sendings = [e \in Embeddable |-> sendings[e]]
      /\ calls = [t \in Threads |-> calls[t]]
  BY DEF TypeOK
<1>1. ASSUME NEW t \in Threads, BeginSend(t) PROVE SendingInv'
  <2>1. calls'[t].announcing = "no" /\ \A u \in Threads : u # t => calls'[u] = calls[u]
    <3>1. PICK n \in 1 .. MaxEmbedded : \E embedded \in [1 .. n -> Embeddable] :
            calls' = [calls EXCEPT ![t] = [Idle EXCEPT !.todo = embedded]]
      BY <1>1 DEF BeginSend
    <3>2. PICK embedded \in [1 .. n -> Embeddable] :
            calls' = [calls EXCEPT ![t] = [Idle EXCEPT !.todo = embedded]]
      BY <3>1
    <3>3. [Idle EXCEPT !.todo = embedded].announcing = "no"
      BY DEF Idle
    <3>4. QED
      BY <1>0, <3>2, <3>3
  <2>2. calls[t].announcing = "no"
    BY <1>1, IdleTyped DEF BeginSend
  <2>3. UNCHANGED <<viaSource, sendings, viaTarget, owned>>
    BY <1>1 DEF BeginSend
  <2>4. \A f \in owned : Acquainted(f)' <=> Acquainted(f)
    BY <2>3
  <2>5. MentionedVia'
    <3>1. SUFFICES ASSUME NEW f \in owned \cap viaSource, ~Acquainted(f)
                   PROVE  \E u \in Threads : AnnouncedTo(u, f)' /\ calls'[u].announcing = "in_full"
      BY <2>3, <2>4
    <3>2. PICK u \in Threads : AnnouncedTo(u, f) /\ calls[u].announcing = "in_full"
      BY <3>1
    <3>3. calls'[u] = calls[u]
      BY <2>1, <2>2, <3>2
    <3>4. QED
      BY <3>2, <3>3
  <2>6. ByIdToAcquainted' /\ IdsInSendingKnown'
    BY <2>1, <2>3, <2>4
  <2>7. QED
    BY <2>5, <2>6
<1>2. ASSUME NEW t \in Threads, MentionCarrier(t) PROVE SendingInv'
  <2> DEFINE e == Head(calls[t].todo)
  <2>1. PICK a \in {"in_full", "by_id"} :
          /\ a = IF e \in viaSource THEN "by_id" ELSE "in_full"
          /\ calls' = [calls EXCEPT ![t].announcing = a]
          /\ viaSource' = viaSource \cup {e}
    BY <1>2 DEF MentionCarrier
  <2>2. calls'[t].announcing = a /\ calls'[t].todo = calls[t].todo
    BY <1>0, <2>1, SettledCall
  <2>3. \A u \in Threads : u = t
    BY DEF OneThread
  <2>4. calls[t].announcing = "no" /\ UNCHANGED <<owned, sendings, viaTarget>>
    BY <1>2 DEF MentionCarrier
  <2>5. calls'[t].announcing = a /\ Head(calls'[t].todo) = e
    BY <2>2
  <2>6. \A f \in owned : Acquainted(f)' <=> Acquainted(f)
    BY <2>4
  <2>7. MentionedVia'
    <3>1. SUFFICES ASSUME NEW f \in owned, f \in viaSource \cup {e}, ~Acquainted(f)
                   PROVE  f = e /\ a = "in_full"
      BY <2>1, <2>4, <2>5, <2>6
    <3>2. f \notin viaSource
      BY <2>3, <2>4, <3>1
    <3>3. QED
      BY <2>1, <3>1, <3>2
  <2>8. ByIdToAcquainted'
    <3>1. e \in owned /\ a = "by_id" => Acquainted(e)
      BY <2>1, <2>3, <2>4
    <3>2. QED
      BY <2>3, <2>4, <2>5, <2>6, <3>1
  <2>9. QED
    BY <2>4, <2>7, <2>8
<1>3. ASSUME NEW t \in Threads, Announce(t) PROVE SendingInv'
  <2>0. PICK e : e = Head(calls[t].todo)
    OBVIOUS
  <2>1. calls[t].announcing # "no" /\ e \in Embeddable
    BY <1>0, <1>3, <2>0, CallTyped, HeadTailTyped DEF Announce, Announcing
  <2>2. calls'[t].announcing = "no" /\ \A u \in Threads : u = t
    <3>1. CASE e \in owned
      <4>1. PICK next : next = [todo |-> Tail(calls[t].todo), announcing |-> "no",
              mentions |-> Append(calls[t].mentions, [sender |-> e, full |-> e \notin source])]
        OBVIOUS
      <4>2. calls' = [calls EXCEPT ![t] = next] /\ next.announcing = "no"
        BY <1>3, <2>0, <3>1, <4>1 DEF Announce
      <4>3. QED
        BY <1>0, <4>2 DEF OneThread
    <3>2. CASE e \notin owned
      BY <1>0, <1>3, <2>0, <3>2, IdleTyped DEF Announce, OneThread
    <3>3. QED
      BY <3>1, <3>2
  <2>3. CASE e \in owned
    <3>1. /\ sendings' = [sendings EXCEPT ![e] = Append(@, calls[t].announcing = "in_full")]
          /\ UNCHANGED <<viaSource, owned, viaTarget>>
      BY <1>3, <2>0, <2>3 DEF Announce
    <3>2. calls[t].announcing \in {"in_full", "by_id"}
      BY <1>0, <2>1, CallTyped
    <3>3. /\ sendings'[e] # <<>>
          /\ sendings[e] # <<>> => Head(sendings'[e]) = Head(sendings[e])
          /\ sendings[e] = <<>> /\ calls[t].announcing = "in_full" => Head(sendings'[e]) = TRUE
      <4>1. PICK x \in BOOLEAN : x = (calls[t].announcing = "in_full")
        <5>1. (calls[t].announcing = "in_full") \in BOOLEAN
          OBVIOUS
        <5>2. QED
          BY <5>1, Zenon
      <4>2. sendings[e] \in Seq(BOOLEAN) /\ sendings'[e] = Append(sendings[e], x)
        <5>1. sendings' = [sendings EXCEPT ![e] = Append(sendings[e], x)]
          BY <3>1, <4>1
        <5>2. sendings'[e] = Append(sendings[e], x)
          BY <1>0, <2>1, <5>1, Replaced
        <5>3. QED
          BY <1>0, <2>1, <5>2
      <4>3. /\ sendings'[e] # <<>>
            /\ sendings[e] = <<>> => Head(sendings'[e]) = x
            /\ sendings[e] # <<>> => Head(sendings'[e]) = Head(sendings[e])
        BY <4>2, HeadAppended
      <4>4. ASSUME calls[t].announcing = "in_full" PROVE x = TRUE
        BY <4>1, <4>4, Zenon
      <4>5. QED
        BY <4>3, <4>4, Zenon
    <3>4. Acquainted(e)'
      <4>1. CASE sendings[e] = <<>> /\ calls[t].announcing = "in_full"
        BY <3>3, <4>1
      <4>2. CASE sendings[e] = <<>> /\ calls[t].announcing = "by_id"
        BY <2>0, <2>1, <2>3, <3>1, <4>2
      <4>3. CASE sendings[e] # <<>>
        BY <2>3, <3>1, <3>3, <4>3
      <4>4. QED
        BY <3>2, <4>1, <4>2, <4>3
    <3>5. \A f \in owned : f # e => sendings'[f] = sendings[f]
      BY <1>0, <3>1
    <3>6. \A f \in owned : f # e => (Acquainted(f)' <=> Acquainted(f))
      BY <3>1, <3>5, Zenon
    <3>7. MentionedVia'
      <4>1. SUFFICES ASSUME NEW f \in owned, f \in viaSource, ~Acquainted(f)'
                     PROVE  \E u \in Threads : AnnouncedTo(u, f)' /\ calls'[u].announcing = "in_full"
        BY <3>1
      <4>2. f # e /\ ~Acquainted(f)
        BY <3>4, <3>6, <4>1
      <4>3. PICK u \in Threads : AnnouncedTo(u, f) /\ calls[u].announcing = "in_full"
        BY <4>1, <4>2
      <4>4. FALSE
        BY <2>0, <2>2, <4>2, <4>3
      <4>5. QED
        BY <4>4
    <3>8. ByIdToAcquainted'
      BY <2>2
    <3>9. IdsInSendingKnown'
      <4>1. SUFFICES ASSUME NEW f \in owned, sendings'[f] # <<>>, f \notin viaTarget
                     PROVE  Head(sendings'[f])
        BY <3>1
      <4>2. CASE f = e
        <5>1. e \notin viaTarget' /\ Acquainted(e)'
          BY <3>1, <3>4, <4>1, <4>2
        <5>2. QED
          BY <4>2, <5>1
      <4>3. CASE f # e
        BY <3>1, <3>5, <4>1, <4>3
      <4>4. QED
        BY <4>2, <4>3
    <3>10. QED
      BY <3>7, <3>8, <3>9
  <2>4. CASE e \notin owned
    <3>1. UNCHANGED <<viaSource, owned, viaTarget, sendings>>
      BY <1>3, <2>0, <2>4 DEF Announce
    <3>2. QED
      BY <2>0, <2>2, <2>4, <3>1
  <2>5. QED
    BY <2>3, <2>4
<1>4. ASSUME NEW t \in Threads, SendData(t) PROVE SendingInv'
  <2>1. calls[t].announcing = "no" /\ calls'[t].announcing = "no"
    BY <1>0, <1>4, IdleTyped DEF SendData, Announcing
  <2>2. QED
    BY <1>0, <1>4, <2>1 DEF SendData
<1>5. CASE HandleData
  BY <1>5 DEF HandleData
<1>6. ASSUME NEW e \in Embeddable, HandleSending(e) PROVE SendingInv'
  <2>1. e \in viaTarget' /\ viaTarget \subseteq viaTarget' /\ e \in owned
    <3>1. e \in owned /\ sendings[e] # <<>>
          /\ viaTarget' = IF Head(sendings[e]) THEN viaTarget \cup {e} ELSE viaTarget
      BY <1>6 DEF HandleSending
    <3>2. CASE e \in viaTarget
      BY <3>1, <3>2
    <3>3. CASE e \notin viaTarget
      BY <3>1, <3>3
    <3>4. QED
      BY <3>2, <3>3
  <2>2. /\ UNCHANGED <<viaSource, owned, calls>>
        /\ \A f \in owned : f # e => sendings'[f] = sendings[f]
    BY <1>0, <1>6 DEF HandleSending
  <2>3. \A f \in owned : Acquainted(f) => Acquainted(f)'
    BY <2>1, <2>2
  <2>4. MentionedVia' /\ ByIdToAcquainted'
    BY <2>2, <2>3
  <2>5. IdsInSendingKnown'
    BY <2>1, <2>2
  <2>6. QED
    BY <2>4, <2>5
<1>7. ASSUME NEW e \in Embeddable, LoseOwner(e) PROVE SendingInv'
  <2>1. owned' \subseteq owned /\ UNCHANGED <<viaSource, viaTarget, calls>>
    BY <1>7 DEF LoseOwner
  <2>2. \A f \in owned' : sendings'[f] = sendings[f]
    BY <1>0, <1>7 DEF LoseOwner
  <2>3. \A f \in owned' : Acquainted(f)' <=> Acquainted(f)
    BY <2>1, <2>2
  <2>4. MentionedVia' /\ ByIdToAcquainted'
    BY <2>1, <2>3
  <2>5. IdsInSendingKnown'
    BY <2>1, <2>2
  <2>6. QED
    BY <2>4, <2>5
<1>8. CASE UNCHANGED vars
  BY <1>8 DEF vars
<1>9. QED
  BY <1>1, <1>2, <1>3, <1>4, <1>5, <1>6, <1>7, <1>8 DEF Next, ThreadStep

\* When one thread sends, the owner of an embedded subsender can resolve the
\* UUID of the carrier in every Sending message, whichever channels go.
THEOREM IdsInSending ==
  ASSUME OneThread
  PROVE  Spec => []IdsInSendingKnown
<1>1. Init => TypeOK /\ Announcing /\ SendingInv
  <2> SUFFICES ASSUME Init PROVE TypeOK /\ Announcing /\ SendingInv
    OBVIOUS
  <2>1. Idle \in Calls /\ Idle.announcing = "no"
    BY IdleTyped
  <2>2. TypeOK /\ Announcing
    BY <2>1 DEF Init, TypeOK, Announcing
  <2>3. SendingInv
    BY <2>1 DEF Init, TypeOK, SendingInv, MentionedVia, ByIdToAcquainted,
                IdsInSendingKnown, AnnouncedTo
  <2>4. QED
    BY <2>2, <2>3
<1>2. TypeOK /\ Announcing /\ SendingInv /\ [Next]_vars => (TypeOK /\ Announcing /\ SendingInv)'
  BY TypeStep, SendingStep
<1>3. SendingInv => IdsInSendingKnown
  BY DEF SendingInv
<1>4. QED
  BY <1>1, <1>2, <1>3, PTL DEF Spec

-----------------------------------------------------------------------------
(* UUIDs in Data messages.                                                 *)

\* What a message has mentioned in full before its i-th mention.
FullBefore(m, i) == {m[j].sender : j \in {k \in 1 .. i - 1 : m[k].full}}

\* A message names no wanted IPC sender by UUID but those known by then.
Grounded(m, known, wanted) ==
  \A i \in DOMAIN m :
    m[i].sender \in wanted => m[i].full \/ m[i].sender \in known \cup FullBefore(m, i)

\* What the first k messages of a queue mention in full.
Ahead(q, k) == UNION {InFull(q[j]) : j \in 1 .. k}

Wanted == owned \ missed

\* Once the data in the channel is handled, the receiver knows:
Promised == target \cup Ahead(data, Len(data))

DataGrounded ==
  \A k \in 1 .. Len(data) : Grounded(data[k], target \cup Ahead(data, k - 1), Wanted)

CallsGrounded == \A t \in Threads : Grounded(calls[t].mentions, Promised, Wanted)

\* What the Source has seen is promised, or is in a call under way.
SourceGrounded ==
  \A e \in source \cap Wanted : e \in Promised \/ \E t \in Threads : e \in InFull(calls[t].mentions)

DataInv == DataGrounded /\ CallsGrounded /\ SourceGrounded

LEMMA GroundedMonotone ==
  ASSUME NEW m, NEW known, NEW known2, NEW wanted, NEW wanted2,
         wanted2 \subseteq wanted, known \cap wanted2 \subseteq known2,
         Grounded(m, known, wanted)
  PROVE  Grounded(m, known2, wanted2)
BY DEF Grounded

LEMMA InFullAppended ==
  ASSUME NEW m \in Seq(Mentions), NEW x \in Mentions
  PROVE  InFull(Append(m, x)) = InFull(m) \cup (IF x.full THEN {x.sender} ELSE {})
<1> DEFINE n == Append(m, x)
<1>1. /\ Len(m) \in Nat /\ DOMAIN m = 1 .. Len(m) /\ DOMAIN n = 1 .. Len(m) + 1
      /\ n[Len(m) + 1] = x /\ \A i \in 1 .. Len(m) : n[i] = m[i]
  OBVIOUS
<1>2. \A e : e \in InFull(m) <=> \E i \in 1 .. Len(m) : m[i].full /\ m[i].sender = e
  BY <1>1 DEF InFull
<1>3. \A e : e \in InFull(n) <=> \E i \in 1 .. Len(m) + 1 : n[i].full /\ n[i].sender = e
  BY <1>1 DEF InFull
<1> HIDE DEF n
<1>4. \A i \in 1 .. Len(m) + 1 : i \in 1 .. Len(m) \/ i = Len(m) + 1
  BY <1>1
<1>5. \A i \in 1 .. Len(m) : i \in 1 .. Len(m) + 1
  BY <1>1
<1>6. Len(m) + 1 \in 1 .. Len(m) + 1
  BY <1>1
<1>7. \A e : e \in InFull(n) <=> e \in InFull(m) \/ (x.full /\ x.sender = e)
  BY <1>1, <1>2, <1>3, <1>4, <1>5, <1>6
<1>8. QED
  BY <1>7 DEF n

LEMMA InFullBefore ==
  ASSUME NEW m \in Seq(Mentions)
  PROVE  InFull(m) = FullBefore(m, Len(m) + 1)
BY DEF InFull, FullBefore

LEMMA GroundedAppended ==
  ASSUME NEW m \in Seq(Mentions), NEW x \in Mentions, NEW known, NEW wanted,
         Grounded(m, known, wanted),
         x.full \/ x.sender \in known \cup InFull(m) \/ x.sender \notin wanted
  PROVE  Grounded(Append(m, x), known, wanted)
<1> DEFINE n == Append(m, x)
<1>1. /\ n \in Seq(Mentions) /\ Len(n) = Len(m) + 1 /\ n[Len(n)] = x
      /\ \A i \in 1 .. Len(m) : n[i] = m[i]
  OBVIOUS
<1>2. SUFFICES ASSUME NEW i \in 1 .. Len(n), n[i].sender \in wanted, ~n[i].full
               PROVE  n[i].sender \in known \cup FullBefore(n, i)
  BY <1>1 DEF Grounded
<1>3. FullBefore(n, i) = FullBefore(m, i)
  BY <1>1 DEF FullBefore
<1>4. CASE i \in 1 .. Len(m)
  BY <1>1, <1>2, <1>3, <1>4 DEF Grounded
<1>5. CASE i = Len(m) + 1
  BY <1>1, <1>2, <1>3, <1>5, InFullBefore
<1>6. QED
  BY <1>1, <1>4, <1>5

LEMMA AheadAppended ==
  ASSUME NEW q \in Seq(Seq(Mentions)), NEW m \in Seq(Mentions)
  PROVE  /\ \A k \in 0 .. Len(q) : Ahead(Append(q, m), k) = Ahead(q, k)
         /\ Ahead(Append(q, m), Len(q) + 1) = Ahead(q, Len(q)) \cup InFull(m)
<1>1. /\ Len(Append(q, m)) = Len(q) + 1 /\ Append(q, m)[Len(q) + 1] = m
      /\ \A j \in 1 .. Len(q) : Append(q, m)[j] = q[j]
      /\ Len(q) \in Nat
  OBVIOUS
<1>2. \A k \in 0 .. Len(q) : \A j \in 1 .. k : Append(q, m)[j] = q[j]
  BY <1>1
<1>3. \A k \in 0 .. Len(q) : Ahead(Append(q, m), k) = Ahead(q, k)
  BY <1>2 DEF Ahead
<1>4. Ahead(Append(q, m), Len(q) + 1)
        = Ahead(Append(q, m), Len(q)) \cup InFull(Append(q, m)[Len(q) + 1])
  <2>1. 1 .. Len(q) + 1 = (1 .. Len(q)) \cup {Len(q) + 1}
    BY <1>1
  <2>2. QED
    BY <2>1 DEF Ahead
<1>5. QED
  BY <1>1, <1>3, <1>4

LEMMA AheadOfTail ==
  ASSUME NEW q \in Seq(Seq(Mentions)), q # <<>>, NEW k \in 0 .. Len(q) - 1
  PROVE  Ahead(q, k + 1) = InFull(Head(q)) \cup Ahead(Tail(q), k)
<1>1. /\ Len(q) \in Nat /\ Head(q) = q[1]
      /\ \A j \in 1 .. Len(q) - 1 : Tail(q)[j] = q[j + 1]
  OBVIOUS
<1>2. ASSUME NEW e \in Ahead(q, k + 1) PROVE e \in InFull(Head(q)) \cup Ahead(Tail(q), k)
  <2>1. PICK j \in 1 .. k + 1 : e \in InFull(q[j])
    BY DEF Ahead
  <2>2. CASE j = 1
    BY <1>1, <2>1, <2>2
  <2>3. CASE j # 1
    <3>1. j - 1 \in 1 .. k /\ Tail(q)[j - 1] = q[j]
      BY <1>1, <2>3
    <3>2. QED
      BY <2>1, <3>1 DEF Ahead
  <2>4. QED
    BY <2>2, <2>3
<1>3. ASSUME NEW e \in InFull(Head(q)) \cup Ahead(Tail(q), k) PROVE e \in Ahead(q, k + 1)
  <2>1. CASE e \in InFull(Head(q))
    <3>1. 1 \in 1 .. k + 1 /\ e \in InFull(q[1])
      BY <1>1, <2>1
    <3>2. QED
      BY <3>1 DEF Ahead
  <2>2. CASE e \in Ahead(Tail(q), k)
    <3>1. PICK j \in 1 .. k : e \in InFull(Tail(q)[j])
      BY <2>2 DEF Ahead
    <3>2. j + 1 \in 1 .. k + 1 /\ Tail(q)[j] = q[j + 1]
      BY <1>1
    <3>3. QED
      BY <3>1, <3>2 DEF Ahead
  <2>3. QED
    BY <1>3, <2>1, <2>2
<1>4. QED
  BY <1>2, <1>3

\* Steps at which the channel's content and the receiver stay as they are.
LEMMA QuietStep ==
  ASSUME DataInv, UNCHANGED <<source, data, target, missed>>, owned' \subseteq owned,
         \A t \in Threads : calls'[t].mentions = calls[t].mentions
  PROVE  DataInv'
<1>1. Wanted' \subseteq Wanted /\ Promised' = Promised
  BY DEF Wanted, Promised
<1>2. DataGrounded'
  <2>1. SUFFICES ASSUME NEW k \in 1 .. Len(data)
                 PROVE  Grounded(data[k], target \cup Ahead(data, k - 1), Wanted')
    BY DEF DataGrounded
  <2>2. Grounded(data[k], target \cup Ahead(data, k - 1), Wanted)
    BY DEF DataInv, DataGrounded
  <2>3. QED
    BY <1>1, <2>2, GroundedMonotone
<1>3. CallsGrounded'
  <2>1. SUFFICES ASSUME NEW t \in Threads
                 PROVE  Grounded(calls[t].mentions, Promised, Wanted')
    BY <1>1 DEF CallsGrounded
  <2>2. Grounded(calls[t].mentions, Promised, Wanted)
    BY DEF DataInv, CallsGrounded
  <2>3. QED
    BY <1>1, <2>2, GroundedMonotone
<1>4. SourceGrounded'
  BY <1>1 DEF DataInv, SourceGrounded
<1>5. QED
  BY <1>2, <1>3, <1>4 DEF DataInv

\* Announce: the one thread that sends finds in its own call what the Source
\* has seen and the channel does not hold.
LEMMA AnnounceStep ==
  ASSUME OneThread, TypeOK, Announcing, DataInv, NEW t \in Threads, Announce(t)
  PROVE  DataInv'
<1> DEFINE e == Head(calls[t].todo)
           m == calls[t].mentions
           x == [sender |-> e, full |-> e \notin source]
<1>1. /\ e \in Embeddable /\ m \in Seq(Mentions) /\ x \in Mentions
      /\ x.sender = e /\ (x.full <=> e \notin source)
      /\ UNCHANGED <<data, target, owned>>
      /\ calls = [u \in Threads |-> calls[u]]
  BY CallTyped, HeadTailTyped DEF Announce, Announcing, TypeOK, Mentions
<1>2. \A u \in Threads : u = t
  BY DEF OneThread
<1>3. Promised' = Promised
  BY <1>1 DEF Promised
<1>4. CASE e \in owned
  <2>1. calls'[t].mentions = Append(m, x) /\ source' = source \cup {e} /\ missed' = missed
    <3>1. PICK next : next = [todo |-> Tail(calls[t].todo), announcing |-> "no",
                              mentions |-> Append(m, x)]
      OBVIOUS
    <3>2. calls' = [calls EXCEPT ![t] = next] /\ next.mentions = Append(m, x)
      BY <1>4, <3>1 DEF Announce
    <3>3. source' = source \cup {e} /\ missed' = missed
      BY <1>4 DEF Announce
    <3>4. QED
      BY <1>1, <3>2, <3>3
  <2>2. Wanted' = Wanted
    BY <1>1, <2>1 DEF Wanted
  <2>3. DataGrounded'
    BY <1>1, <2>2 DEF DataInv, DataGrounded
  <2>4. x.full \/ x.sender \in Promised \cup InFull(m) \/ x.sender \notin Wanted
    BY <1>1, <1>2 DEF DataInv, SourceGrounded
  <2>5. Grounded(Append(m, x), Promised, Wanted)
    <3>1. Grounded(m, Promised, Wanted)
      BY DEF DataInv, CallsGrounded
    <3> HIDE DEF m, x
    <3>2. QED
      BY <1>1, <2>4, <3>1, GroundedAppended
  <2>6. CallsGrounded'
    BY <1>2, <1>3, <2>1, <2>2, <2>5 DEF CallsGrounded
  <2>7. SourceGrounded'
    <3>1. SUFFICES ASSUME NEW f \in (source \cup {e}) \cap Wanted, f \notin Promised
                   PROVE  f \in InFull(Append(m, x))
      BY <1>3, <2>1, <2>2 DEF SourceGrounded
    <3>2. CASE f \in source
      <4>1. f \in InFull(m)
        BY <1>2, <3>1, <3>2 DEF DataInv, SourceGrounded
      <4> HIDE DEF m, x
      <4>2. QED
        BY <1>1, <4>1, InFullAppended
    <3>3. CASE f \notin source
      <4>1. f = x.sender /\ x.full
        BY <1>1, <3>1, <3>3
      <4> HIDE DEF m, x
      <4>2. QED
        BY <1>1, <4>1, InFullAppended
    <3>4. QED
      BY <3>2, <3>3
  <2>8. QED
    BY <2>3, <2>6, <2>7 DEF DataInv
<1>5. CASE e \notin owned
  <2>1. calls'[t].mentions = <<>> /\ source' = source /\ missed' = missed \cup InFull(m)
    BY <1>1, <1>5, IdleTyped DEF Announce
  <2>2. Wanted' = Wanted \ InFull(m)
    BY <1>1, <2>1 DEF Wanted
  <2>3. DataGrounded'
    <3>1. SUFFICES ASSUME NEW k \in 1 .. Len(data)
                   PROVE  Grounded(data[k], target \cup Ahead(data, k - 1), Wanted')
      BY <1>1 DEF DataGrounded
    <3>2. Grounded(data[k], target \cup Ahead(data, k - 1), Wanted)
      BY DEF DataInv, DataGrounded
    <3>3. QED
      BY <2>2, <3>2, GroundedMonotone
  <2>4. CallsGrounded'
    BY <1>2, <2>1 DEF CallsGrounded, Grounded
  <2>5. SourceGrounded'
    BY <1>2, <1>3, <2>1, <2>2 DEF DataInv, SourceGrounded
  <2>6. QED
    BY <2>3, <2>4, <2>5 DEF DataInv
<1>6. QED
  BY <1>4, <1>5

\* SendData: what the call mentions goes last in the channel.
LEMMA SendDataStep ==
  ASSUME OneThread, TypeOK, DataInv, NEW t \in Threads, SendData(t)
  PROVE  DataInv'
<1> DEFINE m == calls[t].mentions
<1>1. /\ m \in Seq(Mentions) /\ data \in Seq(Seq(Mentions)) /\ Len(data) \in Nat
      /\ data' = Append(data, m) /\ calls'[t].mentions = <<>>
      /\ UNCHANGED <<source, target, owned, missed>>
  <2>1. calls \in [Threads -> Calls] /\ data \in Seq(Seq(Mentions)) /\ m \in Seq(Mentions)
    BY CallTyped DEF TypeOK
  <2>2. /\ data' = Append(data, m) /\ calls' = [calls EXCEPT ![t] = Idle]
        /\ UNCHANGED <<source, target, owned, missed>>
    BY DEF SendData
  <2>3. calls'[t].mentions = <<>>
    BY <2>1, <2>2, IdleTyped
  <2>4. QED
    BY <2>1, <2>2, <2>3
<1>2. \A u \in Threads : u = t
  BY DEF OneThread
<1>3. /\ Len(data') = Len(data) + 1 /\ data'[Len(data) + 1] = m
      /\ \A k \in 1 .. Len(data) : data'[k] = data[k]
  BY <1>1
<1>4. /\ \A k \in 0 .. Len(data) : Ahead(data', k) = Ahead(data, k)
      /\ Ahead(data', Len(data) + 1) = Ahead(data, Len(data)) \cup InFull(m)
  <2> HIDE DEF m
  <2>1. QED
    BY <1>1, AheadAppended
<1>5. Wanted' = Wanted /\ Promised' = Promised \cup InFull(m)
  BY <1>1, <1>3, <1>4 DEF Wanted, Promised
<1>6. DataGrounded'
  <2>1. SUFFICES ASSUME NEW k \in 1 .. Len(data) + 1
                 PROVE  Grounded(data'[k], target \cup Ahead(data', k - 1), Wanted)
    BY <1>1, <1>3, <1>5 DEF DataGrounded
  <2>2. CASE k \in 1 .. Len(data)
    <3>1. k - 1 \in 0 .. Len(data) /\ data'[k] = data[k]
      BY <1>1, <1>3, <2>2
    <3>2. Ahead(data', k - 1) = Ahead(data, k - 1)
      BY <1>4, <3>1
    <3>3. Grounded(data[k], target \cup Ahead(data, k - 1), Wanted)
      BY <2>2 DEF DataInv, DataGrounded
    <3>4. QED
      BY <3>1, <3>2, <3>3
  <2>3. CASE k = Len(data) + 1
    <3>1. Ahead(data', k - 1) = Ahead(data, Len(data)) /\ data'[k] = m
      BY <1>1, <1>3, <1>4, <2>3
    <3>2. QED
      BY <3>1 DEF DataInv, CallsGrounded, Promised
  <2>4. QED
    BY <1>1, <2>2, <2>3
<1>7. CallsGrounded'
  BY <1>1, <1>2 DEF CallsGrounded, Grounded
<1>8. SourceGrounded'
  BY <1>1, <1>2, <1>5 DEF DataInv, SourceGrounded
<1>9. QED
  BY <1>6, <1>7, <1>8 DEF DataInv

\* HandleData: what the message mentioned in full is known, or missed.
LEMMA HandleDataStep ==
  ASSUME TypeOK, DataInv, HandleData
  PROVE  DataInv'
<1> DEFINE m == Head(data)
<1>1. /\ data \in Seq(Seq(Mentions)) /\ data # <<>> /\ data' = Tail(data)
      /\ UNCHANGED <<source, calls, owned>>
  BY DEF HandleData, TypeOK
<1>2. /\ Len(data) \in Nat /\ Len(data) > 0 /\ Len(data') = Len(data) - 1
      /\ \A k \in 1 .. Len(data) - 1 : data'[k] = data[k + 1]
  BY <1>1
<1>3. /\ target \subseteq target' /\ missed \subseteq missed'
      /\ InFull(m) \subseteq target' \cup missed'
  BY DEF HandleData, InFull
<1>4. Wanted' \subseteq Wanted /\ InFull(m) \cap Wanted' \subseteq target'
  BY <1>1, <1>3 DEF Wanted
<1>5. ASSUME NEW k \in 0 .. Len(data) - 1
      PROVE  (target \cup Ahead(data, k + 1)) \cap Wanted' \subseteq target' \cup Ahead(data', k)
  <2>1. Ahead(data, k + 1) = InFull(m) \cup Ahead(data', k)
    BY <1>1, AheadOfTail
  <2>2. QED
    BY <1>3, <1>4, <2>1
<1>6. Promised \cap Wanted' \subseteq Promised'
  BY <1>2, <1>5 DEF Promised
<1>7. DataGrounded'
  <2>1. SUFFICES ASSUME NEW k \in 1 .. Len(data) - 1
                 PROVE  Grounded(data[k + 1], target' \cup Ahead(data', k - 1), Wanted')
    BY <1>2 DEF DataGrounded
  <2>2. Grounded(data[k + 1], target \cup Ahead(data, k), Wanted)
    <3>1. k + 1 \in 1 .. Len(data) /\ (k + 1) - 1 = k
      BY <1>2
    <3>2. Grounded(data[k + 1], target \cup Ahead(data, (k + 1) - 1), Wanted)
      BY <3>1 DEF DataInv, DataGrounded
    <3>3. QED
      BY <3>1, <3>2
  <2>3. (target \cup Ahead(data, k)) \cap Wanted' \subseteq target' \cup Ahead(data', k - 1)
    <3>1. k - 1 \in 0 .. Len(data) - 1 /\ (k - 1) + 1 = k
      BY <1>2
    <3>2. QED
      BY <1>5, <3>1
  <2>4. QED
    BY <1>4, <2>2, <2>3, GroundedMonotone
<1>8. CallsGrounded'
  <2>1. SUFFICES ASSUME NEW t \in Threads
                 PROVE  Grounded(calls[t].mentions, Promised', Wanted')
    BY <1>1 DEF CallsGrounded
  <2>2. Grounded(calls[t].mentions, Promised, Wanted)
    BY DEF DataInv, CallsGrounded
  <2>3. QED
    BY <1>4, <1>6, <2>2, GroundedMonotone
<1>9. SourceGrounded'
  BY <1>1, <1>4, <1>6 DEF DataInv, SourceGrounded
<1>10. QED
  BY <1>7, <1>8, <1>9 DEF DataInv

LEMMA DataStep ==
  ASSUME OneThread, TypeOK, Announcing, DataInv, [Next]_vars
  PROVE  DataInv'
<1>0. calls = [u \in Threads |-> calls[u]] /\ \A u \in Threads : calls[u] \in Calls
  BY DEF TypeOK
<1>1. ASSUME NEW t \in Threads, BeginSend(t) PROVE DataInv'
  <2>1. PICK n \in 1 .. MaxEmbedded : \E embedded \in [1 .. n -> Embeddable] :
          calls' = [calls EXCEPT ![t] = [Idle EXCEPT !.todo = embedded]]
    BY <1>1 DEF BeginSend
  <2>2. PICK embedded \in [1 .. n -> Embeddable] :
          calls' = [calls EXCEPT ![t] = [Idle EXCEPT !.todo = embedded]]
    BY <2>1
  <2>3. [Idle EXCEPT !.todo = embedded].mentions = <<>> /\ calls[t].mentions = <<>>
    BY <1>1, IdleTyped DEF BeginSend, Idle
  <2>4. \A u \in Threads : calls'[u].mentions = calls[u].mentions
    BY <1>0, <2>2, <2>3
  <2>5. UNCHANGED <<source, data, target, missed, owned>>
    BY <1>1 DEF BeginSend
  <2>6. QED
    BY <2>4, <2>5, QuietStep
<1>2. ASSUME NEW t \in Threads, MentionCarrier(t) PROVE DataInv'
  <2>1. PICK a \in {"in_full", "by_id"} : calls' = [calls EXCEPT ![t].announcing = a]
    BY <1>2 DEF MentionCarrier
  <2>3. \A u \in Threads : calls'[u].mentions = calls[u].mentions
    BY <1>0, <2>1, SettledCall
  <2>4. UNCHANGED <<source, data, target, missed, owned>>
    BY <1>2 DEF MentionCarrier
  <2>5. QED
    BY <2>3, <2>4, QuietStep
<1>3. ASSUME NEW e \in Embeddable, HandleSending(e) \/ LoseOwner(e) PROVE DataInv'
  <2>1. UNCHANGED <<source, data, target, missed, calls>> /\ owned' \subseteq owned
    BY <1>3 DEF HandleSending, LoseOwner
  <2>2. QED
    BY <2>1, QuietStep
<1>4. CASE UNCHANGED vars
  BY <1>4, QuietStep DEF vars
<1>5. QED
  BY <1>1, <1>2, <1>3, <1>4, AnnounceStep, SendDataStep, HandleDataStep DEF Next, ThreadStep

\* When one thread sends, the receiver of a subsender can resolve every UUID in
\* its data, whichever channels go, but for what went down with a failed send or
\* a refused message.
THEOREM IdsInData ==
  ASSUME OneThread
  PROVE  Spec => []IdsInDataKnownUnlessMissed
<1>1. Init => TypeOK /\ Announcing /\ DataInv
  <2> SUFFICES ASSUME Init PROVE TypeOK /\ Announcing /\ DataInv
    OBVIOUS
  <2>1. Idle \in Calls /\ Idle.announcing = "no" /\ Idle.mentions = <<>>
    BY IdleTyped
  <2>2. TypeOK /\ Announcing
    BY <2>1 DEF Init, TypeOK, Announcing
  <2>3. DataInv
    BY <2>1 DEF Init, DataInv, DataGrounded, CallsGrounded, SourceGrounded, Grounded
  <2>4. QED
    BY <2>2, <2>3
<1>2. TypeOK /\ Announcing /\ DataInv /\ [Next]_vars => (TypeOK /\ Announcing /\ DataInv)'
  BY TypeStep, DataStep
<1>3. TypeOK /\ DataInv => IdsInDataKnownUnlessMissed
  <2> SUFFICES ASSUME TypeOK, DataInv, data # <<>>, NEW i \in DOMAIN Head(data),
                      Head(data)[i].sender \in owned \ missed
               PROVE  Head(data)[i].full \/ Head(data)[i].sender \in KnownAt(Head(data), i)
    BY DEF IdsInDataKnownUnlessMissed
  <2>1. Head(data) = data[1] /\ 1 \in 1 .. Len(data) /\ 1 - 1 = 0
    BY DEF TypeOK
  <2>2. Grounded(data[1], target \cup Ahead(data, 0), Wanted)
    BY <2>1 DEF DataInv, DataGrounded
  <2>3. Ahead(data, 0) = {}
    BY DEF Ahead
  <2>4. QED
    BY <2>1, <2>2, <2>3 DEF Grounded, KnownAt, FullBefore, Wanted
<1>4. QED
  BY <1>1, <1>2, <1>3, PTL DEF Spec

-----------------------------------------------------------------------------
(* Sources and Targets.                                                    *)

\* Only what a Source has seen is ever mentioned in full on its channel.
SeenFirst ==
  /\ Promised \subseteq source
  /\ \A t \in Threads : InFull(calls[t].mentions) \subseteq source

SeenFirstVia ==
  /\ viaTarget \subseteq viaSource
  /\ \A e \in Embeddable : sendings[e] # <<>> => e \in viaSource
  /\ \A t \in Threads : calls[t].announcing # "no" => Head(calls[t].todo) \in viaSource

LEMMA SeenStep ==
  ASSUME TypeOK, Announcing, SeenFirst, [Next]_vars
  PROVE  SeenFirst'
<1>0. /\ calls = [u \in Threads |-> calls[u]] /\ \A u \in Threads : calls[u] \in Calls
      /\ data \in Seq(Seq(Mentions))
  BY DEF TypeOK
<1>a. ASSUME UNCHANGED <<source, data, target>>,
             \A u \in Threads : calls'[u].mentions = calls[u].mentions
      PROVE  SeenFirst'
  BY <1>a DEF SeenFirst, Promised
<1>1. ASSUME NEW t \in Threads, BeginSend(t) PROVE SeenFirst'
  <2>1. PICK n \in 1 .. MaxEmbedded : \E embedded \in [1 .. n -> Embeddable] :
          calls' = [calls EXCEPT ![t] = [Idle EXCEPT !.todo = embedded]]
    BY <1>1 DEF BeginSend
  <2>2. PICK embedded \in [1 .. n -> Embeddable] :
          calls' = [calls EXCEPT ![t] = [Idle EXCEPT !.todo = embedded]]
    BY <2>1
  <2>3. [Idle EXCEPT !.todo = embedded].mentions = <<>> /\ calls[t].mentions = <<>>
    BY <1>1, IdleTyped DEF BeginSend, Idle
  <2>4. \A u \in Threads : calls'[u].mentions = calls[u].mentions
    BY <1>0, <2>2, <2>3
  <2>5. QED
    BY <1>1, <1>a, <2>4 DEF BeginSend
<1>2. ASSUME NEW t \in Threads, MentionCarrier(t) PROVE SeenFirst'
  <2>1. PICK a \in {"in_full", "by_id"} : calls' = [calls EXCEPT ![t].announcing = a]
    BY <1>2 DEF MentionCarrier
  <2>3. \A u \in Threads : calls'[u].mentions = calls[u].mentions
    BY <1>0, <2>1, SettledCall
  <2>4. QED
    BY <1>2, <1>a, <2>3 DEF MentionCarrier
<1>3. ASSUME NEW t \in Threads, Announce(t) PROVE SeenFirst'
  <2> DEFINE e == Head(calls[t].todo)
             m == calls[t].mentions
             x == [sender |-> e, full |-> e \notin source]
  <2>1. /\ m \in Seq(Mentions) /\ x \in Mentions /\ x.sender = e
        /\ UNCHANGED <<data, target>> /\ Promised' = Promised
    BY <1>0, <1>3, CallTyped, HeadTailTyped DEF Announce, Announcing, Mentions, Promised
  <2>2. CASE e \in owned
    <3>1. PICK next : next = [todo |-> Tail(calls[t].todo), announcing |-> "no",
                              mentions |-> Append(m, x)]
      OBVIOUS
    <3>2. calls' = [calls EXCEPT ![t] = next] /\ next.mentions = Append(m, x)
      BY <1>3, <2>2, <3>1 DEF Announce
    <3>3. source' = source \cup {e}
      BY <1>3, <2>2 DEF Announce
    <3>4. InFull(m) \subseteq source
      BY DEF SeenFirst
    <3>5. InFull(Append(m, x)) \subseteq source \cup {e}
      <4>1. x.sender \in source \cup {e}
        BY <2>1
      <4> HIDE DEF m, x, e
      <4>2. QED
        BY <2>1, <3>4, <4>1, InFullAppended
    <3>6. QED
      BY <1>0, <2>1, <3>2, <3>3, <3>5 DEF SeenFirst
  <2>3. CASE e \notin owned
    <3>1. calls' = [calls EXCEPT ![t] = Idle] /\ source' = source
      BY <1>3, <2>3 DEF Announce
    <3>2. InFull(Idle.mentions) = {}
      BY IdleTyped DEF InFull
    <3>3. QED
      BY <1>0, <2>1, <3>1, <3>2 DEF SeenFirst
  <2>4. QED
    BY <2>2, <2>3
<1>4. ASSUME NEW t \in Threads, SendData(t) PROVE SeenFirst'
  <2> DEFINE m == calls[t].mentions
  <2>1. /\ calls' = [calls EXCEPT ![t] = Idle] /\ data' = Append(data, m)
        /\ UNCHANGED <<source, target>> /\ InFull(m) \subseteq source
    BY <1>4 DEF SendData, SeenFirst
  <2>2. Promised' = Promised \cup InFull(m)
    <3>1. m \in Seq(Mentions) /\ Len(Append(data, m)) = Len(data) + 1 /\ Len(data) \in Nat
      <4>1. m \in Seq(Mentions)
        BY <1>0, CallTyped
      <4> HIDE DEF m
      <4>2. QED
        BY <1>0, <4>1
    <3> HIDE DEF m
    <3>2. Ahead(Append(data, m), Len(data) + 1) = Ahead(data, Len(data)) \cup InFull(m)
      BY <1>0, <3>1, AheadAppended
    <3>3. QED
      BY <2>1, <3>1, <3>2 DEF Promised
  <2>3. InFull(Idle.mentions) = {}
    BY IdleTyped DEF InFull
  <2>4. QED
    BY <1>0, <2>1, <2>2, <2>3 DEF SeenFirst
<1>5. CASE HandleData
  <2>1. /\ data # <<>> /\ data' = Tail(data) /\ UNCHANGED <<source, calls>>
        /\ target' \subseteq target \cup InFull(Head(data))
    BY <1>5 DEF HandleData, InFull
  <2>2. Len(data') = Len(data) - 1 /\ Len(data) - 1 \in 0 .. Len(data) - 1 /\ (Len(data) - 1) + 1 = Len(data)
    BY <1>0, <2>1
  <2>3. Ahead(data, Len(data)) = InFull(Head(data)) \cup Ahead(data', Len(data) - 1)
    BY <1>0, <2>1, <2>2, AheadOfTail
  <2>4. Promised' \subseteq Promised
    BY <2>1, <2>2, <2>3 DEF Promised
  <2>5. QED
    BY <2>1, <2>4 DEF SeenFirst
<1>6. ASSUME NEW e \in Embeddable, HandleSending(e) \/ LoseOwner(e) PROVE SeenFirst'
  BY <1>6, <1>a DEF HandleSending, LoseOwner
<1>7. CASE UNCHANGED vars
  BY <1>7, <1>a DEF vars
<1>8. QED
  BY <1>1, <1>2, <1>3, <1>4, <1>5, <1>6, <1>7 DEF Next, ThreadStep

LEMMA SeenViaStep ==
  ASSUME TypeOK, Announcing, SeenFirstVia, [Next]_vars
  PROVE  SeenFirstVia'
<1> USE DEF SeenFirstVia
<1>0. /\ calls = [u \in Threads |-> calls[u]] /\ \A u \in Threads : calls[u] \in Calls
      /\ sendings = [f \in Embeddable |-> sendings[f]]
      /\ \A f \in Embeddable : sendings[f] \in Seq(BOOLEAN)
  BY DEF TypeOK
<1>1. ASSUME NEW t \in Threads, BeginSend(t) PROVE SeenFirstVia'
  <2>1. PICK n \in 1 .. MaxEmbedded : \E embedded \in [1 .. n -> Embeddable] :
          calls' = [calls EXCEPT ![t] = [Idle EXCEPT !.todo = embedded]]
    BY <1>1 DEF BeginSend
  <2>2. PICK embedded \in [1 .. n -> Embeddable] :
          calls' = [calls EXCEPT ![t] = [Idle EXCEPT !.todo = embedded]]
    BY <2>1
  <2>3. [Idle EXCEPT !.todo = embedded].announcing = "no"
    BY DEF Idle
  <2>4. UNCHANGED <<viaSource, viaTarget, sendings>>
    BY <1>1 DEF BeginSend
  <2>5. QED
    BY <1>0, <2>2, <2>3, <2>4
<1>2. ASSUME NEW t \in Threads, MentionCarrier(t) PROVE SeenFirstVia'
  <2>1. PICK a \in {"in_full", "by_id"} : calls' = [calls EXCEPT ![t].announcing = a]
    BY <1>2 DEF MentionCarrier
  <2>3. viaSource' = viaSource \cup {Head(calls[t].todo)} /\ UNCHANGED <<viaTarget, sendings>>
    BY <1>2 DEF MentionCarrier
  <2>4. calls'[t].todo = calls[t].todo /\ \A u \in Threads : u # t => calls'[u] = calls[u]
    BY <1>0, <2>1, SettledCall
  <2>5. QED
    BY <2>3, <2>4
<1>3. ASSUME NEW t \in Threads, Announce(t) PROVE SeenFirstVia'
  <2>0. PICK e : e = Head(calls[t].todo)
    OBVIOUS
  <2>1. e \in viaSource /\ UNCHANGED <<viaSource, viaTarget>>
    BY <1>3, <2>0 DEF Announce
  <2>2. CASE e \in owned
    <3>1. PICK next : next = [todo |-> Tail(calls[t].todo), announcing |-> "no",
            mentions |-> Append(calls[t].mentions, [sender |-> e, full |-> e \notin source])]
      OBVIOUS
    <3>2. calls' = [calls EXCEPT ![t] = next] /\ next.announcing = "no"
      BY <1>3, <2>0, <2>2, <3>1 DEF Announce
    <3>3. \A f \in Embeddable : f # e => sendings'[f] = sendings[f]
      BY <1>0, <1>3, <2>0, <2>2 DEF Announce
    <3>4. QED
      BY <1>0, <2>1, <3>2, <3>3
  <2>3. CASE e \notin owned
    <3>1. calls' = [calls EXCEPT ![t] = Idle] /\ sendings' = sendings
      BY <1>3, <2>0, <2>3 DEF Announce
    <3>2. QED
      BY <1>0, <2>1, <3>1, IdleTyped
  <2>4. QED
    BY <2>2, <2>3
<1>4. ASSUME NEW t \in Threads, SendData(t) PROVE SeenFirstVia'
  <2>1. calls' = [calls EXCEPT ![t] = Idle] /\ UNCHANGED <<viaSource, viaTarget, sendings>>
    BY <1>4 DEF SendData
  <2>2. QED
    BY <1>0, <2>1, IdleTyped
<1>5. CASE HandleData
  BY <1>5 DEF HandleData
<1>6. ASSUME NEW e \in Embeddable, HandleSending(e) PROVE SeenFirstVia'
  <2>1. /\ sendings[e] # <<>> /\ viaTarget' \subseteq viaTarget \cup {e}
        /\ UNCHANGED <<viaSource, calls>>
        /\ \A f \in Embeddable : f # e => sendings'[f] = sendings[f]
    BY <1>0, <1>6 DEF HandleSending
  <2>2. QED
    BY <2>1
<1>7. ASSUME NEW e \in Embeddable, LoseOwner(e) PROVE SeenFirstVia'
  <2>1. /\ UNCHANGED <<viaSource, viaTarget, calls>>
        /\ \A f \in Embeddable : sendings'[f] # <<>> => sendings[f] # <<>>
    BY <1>0, <1>7 DEF LoseOwner
  <2>2. QED
    BY <2>1
<1>8. CASE UNCHANGED vars
  BY <1>8 DEF vars
<1>9. QED
  BY <1>1, <1>2, <1>3, <1>4, <1>5, <1>6, <1>7, <1>8 DEF Next, ThreadStep

\* When one thread sends and nothing is under way, each Source and its Target
\* agree on which IPC senders have been sent, but for what was missed.
THEOREM Agreement ==
  ASSUME OneThread
  PROVE  Spec => []SourcesAndTargetsAgree
<1> DEFINE IInv == TypeOK /\ Announcing /\ SendingInv /\ DataInv /\ SeenFirst /\ SeenFirstVia
<1>1. Init => IInv
  <2> SUFFICES ASSUME Init PROVE IInv
    OBVIOUS
  <2>1. Idle \in Calls /\ Idle.announcing = "no" /\ Idle.mentions = <<>>
    BY IdleTyped
  <2>2. TypeOK /\ Announcing
    BY <2>1 DEF Init, TypeOK, Announcing
  <2>3. SendingInv
    BY <2>1 DEF Init, TypeOK, SendingInv, MentionedVia, ByIdToAcquainted,
                IdsInSendingKnown, AnnouncedTo
  <2>4. DataInv
    BY <2>1 DEF Init, DataInv, DataGrounded, CallsGrounded, SourceGrounded, Grounded
  <2>5. SeenFirst /\ SeenFirstVia
    BY <2>1 DEF Init, SeenFirst, SeenFirstVia, Promised, Ahead, InFull
  <2>6. QED
    BY <2>2, <2>3, <2>4, <2>5
<1>2. IInv /\ [Next]_vars => IInv'
  BY TypeStep, SendingStep, DataStep, SeenStep, SeenViaStep
<1>3. IInv => SourcesAndTargetsAgree
  <2> SUFFICES ASSUME IInv, data = <<>>, \A t \in Threads : calls[t] = Idle
               PROVE  /\ (source \ target) \cap owned \subseteq missed
                      /\ target \subseteq source
                      /\ \A e \in owned : sendings[e] = <<>> => (e \in viaSource <=> e \in viaTarget)
    BY DEF SourcesAndTargetsAgree
  <2>1. \A t \in Threads : calls[t].announcing = "no" /\ InFull(calls[t].mentions) = {}
    <3>1. InFull(<<>>) = {}
      BY DEF InFull
    <3>2. QED
      BY <3>1, IdleTyped
  <2>2. Promised = target
    BY DEF Promised, Ahead
  <2>3. (source \ target) \cap owned \subseteq missed
    BY <2>1, <2>2 DEF DataInv, SourceGrounded, Wanted
  <2>4. target \subseteq source
    BY <2>2 DEF SeenFirst
  <2>5. ASSUME NEW e \in owned, sendings[e] = <<>> PROVE e \in viaSource <=> e \in viaTarget
    BY <2>1, <2>5 DEF SendingInv, MentionedVia, Acquainted, SeenFirstVia
  <2>6. QED
    BY <2>3, <2>4, <2>5
<1>4. QED
  BY <1>1, <1>2, <1>3, PTL DEF Spec
=============================================================================
