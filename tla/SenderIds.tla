------------------------------ MODULE SenderIds ------------------------------
(***************************************************************************)
(* How IPC senders are sent once and named by UUID afterwards.             *)
(*                                                                         *)
(* Threads share clones of one subsender, the carrier, and embed others in *)
(* what they send on it.  Each transmission mentions two IPC senders: the  *)
(* Sending message to the owner of the embedded subsender mentions the     *)
(* carrier's, and Data mentions the embedded one's.  A Source, shared by   *)
(* all clones, remembers what was mentioned on its channel: the first      *)
(* mention carries the IPC sender, later ones only its UUID.  The Target at*)
(* the other end keeps what it was given, for good.                        *)
(*                                                                         *)
(* The IPC senders stay referenced while they are being sent, so the       *)
(* weakness of the Source's references plays no part.                      *)
(***************************************************************************)
EXTENDS Naturals, Sequences

CONSTANTS
  Threads,     \* the threads that send on the carrier
  Embeddable,  \* the subsenders they embed, each of a channel of its own
  Dying,       \* those whose channel may go, its owner being dropped
  MaxSends,    \* bound: sends started, over a behaviour
  MaxEmbedded  \* bound: subsenders embedded in one message

ASSUME SenderIdsAssumption ==
  /\ Dying \subseteq Embeddable
  /\ MaxSends \in Nat /\ MaxEmbedded \in Nat

VARIABLES
  source,    \* IPC senders the carrier's Source has seen
  viaSource, \* embeddables whose Source has seen the carrier's IPC sender
  calls,     \* calls[t]: the send that t is in
  data,      \* Data messages in the carrier's channel: the mentions in each
  sendings,  \* sendings[e]: Sending messages to e's owner, TRUE for in full
  target,    \* IPC senders the carrier's receiver has by UUID
  viaTarget, \* embeddables whose owner has the carrier's IPC sender by UUID
  owned,     \* embeddables whose owner's channel is still there
  missed,    \* history: IPC senders mentioned in full to no avail
  started    \* sends started so far

vars == <<source, viaSource, calls, data, sendings, target, viaTarget, owned,
          missed, started>>

\* A mention of the IPC sender of e, in full or by UUID (IpcSenderAndOrId).
Mentions == [sender : Embeddable, full : BOOLEAN]

\* A send: what is yet to be announced, how its Sending will mention the
\* carrier once that is settled, and the mentions for Data so far.
Idle == [todo |-> <<>>, announcing |-> "no", mentions |-> <<>>]

InFull(mentions) == {mentions[i].sender : i \in {k \in DOMAIN mentions : mentions[k].full}}

Calls == [todo : Seq(Embeddable), announcing : {"no", "in_full", "by_id"},
          mentions : Seq(Mentions)]

TypeOK ==
  /\ source \subseteq Embeddable /\ viaSource \subseteq Embeddable
  /\ calls \in [Threads -> Calls]
  /\ data \in Seq(Seq(Mentions))
  /\ sendings \in [Embeddable -> Seq(BOOLEAN)]
  /\ target \subseteq Embeddable /\ viaTarget \subseteq Embeddable
  /\ owned \subseteq Embeddable /\ missed \subseteq Embeddable
  /\ started \in Nat

Init ==
  /\ source = {} /\ viaSource = {}
  /\ calls = [t \in Threads |-> Idle]
  /\ data = <<>>
  /\ sendings = [e \in Embeddable |-> <<>>]
  /\ target = {} /\ viaTarget = {}
  /\ owned = Embeddable /\ missed = {}
  /\ started = 0

-----------------------------------------------------------------------------
\* Serialization has collected the embedded subsenders, in order.
BeginSend(t) ==
  /\ calls[t] = Idle /\ started < MaxSends
  /\ started' = started + 1
  /\ \E n \in 1 .. MaxEmbedded : \E embedded \in [1 .. n -> Embeddable] :
       calls' = [calls EXCEPT ![t] = [Idle EXCEPT !.todo = embedded]]
  /\ UNCHANGED <<source, viaSource, data, sendings, target, viaTarget, owned, missed>>

\* Faulty variant (README, Mutants): one record for all channels.
MentionCarrierOnce(t) ==
  /\ calls[t].todo # <<>> /\ calls[t].announcing = "no"
  /\ LET e == Head(calls[t].todo) IN
     /\ viaSource' = viaSource \cup {e}
     /\ calls' = [calls EXCEPT ![t].announcing = IF viaSource # {} THEN "by_id" ELSE "in_full"]
  /\ UNCHANGED <<source, data, sendings, target, viaTarget, owned, missed, started>>

\* Whether the first mention of the carrier's IPC sender on e's channel is
\* this one; it counts as made from now on.
MentionCarrier(t) ==
  /\ calls[t].todo # <<>> /\ calls[t].announcing = "no"
  /\ LET e == Head(calls[t].todo) IN
     /\ viaSource' = viaSource \cup {e}
     /\ calls' = [calls EXCEPT ![t].announcing = IF e \in viaSource THEN "by_id" ELSE "in_full"]
  /\ UNCHANGED <<source, data, sendings, target, viaTarget, owned, missed, started>>

\* Faulty variant (README, Mutants): asks the wrong Source.
AnnounceByWrongSource(t) ==
  /\ calls[t].announcing # "no"
  /\ LET e == Head(calls[t].todo) IN
     /\ e \in owned
     /\ sendings' = [sendings EXCEPT ![e] = Append(@, calls[t].announcing = "in_full")]
     /\ source' = source \cup {e}
     /\ calls' = [calls EXCEPT ![t] =
          [todo |-> Tail(@.todo), announcing |-> "no",
           mentions |-> Append(@.mentions, [sender |-> e, full |-> source = {}])]]
  /\ UNCHANGED <<viaSource, data, target, viaTarget, owned, missed, started>>

\* Sending goes to the owner of e, and e's own IPC sender is put on the list
\* for Data.  When e's channel is gone, send returns the error: what it has
\* announced stays announced, and what the Sources have seen, seen.
Announce(t) ==
  /\ calls[t].announcing # "no"
  /\ LET e == Head(calls[t].todo) IN
     IF e \in owned
     THEN /\ sendings' = [sendings EXCEPT ![e] = Append(@, calls[t].announcing = "in_full")]
          /\ source' = source \cup {e}
          /\ calls' = [calls EXCEPT ![t] =
               [todo |-> Tail(@.todo), announcing |-> "no",
                mentions |-> Append(@.mentions, [sender |-> e, full |-> e \notin source])]]
          /\ UNCHANGED missed
     ELSE /\ calls' = [calls EXCEPT ![t] = Idle]
          /\ missed' = missed \cup InFull(calls[t].mentions)
          /\ UNCHANGED <<sendings, source>>
  /\ UNCHANGED <<viaSource, data, target, viaTarget, owned, started>>

SendData(t) ==
  /\ calls[t].todo = <<>> /\ calls[t] # Idle
  /\ data' = Append(data, calls[t].mentions)
  /\ calls' = [calls EXCEPT ![t] = Idle]
  /\ UNCHANGED <<source, viaSource, sendings, target, viaTarget, owned, missed, started>>

-----------------------------------------------------------------------------
\* What is known when the i-th mention of a message is looked at.
KnownAt(m, i) == target \cup {m[j].sender : j \in {k \in 1 .. i - 1 : m[k].full}}

\* A mention in full connects to the channel, which must be there; one by
\* UUID is looked up.
Resolves(m, i) ==
  m[i].sender \in (IF m[i].full THEN owned ELSE KnownAt(m, i))

\* Faulty variant (README, Mutants): keeps the first IPC sender only.
HandleDataKeepFirst ==
  /\ data # <<>>
  /\ data' = Tail(data)
  /\ target' = target \cup {m.sender : m \in {Head(data)[1]}}
  /\ UNCHANGED <<source, viaSource, calls, sendings, viaTarget, owned, missed, started>>

\* The receiver of the carrier resolves the mentions in order, up to the first
\* that fails, and then the message is lost.
HandleData ==
  /\ data # <<>>
  /\ data' = Tail(data)
  /\ LET m == Head(data)
         Fails(k) == \E j \in 1 .. k : ~Resolves(m, j)
         gone == {k \in DOMAIN m : m[k].full /\ Fails(k)}
         kept == {k \in DOMAIN m : m[k].full /\ ~Fails(k)}
     IN  /\ target' = target \cup {m[k].sender : k \in kept}
         /\ missed' = missed \cup {m[k].sender : k \in gone}
  /\ UNCHANGED <<source, viaSource, calls, sendings, viaTarget, owned, started>>

HandleSending(e) ==
  /\ e \in owned /\ sendings[e] # <<>>
  /\ sendings' = [sendings EXCEPT ![e] = Tail(@)]
  /\ viaTarget' = IF Head(sendings[e]) THEN viaTarget \cup {e} ELSE viaTarget
  /\ UNCHANGED <<source, viaSource, calls, data, target, owned, missed, started>>

LoseOwner(e) ==
  /\ e \in Dying \cap owned
  /\ owned' = owned \ {e}
  /\ sendings' = [sendings EXCEPT ![e] = <<>>]
  /\ UNCHANGED <<source, viaSource, calls, data, target, viaTarget, missed, started>>

-----------------------------------------------------------------------------
ThreadStep(t) == BeginSend(t) \/ MentionCarrier(t) \/ Announce(t) \/ SendData(t)

Next ==
  \/ \E t \in Threads : ThreadStep(t)
  \/ HandleData
  \/ \E e \in Embeddable : HandleSending(e) \/ LoseOwner(e)

Spec == Init /\ [][Next]_vars
-----------------------------------------------------------------------------
(* Properties.                                                             *)

\* A UUID in a Data message that is about to be handled is known to the
\* receiver, so that the message is not refused for it, unless it is that of a
\* channel that is gone (README, Subsender serialization: "the receiving process
\* already has the IPC sender").
IdsInDataKnown ==
  data # <<>> =>
    \A i \in DOMAIN Head(data) :
      Head(data)[i].sender \in owned => Resolves(Head(data), i)

\* The same, but for IPC senders whose mention in full went down with a send
\* that failed, or a message that was refused, for the sake of another one.
IdsInDataKnownUnlessMissed ==
  data # <<>> =>
    \A i \in DOMAIN Head(data) :
      LET mention == Head(data)[i] IN
      mention.sender \in owned \ missed =>
        mention.full \/ mention.sender \in KnownAt(Head(data), i)

\* The same for the UUID of the carrier in a Sending message; the owner would
\* take the subsender for lost in transmission.
IdsInSendingKnown ==
  \A e \in owned : sendings[e] # <<>> => Head(sendings[e]) \/ e \in viaTarget

\* When nothing is under way, all that the Sources think is known is known,
\* and nothing else, but for what was missed.
SourcesAndTargetsAgree ==
  (data = <<>> /\ \A t \in Threads : calls[t] = Idle) =>
    /\ (source \ target) \cap owned \subseteq missed
    /\ target \subseteq source
    /\ \A e \in owned : sendings[e] = <<>> => (e \in viaSource <=> e \in viaTarget)
=============================================================================
