-------------------------- MODULE LifecycleInvariant -------------------------
(***************************************************************************)
(* Why the owner never disconnects too early, as an inductive invariant.   *)
(*                                                                         *)
(* NoPrematureDisconnect compares copies out in the world with a state     *)
(* machine that is behind by the messages still in the owner's channel.    *)
(* The invariant speaks of every ledger the owner will have as it handles  *)
(* them, the last of which is up to date:                                  *)
(*   - the last ledger covers every copy;                                  *)
(*   - once a ledger is vacant the later ones are, so that a vacant one    *)
(*     says there are no copies, however many messages are behind it;      *)
(*   - payloads are never behind a vacant ledger;                          *)
(*   - a receipt finds its copy in flight in the ledger before it.         *)
(***************************************************************************)
EXTENDS Lifecycle

\* The part of the state machine that counts copies.
Ledgers == [sources : SUBSET Sources, inFlight : [Vias -> Nat]]

LedgerNow == [sources |-> sm.sources, inFlight |-> sm.inFlight]

\* The ledger after handling a message (while all channels are open).
After(ledger, m) ==
  [sources  |-> CASE m.type = "Received"   -> ledger.sources \cup {m.source}
                  [] m.type = "Disconnect" -> ledger.sources \ {m.source}
                  [] OTHER                 -> ledger.sources,
   inFlight |-> CASE m.type = "Sending" -> SM!WithOne(ledger.inFlight, m.via)
                  [] m.type \in {"Received", "ReceiveFailed"}
                                        -> SM!WithoutOne(ledger.inFlight, m.via)
                  [] OTHER              -> ledger.inFlight]

\* future[i] is the ledger after the first i messages of the queue.
IsFuture(future) ==
  /\ future \in [0 .. Len(queue) -> Ledgers]
  /\ future[0] = LedgerNow
  /\ \A i \in 1 .. Len(queue) : future[i] = After(future[i-1], queue[i])

VacantForGood(future) ==
  \A i, j \in 0 .. Len(queue) :
    i <= j /\ SM!Vacant(future[i]) => SM!Vacant(future[j])

NoPayloadBehindVacant(future) ==
  \A i \in 1 .. Len(queue) :
    queue[i].type = "Data" => ~SM!Vacant(future[i-1])

ReceiptsFindEntries(future) ==
  \A i \in 1 .. Len(queue) :
    queue[i].type \in {"Received", "ReceiveFailed"} =>
      future[i-1].inFlight[queue[i].via] > 0

Covers(ledger) ==
  /\ \A s \in Sources : held[s] > 0 => s \in ledger.sources
  /\ \A v \in Vias :
       transit[v] + arrived[v] + Cardinality(BeingSent(v)) <= ledger.inFlight[v]

FutureSafe(future) ==
  /\ VacantForGood(future)
  /\ NoPayloadBehindVacant(future)
  /\ ReceiptsFindEntries(future)
  /\ Covers(future[Len(queue)])

-----------------------------------------------------------------------------
(* What else the induction needs.                                          *)

\* A copy that is being sent is held: the count of copies never goes below 0.
SendersHold == \A s \in Sources : sending[s] # NoVia => held[s] > 0

\* The thread that drops a tracker drops its last use, and does nothing else
\* until it has sent Disconnect.
DropsAreFinal == \A s \in Sources : dropping[s] > 0 => ~Tracked(s)

TakenOnlyIfVacant == ~sm.maybe => SM!Vacant(sm)

NoFailedProbe == \A v \in Vias : sm.probes[v] # FailedProbe

LedgersSafe ==
  AllChannelsOpen =>
    /\ TakenOnlyIfVacant
    /\ NoFailedProbe
    /\ \E future \in [0 .. Len(queue) -> Ledgers] : IsFuture(future) /\ FutureSafe(future)

IInv == TypeOK /\ SendersHold /\ DropsAreFinal /\ LedgersSafe
=============================================================================
