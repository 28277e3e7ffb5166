----------------------------- MODULE MCLifecycle -----------------------------
(* Instances of Lifecycle for TLC: one or two receivers, a via to each.     *)
EXTENDS LifecycleInvariant, SequencesExt

CONSTANTS B, C, toB, toC

MCAt == (toB :> B) @@ (toC :> C)

MCAtB == toB :> B

\* The one function that IsFuture accepts.
Future ==
  [i \in 0 .. Len(queue) |-> FoldLeft(After, LedgerNow, SubSeq(queue, 1, i))]

\* The inductive invariant of LifecycleInvariant, its type part and its
\* existential quantifier apart: the ledgers the owner will go through, as it
\* handles the messages in its channel, cover all copies, stay vacant once
\* vacant, and never have a payload behind a vacant one.
InductiveInvariant ==
  /\ SendersHold
  /\ DropsAreFinal
  /\ AllChannelsOpen => TakenOnlyIfVacant /\ NoFailedProbe /\ FutureSafe(Future)
=============================================================================
