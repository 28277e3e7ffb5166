----------------------------- MODULE OwnerThreads -----------------------------
(***************************************************************************)
(* Several threads of the owner, each receiving on a subreceiver of the    *)
(* same IPC channel.  One of them at a time demultiplexes a message, under *)
(* the lock of the Demuxer, but that lock is released before the probes of *)
(* a poll run.  So a poll can overlap the method another thread calls, and *)
(* other polls.  The methods of the state machine are taken apart into the *)
(* critical sections of its four mutexes.                                  *)
(*                                                                         *)
(* A mutex that is locked and unlocked in one statement is held for one    *)
(* step, which needs it free; the variables name the thread holding one    *)
(* for longer.  (An operand of && drops its guard before the next one is   *)
(* evaluated, and the condition of an if before its body.)                 *)
(***************************************************************************)
EXTENDS Lifecycle

CONSTANTS Threads, NoThread

ASSUME ThreadsAssumption == NoThread \notin Threads

VARIABLES
  demuxer,      \* the thread that has the Demuxer locked
  sourcesLock, inFlightLock, probesLock,
  at,           \* at[t]: the next critical section of t
  msg,          \* the message the demuxer's holder is handling
  linked,       \* whether it could connect to the via of a Sending
  dead,         \* dead[t]: the vias whose probes failed in t's poll
  asOne         \* the state machine if each call were a single step

threadVars == <<demuxer, sourcesLock, inFlightLock, probesLock, at, msg, linked,
                dead, asOne>>
allVars == <<vars, threadVars>>

ThreadsTypeOK ==
  /\ TypeOK
  /\ {demuxer, sourcesLock, inFlightLock, probesLock} \subseteq Threads \cup {NoThread}
  /\ at \in [Threads ->
       {"recv", "insert_in_flight", "insert_probe", "remove_in_flight",
        "insert_source", "remove_probe", "remove_source", "check_sources",
        "check_in_flight", "poll", "probe", "find_in_flight", "write_off",
        "remove_probes", "check_vacant", "take"}]
  /\ msg \in Messages
  /\ linked \in BOOLEAN
  /\ dead \in [Threads -> SUBSET Vias]
  /\ asOne \in SM!StateMachines(Probes)

ThreadsInit ==
  /\ Init
  /\ demuxer = NoThread
  /\ sourcesLock = NoThread /\ inFlightLock = NoThread /\ probesLock = NoThread
  /\ at = [t \in Threads |-> "recv"]
  /\ msg = Data
  /\ linked = TRUE
  /\ dead = [t \in Threads |-> {}]
  /\ asOne = sm

Free(lock) == lock = NoThread

GoTo(t, label) == at' = [at EXCEPT ![t] = label]

Released(lock, t) == IF lock = t THEN NoThread ELSE lock

\* The method returns: its guards go, and the Demuxer's if it was handling.
Return(t) ==
  /\ GoTo(t, "recv")
  /\ demuxer' = Released(demuxer, t)
  /\ sourcesLock' = Released(sourcesLock, t)
  /\ inFlightLock' = Released(inFlightLock, t)
  /\ probesLock' = Released(probesLock, t)

NoLockChange == UNCHANGED <<demuxer, sourcesLock, inFlightLock, probesLock>>

\* Go on with the method, or return from it.
GoToOrReturn(t, cond, label) ==
  \/ cond /\ GoTo(t, label) /\ NoLockChange
  \/ ~cond /\ Return(t)

\* Steps on the state machine leave alone all that is not the owner's.
Inside == UNCHANGED <<queue, polling, holderVars, viaVars, sent, msg, linked, asOne>>

-----------------------------------------------------------------------------
(* A thread with an empty local queue locks the Demuxer and receives.      *)

FirstSection ==
  [Sending |-> "insert_in_flight", Received |-> "remove_in_flight",
   ReceiveFailed |-> "remove_in_flight", Disconnect |-> "remove_source"]

HandledAsOne(m, connects) ==
  CASE m.type = "Sending" /\ connects  -> SM!ToBeSent(asOne, m.via, m.via)
    [] m.type = "Sending" /\ ~connects ->
         SM!ReceiveFailed(SM!ToBeSent(asOne, m.via, FailedProbe), m.via)
    [] m.type = "Received"             -> SM!Received(asOne, m.via, m.source)
    [] m.type = "ReceiveFailed"        -> SM!ReceiveFailed(asOne, m.via)
    [] m.type = "Disconnect"           -> SM!Disconnect(asOne, m.source)
    [] OTHER                           -> asOne

TakeMessage(t) ==
  /\ at[t] = "recv" /\ Free(demuxer) /\ queue # <<>>
  /\ LET m == Head(queue) IN
     /\ queue' = Tail(queue)
     /\ linked' \in (IF m.type = "Sending" THEN {TRUE, open[At[m.via]]} ELSE {TRUE})
     /\ asOne' = HandledAsOne(m, linked')
     /\ IF m.type = "Data"
        THEN UNCHANGED <<msg, demuxer, at>>
        ELSE msg' = m /\ demuxer' = t /\ GoTo(t, FirstSection[m.type])
  /\ UNCHANGED <<ownerVars, holderVars, viaVars, sent, sourcesLock, inFlightLock,
                 probesLock, dead>>

\* to_be_sent
InsertInFlight(t) ==
  /\ at[t] = "insert_in_flight" /\ Free(inFlightLock)
  /\ sm' = [sm EXCEPT !.inFlight = SM!WithOne(sm.inFlight, msg.via)]
  /\ GoTo(t, "insert_probe") /\ NoLockChange
  /\ Inside /\ UNCHANGED dead

InsertProbe(t) ==
  /\ at[t] = "insert_probe" /\ Free(probesLock)
  /\ sm' = [sm EXCEPT !.probes[msg.via] = IF linked THEN msg.via ELSE FailedProbe]
  /\ GoToOrReturn(t, ~linked, "remove_in_flight")
  /\ Inside /\ UNCHANGED dead

\* received, and receive_failed with the same first section
RemoveInFlight(t) ==
  /\ at[t] = "remove_in_flight" /\ Free(inFlightLock)
  /\ sm' = [sm EXCEPT !.inFlight = SM!WithoutOne(sm.inFlight, msg.via)]
  /\ GoTo(t, IF msg.type = "Received" THEN "insert_source" ELSE "check_sources")
  /\ NoLockChange
  /\ Inside /\ UNCHANGED dead

InsertSource(t) ==
  /\ at[t] = "insert_source" /\ Free(sourcesLock)
  /\ sm' = [sm EXCEPT !.sources = sm.sources \cup {msg.source}]
  /\ GoTo(t, "remove_probe") /\ NoLockChange
  /\ Inside /\ UNCHANGED dead

RemoveProbe(t) ==
  /\ at[t] = "remove_probe" /\ Free(probesLock)
  /\ sm' = [sm EXCEPT !.probes[msg.via] = NoProbe]
  /\ Return(t)
  /\ Inside /\ UNCHANGED dead

CheckSources(t) ==
  /\ at[t] = "check_sources" /\ Free(sourcesLock)
  /\ GoToOrReturn(t, sm.sources = {}, "check_in_flight")
  /\ Inside /\ UNCHANGED <<sm, dead>>

\* disconnect keeps the sources locked until it returns
RemoveSource(t) ==
  /\ at[t] = "remove_source" /\ Free(sourcesLock)
  /\ sm' = [sm EXCEPT !.sources = sm.sources \ {msg.source}]
  /\ IF sm'.sources = {}
     THEN /\ sourcesLock' = t /\ GoTo(t, "check_in_flight")
          /\ UNCHANGED <<demuxer, inFlightLock, probesLock>>
     ELSE Return(t)
  /\ Inside /\ UNCHANGED dead

CheckInFlight(t) ==
  /\ at[t] = "check_in_flight" /\ Free(inFlightLock)
  /\ GoToOrReturn(t, SM!NoneInFlight(sm), "take")
  /\ Inside /\ UNCHANGED <<sm, dead>>

Take(t) ==
  /\ at[t] = "take"
  /\ sm' = [sm EXCEPT !.maybe = FALSE]
  /\ Return(t)
  /\ Inside /\ UNCHANGED dead

-----------------------------------------------------------------------------
(* Nothing came for 100 ms: the Demuxer is unlocked, then polled.          *)

\* Faulty variant (README, Mutants): times out though messages are waiting.
TimeOutWithMessages(t) ==
  /\ at[t] = "recv" /\ Free(demuxer)
  /\ polling' = TRUE
  /\ GoTo(t, "poll") /\ NoLockChange
  /\ UNCHANGED <<sm, queue, holderVars, viaVars, sent, msg, linked, dead, asOne>>

TimeOutIn(t) ==
  /\ at[t] = "recv" /\ Free(demuxer) /\ queue = <<>>
  /\ polling' = TRUE
  /\ GoTo(t, "poll") /\ NoLockChange
  /\ UNCHANGED <<sm, queue, holderVars, viaVars, sent, msg, linked, dead, asOne>>

PollStart(t) ==
  /\ at[t] = "poll"
  /\ GoTo(t, IF sm.maybe THEN "probe" ELSE "recv") /\ NoLockChange
  /\ polling' = IF sm.maybe THEN polling ELSE FALSE
  /\ UNCHANGED <<sm, queue, holderVars, viaVars, sent, msg, linked, dead, asOne>>

Probe(t) ==
  /\ at[t] = "probe" /\ Free(probesLock)
  /\ dead' = [dead EXCEPT ![t] = {v \in Vias : sm.probes[v] \in FailingProbes}]
  /\ GoTo(t, "find_in_flight") /\ NoLockChange
  /\ polling' = FALSE
  /\ asOne' = SM!Poll(asOne, FailingProbes)
  /\ UNCHANGED <<sm, queue, holderVars, viaVars, sent, msg, linked>>

\* Faulty variant (README, Mutants): all that is in flight is found.
FindAllInFlight(t) ==
  /\ at[t] = "find_in_flight" /\ Free(inFlightLock)
  /\ dead' = [dead EXCEPT ![t] = {v \in Vias : sm.inFlight[v] > 0}]
  /\ GoTo(t, "write_off") /\ NoLockChange
  /\ Inside /\ UNCHANGED sm

FindInFlight(t) ==
  /\ at[t] = "find_in_flight" /\ Free(inFlightLock)
  /\ dead' = [dead EXCEPT ![t] = {v \in @ : sm.inFlight[v] > 0}]
  /\ GoTo(t, "write_off") /\ NoLockChange
  /\ Inside /\ UNCHANGED sm

\* From here on poll keeps the in-flight bag locked, and then the probes too.
WriteOff(t) ==
  /\ at[t] = "write_off" /\ Free(inFlightLock)
  /\ inFlightLock' = t
  /\ sm' = [sm EXCEPT !.inFlight = [v \in Vias |-> IF v \in dead[t] THEN 0 ELSE @[v]]]
  /\ GoTo(t, "remove_probes")
  /\ UNCHANGED <<demuxer, sourcesLock, probesLock>>
  /\ Inside /\ UNCHANGED dead

\* Faulty variant (README, Mutants): the guards go before the check.
RemoveProbesUnlocking(t) ==
  /\ at[t] = "remove_probes" /\ Free(probesLock)
  /\ inFlightLock' = NoThread
  /\ sm' = [sm EXCEPT !.probes = [v \in Vias |-> IF v \in dead[t] THEN NoProbe ELSE @[v]]]
  /\ GoTo(t, "check_vacant")
  /\ UNCHANGED <<demuxer, sourcesLock, probesLock>>
  /\ Inside /\ UNCHANGED dead

RemoveProbes(t) ==
  /\ at[t] = "remove_probes" /\ Free(probesLock)
  /\ probesLock' = t
  /\ sm' = [sm EXCEPT !.probes = [v \in Vias |-> IF v \in dead[t] THEN NoProbe ELSE @[v]]]
  /\ GoTo(t, "check_vacant")
  /\ UNCHANGED <<demuxer, sourcesLock, inFlightLock>>
  /\ Inside /\ UNCHANGED dead

CheckVacant(t) ==
  /\ at[t] = "check_vacant" /\ Free(sourcesLock)
  /\ GoToOrReturn(t, SM!Vacant(sm), "take")
  /\ Inside /\ UNCHANGED <<sm, dead>>

-----------------------------------------------------------------------------
ThreadStep(t) ==
  \/ TakeMessage(t)
  \/ InsertInFlight(t) \/ InsertProbe(t)
  \/ RemoveInFlight(t) \/ InsertSource(t) \/ RemoveProbe(t)
  \/ CheckSources(t) \/ RemoveSource(t) \/ CheckInFlight(t) \/ Take(t)
  \/ TimeOutIn(t) \/ PollStart(t) \/ Probe(t) \/ FindInFlight(t)
  \/ WriteOff(t) \/ RemoveProbes(t) \/ CheckVacant(t)

OthersStep ==
  /\ \/ \E s \in Sources : HolderStep(s)
     \/ \E v \in Vias : ViaStep(v)
     \/ \E r \in Receivers : LeaveChannel(r)
  /\ UNCHANGED threadVars

ThreadsNext == OthersStep \/ \E t \in Threads : ThreadStep(t)

ThreadsSpec == ThreadsInit /\ [][ThreadsNext]_allVars

\* Threads keep receiving and mutexes are granted; drops run to their end.
FairThreadsSpec ==
  /\ ThreadsSpec
  /\ \A t \in Threads : WF_allVars(ThreadStep(t))
  /\ \A s \in Sources : WF_vars(FinishDrop(s))
  /\ \A v \in Vias : WF_vars(Demultiplex(v) /\ receiver[v] = "closing")
  /\ \A v \in Vias : WF_vars(FailArrived(v)) /\ WF_vars(CloseReceiver(v))
-----------------------------------------------------------------------------
(* Properties.                                                             *)

AtRest == \A t \in Threads : at[t] \in {"recv", "poll"}

\* With one receiving thread, the methods amount to what Lifecycle takes them
\* for: single steps ...
CallsAreOneStep == AtRest => sm = asOne

OneStep == INSTANCE Lifecycle WITH sm <- asOne

\* ... so that the owner of Lifecycle, whose calls are single steps, is the
\* code's: overlapping critical sections add no behaviour.
ImplementsLifecycle == OneStep!FairSpec

\* With any number of threads, the sender is never taken while an in-flight
\* entry is in the bag, though no method checks and takes it under one lock.
TakenWithNoneInFlight ==
  [][sm.maybe /\ ~sm.maybe' => SM!NoneInFlight(sm)]_allVars

\* With any number of threads, and nothing crashing, once the owner has caught
\* up and its threads are back in recv, the ledger is exact: overlapping polls
\* lose no entry.
LedgerExactAtRest == AtRest => LedgerExact
=============================================================================
