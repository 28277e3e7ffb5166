-------------------------- MODULE OwnerThreadsProofs --------------------------
(***************************************************************************)
(* Proofs about OwnerThreads: its types and the taking of the sender for   *)
(* any number of threads, and that the calls of a single thread amount to  *)
(* the steps Lifecycle takes them for.                                     *)
(***************************************************************************)
EXTENDS OwnerThreads, LifecycleProofs

-----------------------------------------------------------------------------
(* Type correctness.                                                       *)

\* What a thread at each label knows of the message it handles.
Handling ==
  \A t \in Threads :
    /\ at[t] \in {"insert_in_flight", "insert_probe"} => msg.type = "Sending"
    /\ at[t] = "remove_in_flight" => msg.type \in {"Sending", "Received", "ReceiveFailed"}
    /\ at[t] \in {"insert_source", "remove_probe"} => msg.type = "Received"
    /\ at[t] = "remove_source" => msg.type = "Disconnect"

\* A thread that is handling a message has the Demuxer locked, so that no other
\* one is; and what it found, and keeps it, of poll.
HandlerLabels ==
  {"insert_in_flight", "insert_probe", "remove_in_flight", "insert_source",
   "remove_probe", "remove_source", "check_sources", "check_in_flight"}

OneHandler == \A t \in Threads : at[t] \in HandlerLabels => demuxer = t

Typed == ThreadsTypeOK /\ SendersHold /\ Handling /\ OneHandler

\* What holds of the code's variables when a thread goes from one label to
\* another, with its message or returning.
LEMMA ReturnTyped ==
  ASSUME ThreadsTypeOK, NEW t \in Threads, Return(t)
  PROVE  /\ at' = [at EXCEPT ![t] = "recv"]
         /\ demuxer' \in Threads \cup {NoThread} /\ sourcesLock' \in Threads \cup {NoThread}
         /\ inFlightLock' \in Threads \cup {NoThread} /\ probesLock' \in Threads \cup {NoThread}
         /\ demuxer' = demuxer \/ demuxer = t
         /\ inFlightLock' = inFlightLock \/ inFlightLock = t
BY DEF Return, GoTo, Released, ThreadsTypeOK

\* A step of t inside a method keeps the types if it keeps that of the state
\* machine and goes to a label that fits the message.
LEMMA InsideTyped ==
  ASSUME Typed, NEW t \in Threads, NEW label,
         at' = [at EXCEPT ![t] = label],
         label \in {"recv"} \cup HandlerLabels
                     \cup {"write_off", "remove_probes", "check_vacant", "take"},
         label \in {"insert_in_flight", "insert_probe"} => msg.type = "Sending",
         label = "remove_in_flight" => msg.type \in {"Sending", "Received", "ReceiveFailed"},
         label \in {"insert_source", "remove_probe"} => msg.type = "Received",
         label = "remove_source" => msg.type = "Disconnect",
         label \in HandlerLabels => demuxer' = t,
         demuxer' = demuxer \/ demuxer = t,
         {demuxer', sourcesLock', inFlightLock', probesLock'} \subseteq Threads \cup {NoThread},
         sm' \in Machines, dead' \in [Threads -> SUBSET Vias],
         Inside
  PROVE  Typed'
<1>1. ThreadsTypeOK'
  <2>1. at' \in [Threads ->
          {"recv", "insert_in_flight", "insert_probe", "remove_in_flight",
           "insert_source", "remove_probe", "remove_source", "check_sources",
           "check_in_flight", "poll", "probe", "find_in_flight", "write_off",
           "remove_probes", "check_vacant", "take"}]
    BY DEF Typed, ThreadsTypeOK, HandlerLabels
  <2>2. TypeOK'
    BY DEF Typed, ThreadsTypeOK, TypeOK, Inside, holderVars, viaVars, Machines
  <2>3. QED
    BY <2>1, <2>2 DEF Typed, ThreadsTypeOK, Inside
<1>2. SendersHold'
  BY DEF Typed, SendersHold, Inside, holderVars
<1>3. \A u \in Threads : at'[u] = IF u = t THEN label ELSE at[u]
  BY DEF Typed, ThreadsTypeOK
<1>4. Handling'
  BY <1>3 DEF Typed, Handling, Inside
<1>5. OneHandler'
  <2> SUFFICES ASSUME NEW u \in Threads, at'[u] \in HandlerLabels PROVE demuxer' = u
    BY DEF OneHandler
  <2>1. CASE u = t
    BY <1>3, <2>1
  <2>2. CASE u # t
    BY <1>3, <2>2 DEF Typed, OneHandler
  <2>3. QED
    BY <2>1, <2>2
<1>6. QED
  BY <1>1, <1>2, <1>4, <1>5 DEF Typed

\* The sections of the methods called with the Demuxer locked keep the types.
LEMMA HandlerTyped ==
  ASSUME Typed, NEW t \in Threads,
         \/ InsertInFlight(t) \/ InsertProbe(t)
         \/ RemoveInFlight(t) \/ InsertSource(t) \/ RemoveProbe(t)
         \/ CheckSources(t) \/ RemoveSource(t) \/ CheckInFlight(t) \/ Take(t)
  PROVE  Typed'
<1>0. /\ sm \in Machines /\ msg \in Messages /\ dead \in [Threads -> SUBSET Vias]
      /\ sm.inFlight \in [Vias -> Nat] /\ sm.probes \in [Vias -> Probes \cup {NoProbe}]
      /\ sm.sources \in SUBSET Sources
      /\ {demuxer, sourcesLock, inFlightLock, probesLock} \subseteq Threads \cup {NoThread}
      /\ at[t] \in HandlerLabels => demuxer = t
  BY DEF Typed, ThreadsTypeOK, TypeOK, Machines, SM!StateMachines, OneHandler
<1>a. ASSUME Return(t), sm' \in Machines, Inside, UNCHANGED dead PROVE Typed'
  <2>1. ThreadsTypeOK
    BY DEF Typed
  <2>2. QED
    BY <1>0, <1>a, <2>1, ReturnTyped, InsideTyped DEF HandlerLabels
<1>1. CASE InsertInFlight(t)
  <2>1. msg.via \in Vias
    BY <1>0, <1>1, HeadTyped DEF InsertInFlight, Typed, Handling
  <2>2. sm' \in Machines
    BY <1>0, <1>1, <2>1, BagsTyped DEF InsertInFlight, Machines, SM!StateMachines
  <2>3. /\ msg.type = "Sending" /\ at' = [at EXCEPT ![t] = "insert_probe"] /\ demuxer = t
        /\ NoLockChange /\ Inside /\ UNCHANGED dead
    BY <1>0, <1>1 DEF InsertInFlight, GoTo, HandlerLabels, Typed, Handling
  <2>4. QED
    BY <1>0, <2>2, <2>3, InsideTyped DEF NoLockChange, HandlerLabels
<1>2. CASE InsertProbe(t)
  <2>1. msg.via \in Vias
    BY <1>0, <1>2, HeadTyped DEF InsertProbe, Typed, Handling
  <2>2. PICK p \in Probes : sm' = [sm EXCEPT !.probes[msg.via] = p]
    BY <1>2, <2>1 DEF InsertProbe, Probes
  <2>3. sm' \in Machines
    BY <1>0, <2>1, <2>2 DEF Machines, SM!StateMachines
  <2>4. CASE linked
    BY <1>2, <1>a, <2>3, <2>4 DEF InsertProbe, GoToOrReturn
  <2>5. CASE ~linked
    <3>1. msg.type = "Sending"
      BY <1>2 DEF InsertProbe, Typed, Handling
    <3>2. at' = [at EXCEPT ![t] = "remove_in_flight"] /\ NoLockChange /\ demuxer = t
      BY <1>0, <1>2, <2>5 DEF InsertProbe, GoToOrReturn, GoTo, HandlerLabels
    <3>3. Inside /\ UNCHANGED dead
      BY <1>2 DEF InsertProbe
    <3>4. QED
      BY <1>0, <2>3, <3>1, <3>2, <3>3, InsideTyped DEF NoLockChange, HandlerLabels
  <2>6. QED
    BY <2>4, <2>5
<1>3. CASE RemoveInFlight(t)
  <2>1. msg.via \in Vias
    BY <1>0, <1>3, HeadTyped DEF RemoveInFlight, Typed, Handling
  <2>2. sm' \in Machines
    BY <1>0, <1>3, <2>1, BagsTyped DEF RemoveInFlight, Machines, SM!StateMachines
  <2>3. QED
    BY <1>0, <1>3, <2>2, InsideTyped
       DEF RemoveInFlight, GoTo, NoLockChange, HandlerLabels, Typed, Handling
<1>4. CASE InsertSource(t)
  <2>1. msg.source \in Sources /\ msg.type = "Received"
    BY <1>0, <1>4, HeadTyped DEF InsertSource, Typed, Handling
  <2>2. sm' \in Machines
    BY <1>0, <1>4, <2>1 DEF InsertSource, Machines, SM!StateMachines
  <2>3. QED
    BY <1>0, <1>4, <2>1, <2>2, InsideTyped
       DEF InsertSource, GoTo, NoLockChange, HandlerLabels
<1>5. CASE RemoveProbe(t)
  <2>1. msg.via \in Vias
    BY <1>0, <1>5, HeadTyped DEF RemoveProbe, Typed, Handling
  <2>2. sm' \in Machines
    BY <1>0, <1>5, <2>1 DEF RemoveProbe, Machines, SM!StateMachines
  <2>3. QED
    BY <1>5, <1>a, <2>2 DEF RemoveProbe
<1>6. CASE CheckSources(t)
  <2>1. CASE sm.sources = {}
    <3>1. /\ at' = [at EXCEPT ![t] = "check_in_flight"] /\ demuxer = t
          /\ NoLockChange /\ Inside /\ UNCHANGED <<sm, dead>>
      BY <1>0, <1>6, <2>1 DEF CheckSources, GoToOrReturn, GoTo, HandlerLabels
    <3>2. QED
      BY <1>0, <3>1, InsideTyped DEF NoLockChange, HandlerLabels
  <2>2. CASE sm.sources # {}
    BY <1>0, <1>6, <1>a, <2>2 DEF CheckSources, GoToOrReturn
  <2>3. QED
    BY <2>1, <2>2
<1>7. CASE RemoveSource(t)
  <2>1. sm' \in Machines
    BY <1>0, <1>7 DEF RemoveSource, Machines, SM!StateMachines
  <2>2. CASE sm'.sources = {}
    <3>1. /\ at' = [at EXCEPT ![t] = "check_in_flight"] /\ demuxer = t
          /\ sourcesLock' = t /\ UNCHANGED <<demuxer, inFlightLock, probesLock>>
          /\ Inside /\ UNCHANGED dead
      BY <1>0, <1>7, <2>2 DEF RemoveSource, GoTo, HandlerLabels
    <3>2. QED
      BY <1>0, <2>1, <3>1, InsideTyped DEF HandlerLabels
  <2>3. CASE sm'.sources # {}
    BY <1>7, <1>a, <2>1, <2>3 DEF RemoveSource
  <2>4. QED
    BY <2>2, <2>3
<1>8. CASE CheckInFlight(t)
  <2>1. CASE SM!NoneInFlight(sm)
    <3>1. /\ at' = [at EXCEPT ![t] = "take"]
          /\ NoLockChange /\ Inside /\ UNCHANGED <<sm, dead>>
      BY <1>8, <2>1 DEF CheckInFlight, GoToOrReturn, GoTo
    <3>2. QED
      BY <1>0, <3>1, InsideTyped DEF NoLockChange, HandlerLabels
  <2>2. CASE ~SM!NoneInFlight(sm)
    BY <1>0, <1>8, <1>a, <2>2 DEF CheckInFlight, GoToOrReturn
  <2>3. QED
    BY <2>1, <2>2
<1>9. CASE Take(t)
  <2>1. sm' \in Machines
    BY <1>0, <1>9 DEF Take, Machines, SM!StateMachines
  <2>2. QED
    BY <1>9, <1>a, <2>1 DEF Take
<1>10. QED
  BY <1>1, <1>2, <1>3, <1>4, <1>5, <1>6, <1>7, <1>8, <1>9

\* What handling a message as one step makes of a state machine is one.
LEMMA HandledAsOneTyped ==
  ASSUME NEW m \in Messages, NEW connects \in BOOLEAN, asOne \in Machines
  PROVE  HandledAsOne(m, connects) \in Machines
<1>1. CASE m.type = "Sending"
  <2>1. m.via \in Vias /\ m.via \in Probes /\ FailedProbe \in Probes /\ Origin \in Sources
    BY <1>1, HeadTyped DEF Probes, Sources
  <2>2. SM!ToBeSent(asOne, m.via, m.via) \in Machines
    BY <2>1, StateMachineTyped
  <2>3. SM!ToBeSent(asOne, m.via, FailedProbe) \in Machines
    BY <2>1, StateMachineTyped
  <2>4. SM!ReceiveFailed(SM!ToBeSent(asOne, m.via, FailedProbe), m.via) \in Machines
    BY <2>1, <2>3, StateMachineTyped
  <2>5. CASE connects
    BY <1>1, <2>2, <2>5 DEF HandledAsOne
  <2>6. CASE ~connects
    BY <1>1, <2>4, <2>6 DEF HandledAsOne
  <2>7. QED
    BY <2>5, <2>6
<1>2. CASE m.type = "Received"
  <2>1. m.via \in Vias /\ m.source \in Sources
    BY <1>2, HeadTyped
  <2>2. QED
    BY <1>2, <2>1, StateMachineTyped DEF HandledAsOne
<1>3. CASE m.type = "ReceiveFailed"
  <2>1. m.via \in Vias /\ Origin \in Sources
    BY <1>3, HeadTyped DEF Sources
  <2>2. QED
    BY <1>3, <2>1, StateMachineTyped DEF HandledAsOne
<1>4. CASE m.type = "Disconnect"
  <2>1. m.source \in Sources
    BY <1>4, HeadTyped
  <2>2. QED
    BY <1>4, <2>1, DisconnectTyped DEF HandledAsOne
<1>5. CASE m.type = "Data"
  BY <1>5 DEF HandledAsOne
<1>6. QED
  BY <1>1, <1>2, <1>3, <1>4, <1>5 DEF Messages

\* Taking a message, as the only handler, keeps the types.
LEMMA TakeMessageTyped ==
  ASSUME Typed, NEW t \in Threads, TakeMessage(t)
  PROVE  Typed'
<1> DEFINE m == Head(queue)
<1>0. /\ queue \in Seq(Messages) /\ queue # <<>> /\ queue' = Tail(queue)
      /\ open \in [Receivers -> BOOLEAN]
      /\ asOne \in Machines /\ at[t] = "recv" /\ demuxer = NoThread
  BY DEF Typed, ThreadsTypeOK, TypeOK, TakeMessage, Machines, Free
<1>1. m \in Messages /\ queue' \in Seq(Messages)
  BY <1>0
<1>2. linked' \in BOOLEAN
  <2>1. CASE m.type = "Sending"
    <3>1. open[At[m.via]] \in BOOLEAN
      BY <1>0, <1>1, <2>1, HeadTyped, AtTyped
    <3>2. QED
      BY <2>1, <3>1 DEF TakeMessage
  <2>2. CASE m.type # "Sending"
    BY <2>2 DEF TakeMessage
  <2>3. QED
    BY <2>1, <2>2
<1>3. asOne' \in Machines
  BY <1>0, <1>1, <1>2, HandledAsOneTyped DEF TakeMessage
<1>4. TypeOK' /\ SendersHold'
  BY <1>1 DEF Typed, ThreadsTypeOK, TypeOK, TakeMessage, ownerVars, holderVars, viaVars,
              SendersHold
<1>5. CASE m.type = "Data"
  <2>1. UNCHANGED <<msg, demuxer, at>>
    BY <1>5 DEF TakeMessage
  <2>2. QED
    BY <1>2, <1>3, <1>4, <2>1
       DEF TakeMessage, Typed, ThreadsTypeOK, Handling, OneHandler, Machines
<1>6. CASE m.type # "Data"
  <2>1. /\ msg' = m /\ demuxer' = t /\ at' = [at EXCEPT ![t] = FirstSection[m.type]]
        /\ UNCHANGED <<sourcesLock, inFlightLock, probesLock, dead>>
    BY <1>6 DEF TakeMessage, GoTo
  <2>2. /\ m.type \in {"Sending", "Received", "ReceiveFailed", "Disconnect"}
        /\ FirstSection["Sending"] = "insert_in_flight"
        /\ FirstSection["Received"] = "remove_in_flight"
        /\ FirstSection["ReceiveFailed"] = "remove_in_flight"
        /\ FirstSection["Disconnect"] = "remove_source"
    BY <1>1, <1>6 DEF Messages, FirstSection
  <2>3. /\ at \in [Threads ->
          {"recv", "insert_in_flight", "insert_probe", "remove_in_flight",
           "insert_source", "remove_probe", "remove_source", "check_sources",
           "check_in_flight", "poll", "probe", "find_in_flight", "write_off",
           "remove_probes", "check_vacant", "take"}]
        /\ \A u \in Threads : u # t => at[u] \notin HandlerLabels
    BY <1>0, ThreadsAssumption DEF Typed, ThreadsTypeOK, OneHandler
  <2>4. /\ at' \in [Threads ->
          {"recv", "insert_in_flight", "insert_probe", "remove_in_flight",
           "insert_source", "remove_probe", "remove_source", "check_sources",
           "check_in_flight", "poll", "probe", "find_in_flight", "write_off",
           "remove_probes", "check_vacant", "take"}]
        /\ \A u \in Threads : u # t => at'[u] \notin HandlerLabels
        /\ at'[t] = FirstSection[m.type]
    BY <2>1, <2>2, <2>3
  <2>5. ThreadsTypeOK'
    BY <1>1, <1>2, <1>3, <1>4, <2>1, <2>4 DEF Typed, ThreadsTypeOK, Machines
  <2>6. Handling'
    BY <2>1, <2>2, <2>4 DEF Handling, HandlerLabels
  <2>7. OneHandler'
    BY <2>1, <2>4 DEF OneHandler
  <2>8. QED
    BY <1>4, <2>5, <2>6, <2>7 DEF Typed
<1>7. QED
  BY <1>5, <1>6

\* The sections of poll, and what leads to it, keep the types.
LEMMA PollerTyped ==
  ASSUME Typed, NEW t \in Threads,
         \/ TimeOutIn(t) \/ PollStart(t) \/ Probe(t) \/ FindInFlight(t)
         \/ WriteOff(t) \/ RemoveProbes(t) \/ CheckVacant(t)
  PROVE  Typed'
<1>0. /\ sm \in Machines /\ dead \in [Threads -> SUBSET Vias] /\ asOne \in Machines
      /\ sm.inFlight \in [Vias -> Nat] /\ sm.probes \in [Vias -> Probes \cup {NoProbe}]
      /\ {demuxer, sourcesLock, inFlightLock, probesLock} \subseteq Threads \cup {NoThread}
      /\ SendersHold
  BY DEF Typed, ThreadsTypeOK, TypeOK, Machines, SM!StateMachines
<1>a. ASSUME NEW label \in {"recv", "poll", "probe", "find_in_flight"},
             at' = [at EXCEPT ![t] = label], NoLockChange,
             polling' \in BOOLEAN, dead' \in [Threads -> SUBSET Vias], asOne' \in Machines,
             UNCHANGED <<sm, queue, holderVars, viaVars, sent, msg, linked>>
      PROVE  Typed'
  <2>1. \A u \in Threads : at'[u] = IF u = t THEN label ELSE at[u]
    BY <1>a DEF Typed, ThreadsTypeOK
  <2>2. TypeOK' /\ SendersHold'
    BY <1>a DEF Typed, ThreadsTypeOK, TypeOK, SendersHold, holderVars, viaVars
  <2>3. at' \in [Threads ->
          {"recv", "insert_in_flight", "insert_probe", "remove_in_flight",
           "insert_source", "remove_probe", "remove_source", "check_sources",
           "check_in_flight", "poll", "probe", "find_in_flight", "write_off",
           "remove_probes", "check_vacant", "take"}]
    BY <1>a DEF Typed, ThreadsTypeOK
  <2>4. ThreadsTypeOK'
    BY <1>0, <1>a, <2>2, <2>3 DEF Typed, ThreadsTypeOK, NoLockChange, Machines
  <2>5. Handling'
    BY <1>a, <2>1 DEF Typed, Handling
  <2>6. OneHandler'
    BY <1>a, <2>1 DEF Typed, OneHandler, HandlerLabels, NoLockChange
  <2>7. QED
    BY <2>2, <2>4, <2>5, <2>6 DEF Typed
<1>b. polling \in BOOLEAN
  BY DEF Typed, ThreadsTypeOK, TypeOK
<1>1. CASE TimeOutIn(t)
  BY <1>0, <1>1, <1>a DEF TimeOutIn, GoTo
<1>2. CASE PollStart(t)
  BY <1>0, <1>2, <1>a, <1>b DEF PollStart, GoTo
<1>3. CASE Probe(t)
  <2>1. dead' \in [Threads -> SUBSET Vias]
    BY <1>0, <1>3 DEF Probe
  <2>2. asOne' \in Machines
    BY <1>0, <1>3, PollTyped DEF Probe
  <2>3. QED
    BY <1>3, <1>a, <2>1, <2>2 DEF Probe, GoTo
<1>4. CASE FindInFlight(t)
  <2>1. dead' \in [Threads -> SUBSET Vias]
    BY <1>0, <1>4 DEF FindInFlight
  <2>2. QED
    BY <1>0, <1>4, <2>1, InsideTyped DEF FindInFlight, GoTo, NoLockChange, HandlerLabels
<1>5. CASE WriteOff(t)
  <2>1. sm' \in Machines
    BY <1>0, <1>5 DEF WriteOff, Machines, SM!StateMachines
  <2>2. QED
    BY <1>0, <1>5, <2>1, InsideTyped DEF WriteOff, GoTo, HandlerLabels
<1>6. CASE RemoveProbes(t)
  <2>1. sm' \in Machines
    BY <1>0, <1>6 DEF RemoveProbes, Machines, SM!StateMachines
  <2>2. QED
    <3>1. /\ at' = [at EXCEPT ![t] = "check_vacant"]
          /\ probesLock' = t /\ UNCHANGED <<demuxer, sourcesLock, inFlightLock>>
          /\ Inside /\ UNCHANGED dead
      BY <1>6 DEF RemoveProbes, GoTo
    <3>2. QED
      BY <1>0, <2>1, <3>1, InsideTyped DEF HandlerLabels
<1>7. CASE CheckVacant(t)
  <2>1. CASE SM!Vacant(sm)
    <3>1. /\ at' = [at EXCEPT ![t] = "take"]
          /\ NoLockChange /\ Inside /\ UNCHANGED <<sm, dead>>
      BY <1>7, <2>1 DEF CheckVacant, GoToOrReturn, GoTo
    <3>2. QED
      BY <1>0, <3>1, InsideTyped DEF NoLockChange, HandlerLabels
  <2>2. CASE ~SM!Vacant(sm)
    <3>1. Return(t)
      BY <1>7, <2>2 DEF CheckVacant, GoToOrReturn
    <3>2. QED
      BY <1>0, <1>7, <3>1, ReturnTyped, InsideTyped DEF CheckVacant, HandlerLabels, Typed
  <2>3. QED
    BY <2>1, <2>2
<1>8. QED
  BY <1>1, <1>2, <1>3, <1>4, <1>5, <1>6, <1>7

\* Holders and vias leave the owner's threads alone.
LEMMA OthersTyped ==
  ASSUME Typed, OthersStep
  PROVE  Typed'
<1>0. TypeOK /\ SendersHold
  BY DEF Typed, ThreadsTypeOK
<1>1. TypeOK'
  BY <1>0, HolderTyped, ViaTyped, LeaveTyped DEF OthersStep
<1>2. SendersHold'
  BY <1>0, SendersHoldStep DEF OthersStep, Next
<1>3. QED
  BY <1>1, <1>2 DEF OthersStep, threadVars, Typed, ThreadsTypeOK, Handling, OneHandler

LEMMA TypedStep ==
  ASSUME Typed, [ThreadsNext]_allVars
  PROVE  Typed'
<1>1. CASE UNCHANGED allVars
  BY <1>1 DEF allVars, vars, threadVars, Typed, ThreadsTypeOK, TypeOK, SendersHold,
              Handling, OneHandler
<1>2. ASSUME NEW t \in Threads, ThreadStep(t) PROVE Typed'
  BY <1>2, TakeMessageTyped, HandlerTyped, PollerTyped DEF ThreadStep
<1>3. QED
  BY <1>1, <1>2, OthersTyped DEF ThreadsNext

LEMMA ThreadsInitTyped == ThreadsInit => Typed
<1> SUFFICES ASSUME ThreadsInit PROVE Typed
  OBVIOUS
<1>1. TypeOK /\ SendersHold
  BY InitTyped DEF ThreadsInit, Init, SendersHold
<1>2. Data \in Messages
  BY MessagesTyped
<1>3. QED
  BY <1>1, <1>2 DEF ThreadsInit, Typed, ThreadsTypeOK, TypeOK, Handling, OneHandler,
                    HandlerLabels

\* OwnerThreads' variables stay in their types, the thread that handles a
\* message has the Demuxer locked, and each section finds the kind of message it
\* is for, however many threads there are and whatever fails.
THEOREM ThreadsTypeCorrect == ThreadsSpec => [](ThreadsTypeOK /\ Handling /\ OneHandler)
<1>1. ThreadsSpec => []Typed
  BY ThreadsInitTyped, TypedStep, PTL DEF ThreadsSpec
<1>2. Typed => ThreadsTypeOK /\ Handling /\ OneHandler
  BY DEF Typed
<1>3. QED
  BY <1>1, <1>2, PTL

-----------------------------------------------------------------------------
(* Any number of threads: the sender is taken with nothing in flight.      *)

\* Who is about to take the sender has seen the bag empty, and has had locked
\* since then what to_be_sent needs: the Demuxer, with which it is called, or
\* the bag itself.
TakersSure ==
  \A t \in Threads :
    /\ at[t] \in {"remove_probes", "check_vacant"} => inFlightLock = t
    /\ at[t] = "take" => SM!NoneInFlight(sm) /\ (demuxer = t \/ inFlightLock = t)

\* A step of t takes no lock from another thread, nor moves it.
Undisturbed(t) ==
  \A u \in Threads \ {t} :
    /\ at'[u] = at[u]
    /\ demuxer = u => demuxer' = u
    /\ inFlightLock = u => inFlightLock' = u

LEMMA StepUndisturbing ==
  ASSUME Typed, NEW t \in Threads, ThreadStep(t)
  PROVE  Undisturbed(t)
<1>0. at \in [Threads -> {at[u] : u \in Threads}]
  BY DEF Typed, ThreadsTypeOK
<1>a. ASSUME NEW label, GoTo(t, label) \/ Return(t) PROVE \A u \in Threads \ {t} : at'[u] = at[u]
  BY <1>0, <1>a DEF GoTo, Return
<1>b. ASSUME NoLockChange \/ Return(t)
      PROVE  \A u \in Threads \ {t} :
               (demuxer = u => demuxer' = u) /\ (inFlightLock = u => inFlightLock' = u)
  BY <1>b DEF NoLockChange, Return, Released
<1> USE DEF Undisturbed
<1>1. CASE TakeMessage(t)
  BY <1>0, <1>1, ThreadsAssumption DEF TakeMessage, GoTo, Free
<1>2. CASE InsertInFlight(t) \/ InsertProbe(t) \/ RemoveInFlight(t) \/ InsertSource(t)
             \/ RemoveProbe(t)
  BY <1>2, <1>a, <1>b
     DEF InsertInFlight, InsertProbe, RemoveInFlight, InsertSource, RemoveProbe, GoToOrReturn
<1>3. CASE CheckSources(t) \/ CheckInFlight(t) \/ Take(t) \/ CheckVacant(t)
  BY <1>3, <1>a, <1>b DEF CheckSources, CheckInFlight, Take, CheckVacant, GoToOrReturn
<1>4. CASE RemoveSource(t)
  BY <1>4, <1>a, <1>b DEF RemoveSource
<1>5. CASE TimeOutIn(t) \/ PollStart(t) \/ Probe(t) \/ FindInFlight(t)
  BY <1>5, <1>a, <1>b DEF TimeOutIn, PollStart, Probe, FindInFlight
<1>6. CASE WriteOff(t) \/ RemoveProbes(t)
  BY <1>6, <1>a, ThreadsAssumption DEF WriteOff, RemoveProbes, Free
<1>7. QED
  BY <1>1, <1>2, <1>3, <1>4, <1>5, <1>6 DEF ThreadStep

\* Only to_be_sent adds to the bag.
LEMMA BagStaysEmpty ==
  ASSUME Typed, NEW t \in Threads, ThreadStep(t), ~InsertInFlight(t), SM!NoneInFlight(sm)
  PROVE  SM!NoneInFlight(sm')
<1>0. sm \in Machines /\ sm.inFlight \in [Vias -> Nat]
  BY DEF Typed, ThreadsTypeOK, TypeOK, Machines, SM!StateMachines
<1> USE DEF SM!NoneInFlight, Machines, SM!StateMachines
<1>1. CASE sm'.inFlight = sm.inFlight
  BY <1>1
<1>2. CASE RemoveInFlight(t)
  BY <1>0, <1>2 DEF RemoveInFlight, SM!WithoutOne
<1>3. CASE WriteOff(t)
  BY <1>0, <1>3 DEF WriteOff
<1>4. CASE ~RemoveInFlight(t) /\ ~WriteOff(t)
  BY <1>0, <1>1, <1>4
     DEF ThreadStep, TakeMessage, InsertProbe, InsertSource, RemoveProbe, CheckSources,
         RemoveSource, CheckInFlight, Take, TimeOutIn, PollStart, Probe, FindInFlight,
         RemoveProbes, CheckVacant, ownerVars
<1>5. QED
  BY <1>2, <1>3, <1>4

\* Which sections lead to taking the sender, and what they have found and locked.
LEMMA TakerArrives ==
  ASSUME Typed, TakersSure, NEW t \in Threads, ThreadStep(t)
  PROVE  /\ at'[t] \in {"remove_probes", "check_vacant"} => inFlightLock' = t
         /\ at'[t] = "take" => SM!NoneInFlight(sm') /\ (demuxer' = t \/ inFlightLock' = t)
<1>0. at[t] \in HandlerLabels => demuxer = t
  BY DEF Typed, OneHandler
<1>a. ASSUME NEW label, GoTo(t, label) PROVE at'[t] = label
  BY <1>a DEF GoTo, Typed, ThreadsTypeOK
<1>b. ASSUME Return(t) PROVE at'[t] = "recv"
  BY <1>a, <1>b DEF Return
<1>1. CASE TakeMessage(t)
  <2>1. queue \in Seq(Messages) /\ queue # <<>> /\ at[t] = "recv"
    BY <1>1 DEF TakeMessage, Typed, ThreadsTypeOK, TypeOK
  <2>2. PICK m \in Messages : m = Head(queue)
    BY <2>1
  <2>3. CASE m.type = "Data"
    BY <1>1, <2>1, <2>2, <2>3 DEF TakeMessage
  <2>4. CASE m.type # "Data"
    <3>1. at'[t] = FirstSection[m.type]
      BY <1>1, <1>a, <2>2, <2>4 DEF TakeMessage
    <3>2. /\ m.type \in {"Sending", "Received", "ReceiveFailed", "Disconnect"}
          /\ FirstSection["Sending"] = "insert_in_flight"
          /\ FirstSection["Received"] = "remove_in_flight"
          /\ FirstSection["ReceiveFailed"] = "remove_in_flight"
          /\ FirstSection["Disconnect"] = "remove_source"
      BY <2>4 DEF Messages, FirstSection
    <3>3. FirstSection[m.type] \notin {"remove_probes", "check_vacant", "take"}
      BY <3>2
    <3>4. QED
      BY <3>1, <3>3
  <2>5. QED
    BY <2>3, <2>4
<1>2. CASE InsertInFlight(t) \/ InsertProbe(t) \/ RemoveInFlight(t) \/ InsertSource(t)
             \/ RemoveProbe(t) \/ CheckSources(t) \/ Take(t)
  BY <1>2, <1>a, <1>b
     DEF InsertInFlight, InsertProbe, RemoveInFlight, InsertSource, RemoveProbe,
         CheckSources, Take, GoToOrReturn
<1>3. CASE CheckInFlight(t)
  BY <1>0, <1>3, <1>a, <1>b DEF CheckInFlight, GoToOrReturn, NoLockChange, HandlerLabels
<1>4. CASE RemoveSource(t)
  BY <1>4, <1>a, <1>b DEF RemoveSource
<1>5. CASE TimeOutIn(t) \/ PollStart(t) \/ Probe(t) \/ FindInFlight(t)
  BY <1>5, <1>a DEF TimeOutIn, PollStart, Probe, FindInFlight
<1>6. CASE WriteOff(t)
  BY <1>6, <1>a DEF WriteOff
<1>7. CASE RemoveProbes(t)
  BY <1>7, <1>a DEF RemoveProbes, TakersSure
<1>8. CASE CheckVacant(t)
  BY <1>8, <1>a, <1>b DEF CheckVacant, GoToOrReturn, NoLockChange, TakersSure, SM!Vacant
<1>9. QED
  BY <1>1, <1>2, <1>3, <1>4, <1>5, <1>6, <1>7, <1>8 DEF ThreadStep

LEMMA TakersSureStep ==
  ASSUME Typed, TakersSure, [ThreadsNext]_allVars
  PROVE  TakersSure'
<1>1. CASE UNCHANGED allVars \/ OthersStep
  <2>1. UNCHANGED <<at, inFlightLock, demuxer, sm>>
    <3>1. ASSUME NEW s \in Sources, HolderStep(s) PROVE UNCHANGED sm
      BY <3>1 DEF HolderStep, SendData, Clone, DropCopy, FinishDrop, BeginSend, EndSend,
                  Crash, ownerVars
    <3>2. ASSUME NEW v \in Vias, ViaStep(v) PROVE UNCHANGED sm
      BY <3>2 DEF ViaStep, Demultiplex, Receive, FailToDeserialize, DropReceiver,
                  FailArrived, CloseReceiver, ownerVars
    <3>3. QED
      BY <1>1, <3>1, <3>2 DEF OthersStep, LeaveChannel, ownerVars, allVars, vars, threadVars
  <2>2. QED
    BY <2>1 DEF TakersSure
<1>2. ASSUME NEW t \in Threads, ThreadStep(t), NEW u \in Threads
      PROVE  /\ at'[u] \in {"remove_probes", "check_vacant"} => inFlightLock' = u
             /\ at'[u] = "take" =>
                  SM!NoneInFlight(sm') /\ (demuxer' = u \/ inFlightLock' = u)
  <2>1. CASE u = t
    BY <1>2, <2>1, TakerArrives
  <2>2. CASE u # t
    <3>1. /\ at'[u] = at[u] /\ (demuxer = u => demuxer' = u)
          /\ (inFlightLock = u => inFlightLock' = u)
      BY <1>2, <2>2, StepUndisturbing DEF Undisturbed
    <3>2. ASSUME at[u] = "take" PROVE ~InsertInFlight(t)
      BY <2>2, <3>2, ThreadsAssumption
         DEF InsertInFlight, Free, TakersSure, Typed, OneHandler, HandlerLabels
    <3>3. at[u] = "take" => SM!NoneInFlight(sm')
      BY <1>2, <3>2, BagStaysEmpty DEF TakersSure
    <3>4. QED
      BY <3>1, <3>3 DEF TakersSure
  <2>3. QED
    BY <2>1, <2>2
<1>3. QED
  BY <1>1, <1>2 DEF ThreadsNext, TakersSure

\* However many threads receive, handle and poll, and whatever fails, the sender
\* is never taken while a copy is in the in-flight bag, though no method checks
\* the bag and takes the sender under one lock.
THEOREM TakenSafely == ThreadsSpec => TakenWithNoneInFlight
<1>1. ThreadsInit => Typed /\ TakersSure
  <2>1. ThreadsInit => TakersSure
    BY DEF ThreadsInit, TakersSure
  <2>2. QED
    BY <2>1, ThreadsInitTyped
<1>2. Typed /\ TakersSure /\ [ThreadsNext]_allVars => (Typed /\ TakersSure)'
  BY TypedStep, TakersSureStep
<1>3. Typed /\ TakersSure /\ [ThreadsNext]_allVars
        => [sm.maybe /\ ~sm.maybe' => SM!NoneInFlight(sm)]_allVars
  <2> SUFFICES ASSUME Typed, TakersSure, ThreadsNext, sm.maybe, ~sm'.maybe
               PROVE  SM!NoneInFlight(sm)
    OBVIOUS
  <2>0. sm \in Machines
    BY DEF Typed, ThreadsTypeOK, TypeOK, Machines
  <2>1. UNCHANGED sm => FALSE
    OBVIOUS
  <2>2. ASSUME NEW s \in Sources, HolderStep(s) PROVE UNCHANGED sm
    BY <2>2 DEF HolderStep, SendData, Clone, DropCopy, FinishDrop, BeginSend, EndSend,
                Crash, ownerVars
  <2>3. ASSUME NEW v \in Vias, ViaStep(v) PROVE UNCHANGED sm
    BY <2>3 DEF ViaStep, Demultiplex, Receive, FailToDeserialize, DropReceiver,
                FailArrived, CloseReceiver, ownerVars
  <2>4. ASSUME NEW r \in Receivers, LeaveChannel(r) PROVE UNCHANGED sm
    BY <2>4 DEF LeaveChannel, ownerVars
  <2>5. PICK t \in Threads : ThreadStep(t)
    BY <2>1, <2>2, <2>3, <2>4 DEF ThreadsNext, OthersStep
  <2>6. CASE Take(t)
    BY <2>6 DEF Take, TakersSure
  <2>7. CASE ~Take(t)
    <3>1. sm'.maybe = sm.maybe
      BY <2>0, <2>5, <2>7
         DEF ThreadStep, TakeMessage, InsertInFlight, InsertProbe, RemoveInFlight,
             InsertSource, RemoveProbe, CheckSources, RemoveSource, CheckInFlight,
             TimeOutIn, PollStart, Probe, FindInFlight, WriteOff, RemoveProbes, CheckVacant,
             Inside, ownerVars, Machines, SM!StateMachines
    <3>2. QED
      BY <3>1
  <2>8. QED
    BY <2>6, <2>7
<1>4. QED
  BY <1>1, <1>2, <1>3, PTL DEF ThreadsSpec, TakenWithNoneInFlight

-----------------------------------------------------------------------------
(* What the thread that is at a label will make of the state machine, if   *)
(* no other one comes in between.                                          *)

SourcesAfter(t) ==
  IF at[t] = "insert_source" \/ (at[t] = "remove_in_flight" /\ msg.type = "Received")
  THEN sm.sources \cup {msg.source}
  ELSE IF at[t] = "remove_source" THEN sm.sources \ {msg.source}
  ELSE sm.sources

InFlightAfter(t) ==
  CASE at[t] = "insert_in_flight" /\ linked  -> SM!WithOne(sm.inFlight, msg.via)
    [] at[t] = "insert_in_flight" /\ ~linked ->
         SM!WithoutOne(SM!WithOne(sm.inFlight, msg.via), msg.via)
    [] at[t] = "remove_in_flight" \/ (at[t] = "insert_probe" /\ ~linked) ->
         SM!WithoutOne(sm.inFlight, msg.via)
    [] at[t] \in {"find_in_flight", "write_off"} ->
         [v \in Vias |-> IF v \in dead[t] THEN 0 ELSE sm.inFlight[v]]
    [] OTHER -> sm.inFlight

ProbesAfter(t) ==
  CASE at[t] \in {"insert_in_flight", "insert_probe"} ->
         [sm.probes EXCEPT ![msg.via] = IF linked THEN msg.via ELSE FailedProbe]
    [] \/ at[t] \in {"insert_source", "remove_probe"}
       \/ at[t] = "remove_in_flight" /\ msg.type = "Received" ->
         [sm.probes EXCEPT ![msg.via] = NoProbe]
    [] at[t] = "find_in_flight" ->
         [v \in Vias |->
            IF v \in dead[t] /\ sm.inFlight[v] > 0 THEN NoProbe ELSE sm.probes[v]]
    [] at[t] \in {"write_off", "remove_probes"} ->
         [v \in Vias |-> IF v \in dead[t] THEN NoProbe ELSE sm.probes[v]]
    [] OTHER -> sm.probes

\* The methods that may take the sender, from their first section on.
MayTake(t) ==
  \/ at[t] \in {"check_sources", "remove_source", "check_in_flight", "take",
                "find_in_flight", "write_off", "remove_probes", "check_vacant"}
  \/ at[t] = "remove_in_flight" /\ msg.type # "Received"
  \/ at[t] \in {"insert_in_flight", "insert_probe"} /\ ~linked

\* What TakeIfVacant asks of a machine with these sources and this bag.
VacantAfter(sources, bag) == sources = {} /\ \A v \in Vias : bag[v] = 0

MaybeAfter(t) ==
  /\ sm.maybe
  /\ ~(MayTake(t) /\ VacantAfter(SourcesAfter(t), InFlightAfter(t)))

-----------------------------------------------------------------------------
(* A single thread: its calls are single steps.                            *)

\* asOne is what the thread will have made of sm, and polling says that it has
\* timed out and not yet run its probes.
CallUnderWay(t) ==
  /\ asOne.sources = SourcesAfter(t) /\ asOne.inFlight = InFlightAfter(t)
  /\ asOne.probes = ProbesAfter(t) /\ asOne.maybe = MaybeAfter(t)
  /\ at[t] \in {"check_in_flight", "take"} => sm.sources = {}
  /\ at[t] = "take" => SM!NoneInFlight(sm)
  /\ at[t] = "probe" => sm.maybe
  /\ polling <=> at[t] \in {"poll", "probe"}

\* State machines are the same if their fields are.
LEMMA SameFields ==
  ASSUME NEW x \in Machines, NEW y \in Machines,
         x.maybe = y.maybe, x.sources = y.sources, x.inFlight = y.inFlight,
         x.probes = y.probes
  PROVE  x = y
BY DEF Machines, SM!StateMachines

\* Outside calls, and until the probes have run, the two state machines agree.
LEMMA AgreeAtRest ==
  ASSUME Typed, NEW t \in Threads, CallUnderWay(t), at[t] \in {"recv", "poll", "probe"}
  PROVE  sm = asOne
<1>1. sm \in Machines /\ asOne \in Machines /\ sm.maybe \in BOOLEAN
  BY DEF Typed, ThreadsTypeOK, TypeOK, Machines, SM!StateMachines
<1>2. /\ asOne.sources = sm.sources /\ asOne.inFlight = sm.inFlight
      /\ asOne.probes = sm.probes
  BY DEF CallUnderWay, SourcesAfter, InFlightAfter, ProbesAfter
<1>3. asOne.maybe = sm.maybe
  BY <1>1 DEF CallUnderWay, MaybeAfter, MayTake
<1>4. QED
  BY <1>1, <1>2, <1>3, SameFields

\* The methods, field by field.
LEMMA ToBeSentFields ==
  ASSUME NEW x \in Machines, NEW v \in Vias, NEW p \in Probes
  PROVE  /\ SM!ToBeSent(x, v, p).maybe = x.maybe
         /\ SM!ToBeSent(x, v, p).sources = x.sources
         /\ SM!ToBeSent(x, v, p).inFlight = SM!WithOne(x.inFlight, v)
         /\ SM!ToBeSent(x, v, p).probes = [x.probes EXCEPT ![v] = p]
BY DEF Machines, SM!StateMachines, SM!ToBeSent

LEMMA ReceivedFields ==
  ASSUME NEW x \in Machines, NEW v \in Vias, NEW s \in Sources
  PROVE  /\ SM!Received(x, v, s).maybe = x.maybe
         /\ SM!Received(x, v, s).sources = x.sources \cup {s}
         /\ SM!Received(x, v, s).inFlight = SM!WithoutOne(x.inFlight, v)
         /\ SM!Received(x, v, s).probes = [x.probes EXCEPT ![v] = NoProbe]
BY DEF Machines, SM!StateMachines, SM!Received

LEMMA TakeFields ==
  ASSUME NEW x \in Machines
  PROVE  /\ SM!TakeIfVacant(x).maybe = (x.maybe /\ ~VacantAfter(x.sources, x.inFlight))
         /\ SM!TakeIfVacant(x).sources = x.sources
         /\ SM!TakeIfVacant(x).inFlight = x.inFlight
         /\ SM!TakeIfVacant(x).probes = x.probes
<1>1. SM!Vacant(x) = VacantAfter(x.sources, x.inFlight)
  BY DEF SM!Vacant, SM!NoneInFlight, VacantAfter
<1>2. SM!TakeIfVacant(x).probes = x.probes
  BY DEF Machines, SM!StateMachines, SM!TakeIfVacant
<1>3. QED
  BY <1>1, <1>2, TakeTyped

LEMMA TakingMethodFields ==
  ASSUME NEW x \in Machines, NEW v \in Vias
  PROVE  /\ SM!ReceiveFailed(x, v).maybe
              = (x.maybe /\ ~VacantAfter(x.sources, SM!WithoutOne(x.inFlight, v)))
         /\ SM!ReceiveFailed(x, v).sources = x.sources
         /\ SM!ReceiveFailed(x, v).inFlight = SM!WithoutOne(x.inFlight, v)
         /\ SM!ReceiveFailed(x, v).probes = x.probes
<1>1. PICK y : y = [x EXCEPT !.inFlight = SM!WithoutOne(x.inFlight, v)]
  OBVIOUS
<1>2. SM!WithoutOne(x.inFlight, v) \in [Vias -> Nat]
  BY BagsTyped DEF Machines, SM!StateMachines
<1>3. /\ y.maybe = x.maybe /\ y.sources = x.sources /\ y.probes = x.probes
      /\ y.inFlight = SM!WithoutOne(x.inFlight, v) /\ y \in Machines
  BY <1>1, <1>2 DEF Machines, SM!StateMachines
<1>4. SM!ReceiveFailed(x, v) = SM!TakeIfVacant(y)
  BY <1>1 DEF SM!ReceiveFailed
<1>5. QED
  BY <1>3, <1>4, TakeFields, Zenon

LEMMA DisconnectFields ==
  ASSUME NEW x \in Machines, NEW s \in Sources
  PROVE  /\ SM!Disconnect(x, s).maybe
              = (x.maybe /\ ~VacantAfter(x.sources \ {s}, x.inFlight))
         /\ SM!Disconnect(x, s).sources = x.sources \ {s}
         /\ SM!Disconnect(x, s).inFlight = x.inFlight
         /\ SM!Disconnect(x, s).probes = x.probes
<1>1. PICK y : y = [x EXCEPT !.sources = x.sources \ {s}]
  OBVIOUS
<1>2. /\ y.maybe = x.maybe /\ y.sources = x.sources \ {s} /\ y.probes = x.probes
      /\ y.inFlight = x.inFlight /\ y \in Machines
  BY <1>1 DEF Machines, SM!StateMachines
<1>3. SM!Disconnect(x, s) = SM!TakeIfVacant(y)
  BY <1>1 DEF SM!Disconnect
<1>4. QED
  BY <1>2, <1>3, TakeFields, Zenon

\* A thread that takes a message has the whole call before it.
LEMMA CallBegins ==
  ASSUME Typed, NEW t \in Threads, TakeMessage(t), CallUnderWay(t)
  PROVE  CallUnderWay(t)'
<1>0. /\ queue \in Seq(Messages) /\ queue # <<>> /\ at[t] = "recv" /\ sm' = sm
      /\ polling' = polling /\ sm \in Machines /\ linked' \in BOOLEAN /\ dead' = dead
  BY TakeMessageTyped DEF TakeMessage, Typed, ThreadsTypeOK, TypeOK, Machines, ownerVars
<1>1. PICK m \in Messages : m = Head(queue)
  BY <1>0
<1>2. asOne' = HandledAsOne(m, linked')
  BY <1>1 DEF TakeMessage
<1>3. ~polling /\ asOne = sm
  <2>1. at[t] \in {"recv", "poll", "probe"} /\ at[t] \notin {"poll", "probe"}
    BY <1>0
  <2>2. ~polling
    BY <2>1, Zenon DEF CallUnderWay
  <2>3. sm = asOne
    BY <2>1, AgreeAtRest, Zenon
  <2>4. QED
    BY <2>2, <2>3
<1>4. sm.maybe \in BOOLEAN
  BY <1>0 DEF Machines, SM!StateMachines
<1>5. CASE m.type = "Data"
  <2>1. at' = at /\ sm' = sm /\ asOne' = asOne
    BY <1>0, <1>1, <1>2, <1>5 DEF TakeMessage, HandledAsOne
  <2>2. UNCHANGED <<SourcesAfter(t), InFlightAfter(t), ProbesAfter(t), MayTake(t)>>
    BY <1>0, <2>1 DEF SourcesAfter, InFlightAfter, ProbesAfter, MayTake
  <2>3. MaybeAfter(t)' = MaybeAfter(t)
    BY <2>1, <2>2 DEF MaybeAfter
  <2>4. at'[t] \notin {"check_in_flight", "take", "poll", "probe"}
    BY <1>0, <2>1
  <2>a. ~polling'
    BY <1>0, <1>3, Zenon
  <2>5. QED
    BY <2>1, <2>2, <2>3, <2>4, <2>a DEF CallUnderWay
<1>6. CASE m.type # "Data"
  <2>1. msg' = m /\ at'[t] = FirstSection[m.type]
    BY <1>1, <1>6 DEF TakeMessage, GoTo, Typed, ThreadsTypeOK
  <2>2. /\ FirstSection["Sending"] = "insert_in_flight"
        /\ FirstSection["Received"] = "remove_in_flight"
        /\ FirstSection["ReceiveFailed"] = "remove_in_flight"
        /\ FirstSection["Disconnect"] = "remove_source"
    BY DEF FirstSection
  <2>3. CASE m.type = "Sending" /\ linked'
    <3>1. at'[t] = "insert_in_flight" /\ m.type = "Sending"
      BY <2>1, <2>2, <2>3
    <3>2. m.via \in Vias /\ m.via \in Probes /\ Origin \in Sources
          /\ asOne' = SM!ToBeSent(sm, m.via, m.via)
      BY <1>2, <1>3, <2>3, HeadTyped DEF Probes, Sources, HandledAsOne
    <3>3. /\ asOne'.maybe = sm.maybe
          /\ asOne'.sources = sm.sources
          /\ asOne'.inFlight = SM!WithOne(sm.inFlight, m.via)
          /\ asOne'.probes = [sm.probes EXCEPT ![m.via] = m.via]
      BY <1>0, <3>2, ToBeSentFields
    <3>4. /\ SourcesAfter(t)' = sm.sources
          /\ InFlightAfter(t)' = SM!WithOne(sm.inFlight, m.via)
          /\ ProbesAfter(t)' = [sm.probes EXCEPT ![m.via] = m.via]
      BY <1>0, <2>1, <2>3, <3>1 DEF SourcesAfter, InFlightAfter, ProbesAfter
    <3>5. MayTake(t)' = FALSE
      BY <1>0, <2>1, <2>3, <3>1 DEF MayTake
    <3>6. asOne'.maybe = MaybeAfter(t)'
      BY <1>0, <1>4, <3>3, <3>4, <3>5 DEF MaybeAfter
    <3>7. at'[t] \notin {"check_in_flight", "take", "poll", "probe"} /\ ~polling'
      BY <1>0, <1>3, <3>1
    <3>8. QED
      BY <3>3, <3>4, <3>6, <3>7 DEF CallUnderWay
  <2>4. CASE m.type = "Sending" /\ ~linked'
    <3>1. at'[t] = "insert_in_flight" /\ m.type = "Sending"
      BY <2>1, <2>2, <2>4
    <3>2. /\ m.via \in Vias /\ FailedProbe \in Probes /\ Origin \in Sources
          /\ asOne' = SM!ReceiveFailed(SM!ToBeSent(sm, m.via, FailedProbe), m.via)
      BY <1>2, <1>3, <2>4, HeadTyped DEF Probes, Sources, HandledAsOne
    <3>a. PICK x \in Machines : x = SM!ToBeSent(sm, m.via, FailedProbe)
      BY <1>0, <3>2, StateMachineTyped
    <3>b. /\ x.maybe = sm.maybe /\ x.sources = sm.sources
          /\ x.inFlight = SM!WithOne(sm.inFlight, m.via)
          /\ x.probes = [sm.probes EXCEPT ![m.via] = FailedProbe]
      BY <1>0, <3>2, <3>a, ToBeSentFields
    <3>c. /\ asOne'.maybe = (x.maybe /\ ~VacantAfter(x.sources, SM!WithoutOne(x.inFlight, m.via)))
          /\ asOne'.sources = x.sources
          /\ asOne'.inFlight = SM!WithoutOne(x.inFlight, m.via) /\ asOne'.probes = x.probes
      BY <3>2, <3>a, TakingMethodFields
    <3>3. /\ asOne'.maybe = (sm.maybe /\ ~VacantAfter(sm.sources, SM!WithoutOne(SM!WithOne(sm.inFlight, m.via), m.via)))
          /\ asOne'.sources = sm.sources
          /\ asOne'.inFlight = SM!WithoutOne(SM!WithOne(sm.inFlight, m.via), m.via)
          /\ asOne'.probes = [sm.probes EXCEPT ![m.via] = FailedProbe]
      BY <3>b, <3>c
    <3>4. /\ SourcesAfter(t)' = sm.sources
          /\ InFlightAfter(t)' = SM!WithoutOne(SM!WithOne(sm.inFlight, m.via), m.via)
          /\ ProbesAfter(t)' = [sm.probes EXCEPT ![m.via] = FailedProbe]
      BY <1>0, <2>1, <2>4, <3>1 DEF SourcesAfter, InFlightAfter, ProbesAfter
    <3>5. MayTake(t)' = TRUE
      BY <1>0, <2>1, <2>4, <3>1 DEF MayTake
    <3>6. asOne'.maybe = MaybeAfter(t)'
      BY <1>0, <1>4, <3>3, <3>4, <3>5 DEF MaybeAfter
    <3>7. at'[t] \notin {"check_in_flight", "take", "poll", "probe"} /\ ~polling'
      BY <1>0, <1>3, <3>1
    <3>8. QED
      BY <3>3, <3>4, <3>6, <3>7 DEF CallUnderWay
  <2>5. CASE m.type = "Received"
    <3>1. at'[t] = "remove_in_flight" /\ m.type = "Received"
      BY <2>1, <2>2, <2>5
    <3>2. m.via \in Vias /\ m.source \in Sources /\ FailedProbe \in Probes
          /\ asOne' = SM!Received(sm, m.via, m.source)
      BY <1>2, <1>3, <2>5, HeadTyped DEF Probes, HandledAsOne
    <3>3. /\ asOne'.maybe = sm.maybe
          /\ asOne'.sources = sm.sources \cup {m.source}
          /\ asOne'.inFlight = SM!WithoutOne(sm.inFlight, m.via)
          /\ asOne'.probes = [sm.probes EXCEPT ![m.via] = NoProbe]
      BY <1>0, <3>2, ReceivedFields
    <3>4. /\ SourcesAfter(t)' = sm.sources \cup {m.source}
          /\ InFlightAfter(t)' = SM!WithoutOne(sm.inFlight, m.via)
          /\ ProbesAfter(t)' = [sm.probes EXCEPT ![m.via] = NoProbe]
      BY <1>0, <2>1, <2>5, <3>1 DEF SourcesAfter, InFlightAfter, ProbesAfter
    <3>5. MayTake(t)' = FALSE
      BY <1>0, <2>1, <2>5, <3>1 DEF MayTake
    <3>6. asOne'.maybe = MaybeAfter(t)'
      BY <1>0, <1>4, <3>3, <3>4, <3>5 DEF MaybeAfter
    <3>7. at'[t] \notin {"check_in_flight", "take", "poll", "probe"} /\ ~polling'
      BY <1>0, <1>3, <3>1
    <3>8. QED
      BY <3>3, <3>4, <3>6, <3>7 DEF CallUnderWay
  <2>6. CASE m.type = "ReceiveFailed"
    <3>1. at'[t] = "remove_in_flight" /\ m.type = "ReceiveFailed"
      BY <2>1, <2>2, <2>6
    <3>2. m.via \in Vias /\ Origin \in Sources /\ asOne' = SM!ReceiveFailed(sm, m.via)
      BY <1>2, <1>3, <2>6, HeadTyped DEF Sources, HandledAsOne
    <3>3. /\ asOne'.maybe = (sm.maybe /\ ~VacantAfter(sm.sources, SM!WithoutOne(sm.inFlight, m.via)))
          /\ asOne'.sources = sm.sources
          /\ asOne'.inFlight = SM!WithoutOne(sm.inFlight, m.via)
          /\ asOne'.probes = sm.probes
      BY <1>0, <3>2, TakingMethodFields
    <3>4. /\ SourcesAfter(t)' = sm.sources
          /\ InFlightAfter(t)' = SM!WithoutOne(sm.inFlight, m.via)
          /\ ProbesAfter(t)' = sm.probes
      BY <1>0, <2>1, <2>6, <3>1 DEF SourcesAfter, InFlightAfter, ProbesAfter
    <3>5. MayTake(t)' = TRUE
      BY <1>0, <2>1, <2>6, <3>1 DEF MayTake
    <3>6. asOne'.maybe = MaybeAfter(t)'
      BY <1>0, <1>4, <3>3, <3>4, <3>5 DEF MaybeAfter
    <3>7. at'[t] \notin {"check_in_flight", "take", "poll", "probe"} /\ ~polling'
      BY <1>0, <1>3, <3>1
    <3>8. QED
      BY <3>3, <3>4, <3>6, <3>7 DEF CallUnderWay
  <2>7. CASE m.type = "Disconnect"
    <3>1. at'[t] = "remove_source" /\ m.type = "Disconnect"
      BY <2>1, <2>2, <2>7
    <3>2. m.source \in Sources /\ asOne' = SM!Disconnect(sm, m.source)
      BY <1>2, <1>3, <2>7, HeadTyped DEF HandledAsOne
    <3>3. /\ asOne'.maybe = (sm.maybe /\ ~VacantAfter(sm.sources \ {m.source}, sm.inFlight))
          /\ asOne'.sources = sm.sources \ {m.source}
          /\ asOne'.inFlight = sm.inFlight
          /\ asOne'.probes = sm.probes
      BY <1>0, <3>2, DisconnectFields
    <3>4. /\ SourcesAfter(t)' = sm.sources \ {m.source}
          /\ InFlightAfter(t)' = sm.inFlight
          /\ ProbesAfter(t)' = sm.probes
      BY <1>0, <2>1, <2>7, <3>1 DEF SourcesAfter, InFlightAfter, ProbesAfter
    <3>5. MayTake(t)' = TRUE
      BY <1>0, <2>1, <2>7, <3>1 DEF MayTake
    <3>6. asOne'.maybe = MaybeAfter(t)'
      BY <1>0, <1>4, <3>3, <3>4, <3>5 DEF MaybeAfter
    <3>7. at'[t] \notin {"check_in_flight", "take", "poll", "probe"} /\ ~polling'
      BY <1>0, <1>3, <3>1
    <3>8. QED
      BY <3>3, <3>4, <3>6, <3>7 DEF CallUnderWay
  <2>8. QED
    BY <1>0, <1>6, <2>3, <2>4, <2>5, <2>6, <2>7 DEF Messages
<1>7. QED
  BY <1>5, <1>6

\* Inside a method, it is enough that what is left of the call stays the same,
\* and that a thread which goes on to take the sender has seen what it has to.
LEMMA CallGoesOn ==
  ASSUME NEW t \in Threads, CallUnderWay(t), Inside,
         at[t] \notin {"poll", "probe"}, at'[t] \notin {"poll", "probe"},
         SourcesAfter(t)' = SourcesAfter(t), InFlightAfter(t)' = InFlightAfter(t),
         ProbesAfter(t)' = ProbesAfter(t), MaybeAfter(t)' = MaybeAfter(t),
         at'[t] \in {"check_in_flight", "take"} => sm'.sources = {},
         at'[t] = "take" => SM!NoneInFlight(sm')
  PROVE  CallUnderWay(t)'
<1>1. asOne' = asOne /\ polling' = polling
  BY DEF Inside
<1>2. ~polling
  BY DEF CallUnderWay
<1>3. at'[t] # "probe" /\ ~polling'
  BY <1>1, <1>2
<1>4. QED
  BY <1>1, <1>3 DEF CallUnderWay

\* What is left of a call does not depend on what its method does to the sender
\* if the method goes on, or returns because there are copies.
LEMMA MaybeGoesOn ==
  ASSUME NEW t \in Threads, sm'.maybe = sm.maybe,
         SourcesAfter(t)' = SourcesAfter(t), InFlightAfter(t)' = InFlightAfter(t),
         \/ MayTake(t)' = MayTake(t)
         \/ ~VacantAfter(SourcesAfter(t), InFlightAfter(t))
  PROVE  MaybeAfter(t)' = MaybeAfter(t)
<1>1. VacantAfter(SourcesAfter(t), InFlightAfter(t))'
        = VacantAfter(SourcesAfter(t), InFlightAfter(t))
  BY DEF VacantAfter
<1>2. CASE MayTake(t)' = MayTake(t)
  BY <1>1, <1>2 DEF MaybeAfter
<1>3. CASE ~VacantAfter(SourcesAfter(t), InFlightAfter(t))
  BY <1>1, <1>3 DEF MaybeAfter
<1>4. QED
  BY <1>2, <1>3

\* The sections of the methods called with the Demuxer locked.
LEMMA HandlerGoesOn ==
  ASSUME Typed, NEW t \in Threads, CallUnderWay(t),
         \/ InsertInFlight(t) \/ InsertProbe(t)
         \/ RemoveInFlight(t) \/ InsertSource(t) \/ RemoveProbe(t)
  PROVE  CallUnderWay(t)'
<1>0. /\ sm \in Machines /\ sm.maybe \in BOOLEAN /\ sm.sources \in SUBSET Sources
      /\ sm.inFlight \in [Vias -> Nat] /\ sm.probes \in [Vias -> Probes \cup {NoProbe}]
      /\ t \in DOMAIN at /\ linked \in BOOLEAN
  BY DEF Typed, ThreadsTypeOK, TypeOK, Machines, SM!StateMachines
<1>1. Inside /\ msg' = msg /\ linked' = linked
  BY DEF InsertInFlight, InsertProbe, RemoveInFlight, InsertSource, RemoveProbe, Inside
<1>2. CASE InsertInFlight(t)
  <2>1. at[t] = "insert_in_flight" /\ at'[t] = "insert_probe"
    BY <1>0, <1>2 DEF InsertInFlight, GoTo
  <2>2. /\ sm'.maybe = sm.maybe /\ sm'.sources = sm.sources /\ sm'.probes = sm.probes
        /\ sm'.inFlight = SM!WithOne(sm.inFlight, msg.via)
    BY <1>0, <1>2 DEF InsertInFlight, Machines, SM!StateMachines
  <2>3. SourcesAfter(t)' = SourcesAfter(t)
    BY <1>1, <2>1, <2>2 DEF SourcesAfter
  <2>4. InFlightAfter(t)' = InFlightAfter(t)
    BY <1>0, <1>1, <2>1, <2>2 DEF InFlightAfter
  <2>5. ProbesAfter(t)' = ProbesAfter(t)
    BY <1>1, <2>1, <2>2 DEF ProbesAfter
  <2>6. MayTake(t)' = MayTake(t)
    BY <1>1, <2>1 DEF MayTake
  <2>7. QED
    BY <1>1, <2>1, <2>2, <2>3, <2>4, <2>5, <2>6, MaybeGoesOn, CallGoesOn
<1>3. CASE InsertProbe(t)
  <2>1. /\ at[t] = "insert_probe" /\ msg.type = "Sending"
        /\ at'[t] = IF linked THEN "recv" ELSE "remove_in_flight"
    BY <1>0, <1>3 DEF InsertProbe, GoToOrReturn, Return, GoTo, Typed, Handling
  <2>2. /\ sm'.maybe = sm.maybe /\ sm'.sources = sm.sources /\ sm'.inFlight = sm.inFlight
        /\ sm'.probes = [sm.probes EXCEPT ![msg.via] = IF linked THEN msg.via ELSE FailedProbe]
    BY <1>0, <1>3 DEF InsertProbe, Machines, SM!StateMachines
  <2>3. SourcesAfter(t)' = SourcesAfter(t)
    BY <1>0, <1>1, <2>1, <2>2 DEF SourcesAfter
  <2>4. InFlightAfter(t)' = InFlightAfter(t)
    BY <1>0, <1>1, <2>1, <2>2 DEF InFlightAfter
  <2>5. ProbesAfter(t)' = ProbesAfter(t)
    BY <1>0, <1>1, <2>1, <2>2 DEF ProbesAfter
  <2>6. MayTake(t)' = MayTake(t)
    BY <1>0, <1>1, <2>1 DEF MayTake
  <2>7. QED
    BY <1>0, <1>1, <2>1, <2>2, <2>3, <2>4, <2>5, <2>6, MaybeGoesOn, CallGoesOn
<1>4. CASE RemoveInFlight(t)
  <2>1. /\ at[t] = "remove_in_flight"
        /\ at'[t] = IF msg.type = "Received" THEN "insert_source" ELSE "check_sources"
    BY <1>0, <1>4 DEF RemoveInFlight, GoTo
  <2>2. /\ sm'.maybe = sm.maybe /\ sm'.sources = sm.sources /\ sm'.probes = sm.probes
        /\ sm'.inFlight = SM!WithoutOne(sm.inFlight, msg.via)
    BY <1>0, <1>4 DEF RemoveInFlight, Machines, SM!StateMachines
  <2>3. SourcesAfter(t)' = SourcesAfter(t)
    BY <1>1, <2>1, <2>2 DEF SourcesAfter
  <2>4. InFlightAfter(t)' = InFlightAfter(t)
    BY <1>1, <2>1, <2>2 DEF InFlightAfter
  <2>5. ProbesAfter(t)' = ProbesAfter(t)
    BY <1>1, <2>1, <2>2 DEF ProbesAfter
  <2>6. MayTake(t)' = MayTake(t)
    BY <1>1, <2>1 DEF MayTake
  <2>7. QED
    BY <1>1, <2>1, <2>2, <2>3, <2>4, <2>5, <2>6, MaybeGoesOn, CallGoesOn
<1>5. CASE InsertSource(t)
  <2>1. at[t] = "insert_source" /\ at'[t] = "remove_probe"
    BY <1>0, <1>5 DEF InsertSource, GoTo
  <2>2. /\ sm'.maybe = sm.maybe /\ sm'.sources = sm.sources \cup {msg.source}
        /\ sm'.probes = sm.probes /\ sm'.inFlight = sm.inFlight
    BY <1>0, <1>5 DEF InsertSource, Machines, SM!StateMachines
  <2>3. SourcesAfter(t)' = SourcesAfter(t)
    BY <1>1, <2>1, <2>2 DEF SourcesAfter
  <2>4. InFlightAfter(t)' = InFlightAfter(t)
    BY <1>1, <2>1, <2>2 DEF InFlightAfter
  <2>5. ProbesAfter(t)' = ProbesAfter(t)
    BY <1>1, <2>1, <2>2 DEF ProbesAfter
  <2>6. MayTake(t)' = MayTake(t)
    BY <1>1, <2>1 DEF MayTake
  <2>7. QED
    BY <1>1, <2>1, <2>2, <2>3, <2>4, <2>5, <2>6, MaybeGoesOn, CallGoesOn
<1>6. CASE RemoveProbe(t)
  <2>1. at[t] = "remove_probe" /\ at'[t] = "recv"
    BY <1>0, <1>6 DEF RemoveProbe, Return, GoTo
  <2>2. /\ sm'.maybe = sm.maybe /\ sm'.sources = sm.sources /\ sm'.inFlight = sm.inFlight
        /\ sm'.probes = [sm.probes EXCEPT ![msg.via] = NoProbe]
    BY <1>0, <1>6 DEF RemoveProbe, Machines, SM!StateMachines
  <2>3. SourcesAfter(t)' = SourcesAfter(t)
    BY <1>1, <2>1, <2>2 DEF SourcesAfter
  <2>4. InFlightAfter(t)' = InFlightAfter(t)
    BY <1>1, <2>1, <2>2 DEF InFlightAfter
  <2>5. ProbesAfter(t)' = ProbesAfter(t)
    BY <1>1, <2>1, <2>2 DEF ProbesAfter
  <2>6. MayTake(t)' = MayTake(t)
    BY <1>1, <2>1 DEF MayTake
  <2>7. QED
    BY <1>1, <2>1, <2>2, <2>3, <2>4, <2>5, <2>6, MaybeGoesOn, CallGoesOn
<1>7. QED
  BY <1>2, <1>3, <1>4, <1>5, <1>6

\* The sections that lead to taking the sender.
LEMMA TakingGoesOn ==
  ASSUME Typed, NEW t \in Threads, CallUnderWay(t),
         \/ CheckSources(t) \/ RemoveSource(t) \/ CheckInFlight(t) \/ CheckVacant(t)
         \/ Take(t)
  PROVE  CallUnderWay(t)'
<1>0. /\ sm \in Machines /\ sm.maybe \in BOOLEAN /\ sm.sources \in SUBSET Sources
      /\ sm.inFlight \in [Vias -> Nat] /\ sm.probes \in [Vias -> Probes \cup {NoProbe}]
      /\ t \in DOMAIN at /\ linked \in BOOLEAN
  BY DEF Typed, ThreadsTypeOK, TypeOK, Machines, SM!StateMachines
<1>1. Inside /\ msg' = msg /\ linked' = linked /\ dead' = dead
  BY DEF CheckSources, RemoveSource, CheckInFlight, CheckVacant, Take, Inside
<1>2. CASE CheckSources(t)
  <2>1. /\ at[t] = "check_sources" /\ sm' = sm
        /\ at'[t] = IF sm.sources = {} THEN "check_in_flight" ELSE "recv"
    BY <1>0, <1>2 DEF CheckSources, GoToOrReturn, Return, GoTo
  <2>2. /\ SourcesAfter(t) = sm.sources /\ SourcesAfter(t)' = sm.sources
        /\ InFlightAfter(t) = sm.inFlight /\ InFlightAfter(t)' = sm.inFlight
        /\ ProbesAfter(t) = sm.probes /\ ProbesAfter(t)' = sm.probes
    BY <2>1 DEF SourcesAfter, InFlightAfter, ProbesAfter
  <2>3. MayTake(t)' = MayTake(t) \/ ~VacantAfter(SourcesAfter(t), InFlightAfter(t))
    BY <2>1, <2>2 DEF MayTake, VacantAfter
  <2>4. MaybeAfter(t)' = MaybeAfter(t)
    BY <2>1, <2>2, <2>3, MaybeGoesOn
  <2>5. QED
    BY <1>1, <2>1, <2>2, <2>4, CallGoesOn
<1>3. CASE RemoveSource(t)
  <2>1. /\ sm'.maybe = sm.maybe /\ sm'.sources = sm.sources \ {msg.source}
        /\ sm'.probes = sm.probes /\ sm'.inFlight = sm.inFlight
    BY <1>0, <1>3 DEF RemoveSource, Machines, SM!StateMachines
  <2>2. /\ at[t] = "remove_source"
        /\ at'[t] = IF sm'.sources = {} THEN "check_in_flight" ELSE "recv"
    BY <1>0, <1>3 DEF RemoveSource, Return, GoTo
  <2>3. /\ SourcesAfter(t) = sm'.sources /\ SourcesAfter(t)' = sm'.sources
        /\ InFlightAfter(t) = sm.inFlight /\ InFlightAfter(t)' = sm.inFlight
        /\ ProbesAfter(t) = sm.probes /\ ProbesAfter(t)' = sm.probes
    BY <2>1, <2>2 DEF SourcesAfter, InFlightAfter, ProbesAfter
  <2>4. MayTake(t)' = MayTake(t) \/ ~VacantAfter(SourcesAfter(t), InFlightAfter(t))
    BY <2>2, <2>3 DEF MayTake, VacantAfter
  <2>5. MaybeAfter(t)' = MaybeAfter(t)
    BY <2>1, <2>3, <2>4, MaybeGoesOn
  <2>6. QED
    BY <1>1, <2>2, <2>3, <2>5, CallGoesOn
<1>4. CASE CheckInFlight(t)
  <2>1. /\ at[t] = "check_in_flight" /\ sm' = sm
        /\ at'[t] = IF SM!NoneInFlight(sm) THEN "take" ELSE "recv"
    BY <1>0, <1>4 DEF CheckInFlight, GoToOrReturn, Return, GoTo
  <2>2. /\ SourcesAfter(t) = sm.sources /\ SourcesAfter(t)' = sm.sources
        /\ InFlightAfter(t) = sm.inFlight /\ InFlightAfter(t)' = sm.inFlight
        /\ ProbesAfter(t) = sm.probes /\ ProbesAfter(t)' = sm.probes
    BY <2>1 DEF SourcesAfter, InFlightAfter, ProbesAfter
  <2>3. MayTake(t)' = MayTake(t) \/ ~VacantAfter(SourcesAfter(t), InFlightAfter(t))
    BY <2>1, <2>2 DEF MayTake, VacantAfter, SM!NoneInFlight
  <2>4. MaybeAfter(t)' = MaybeAfter(t)
    BY <2>1, <2>2, <2>3, MaybeGoesOn
  <2>5. sm.sources = {}
    BY <2>1 DEF CallUnderWay
  <2>6. QED
    BY <1>1, <2>1, <2>2, <2>4, <2>5, CallGoesOn
<1>5. CASE CheckVacant(t)
  <2>1. /\ at[t] = "check_vacant" /\ sm' = sm
        /\ at'[t] = IF SM!Vacant(sm) THEN "take" ELSE "recv"
    BY <1>0, <1>5 DEF CheckVacant, GoToOrReturn, Return, GoTo
  <2>2. /\ SourcesAfter(t) = sm.sources /\ SourcesAfter(t)' = sm.sources
        /\ InFlightAfter(t) = sm.inFlight /\ InFlightAfter(t)' = sm.inFlight
        /\ ProbesAfter(t) = sm.probes /\ ProbesAfter(t)' = sm.probes
    BY <2>1 DEF SourcesAfter, InFlightAfter, ProbesAfter
  <2>3. MayTake(t)' = MayTake(t) \/ ~VacantAfter(SourcesAfter(t), InFlightAfter(t))
    BY <2>1, <2>2 DEF MayTake, VacantAfter, SM!Vacant, SM!NoneInFlight
  <2>4. MaybeAfter(t)' = MaybeAfter(t)
    BY <2>1, <2>2, <2>3, MaybeGoesOn
  <2>5. SM!Vacant(sm) => sm.sources = {} /\ SM!NoneInFlight(sm)
    BY DEF SM!Vacant
  <2>6. QED
    BY <1>1, <2>1, <2>2, <2>4, <2>5, CallGoesOn
<1>6. CASE Take(t)
  <2>1. at[t] = "take" /\ at'[t] = "recv"
    BY <1>0, <1>6 DEF Take, Return, GoTo
  <2>2. /\ sm'.maybe = FALSE /\ sm'.sources = sm.sources
        /\ sm'.probes = sm.probes /\ sm'.inFlight = sm.inFlight
    BY <1>0, <1>6 DEF Take, Machines, SM!StateMachines
  <2>3. /\ SourcesAfter(t) = sm.sources /\ SourcesAfter(t)' = sm.sources
        /\ InFlightAfter(t) = sm.inFlight /\ InFlightAfter(t)' = sm.inFlight
        /\ ProbesAfter(t) = sm.probes /\ ProbesAfter(t)' = sm.probes
    BY <2>1, <2>2 DEF SourcesAfter, InFlightAfter, ProbesAfter
  <2>4. sm.sources = {} /\ SM!NoneInFlight(sm)
    BY <2>1 DEF CallUnderWay
  <2>5. MaybeAfter(t) = FALSE /\ MaybeAfter(t)' = FALSE
    BY <2>1, <2>2, <2>3, <2>4 DEF MaybeAfter, MayTake, VacantAfter, SM!NoneInFlight
  <2>6. QED
    BY <1>1, <2>1, <2>3, <2>5, CallGoesOn
<1>7. QED
  BY <1>2, <1>3, <1>4, <1>5, <1>6

\* poll, after its probes.
LEMMA PollGoesOn ==
  ASSUME Typed, NEW t \in Threads, CallUnderWay(t),
         FindInFlight(t) \/ WriteOff(t) \/ RemoveProbes(t)
  PROVE  CallUnderWay(t)'
<1>0. /\ sm \in Machines /\ sm.maybe \in BOOLEAN
      /\ sm.inFlight \in [Vias -> Nat] /\ sm.probes \in [Vias -> Probes \cup {NoProbe}]
      /\ t \in DOMAIN at /\ t \in DOMAIN dead /\ dead[t] \in SUBSET Vias
  BY DEF Typed, ThreadsTypeOK, TypeOK, Machines, SM!StateMachines
<1>1. Inside
  BY DEF FindInFlight, WriteOff, RemoveProbes, Inside
<1>2. CASE FindInFlight(t)
  <2>1. at[t] = "find_in_flight" /\ at'[t] = "write_off" /\ sm' = sm
    BY <1>0, <1>2 DEF FindInFlight, GoTo
  <2>2. dead'[t] = {v \in dead[t] : sm.inFlight[v] > 0}
    BY <1>0, <1>2 DEF FindInFlight
  <2>3. SourcesAfter(t)' = SourcesAfter(t)
    BY <2>1 DEF SourcesAfter
  <2>4. InFlightAfter(t)' = InFlightAfter(t)
    <3>1. /\ InFlightAfter(t) = [v \in Vias |-> IF v \in dead[t] THEN 0 ELSE sm.inFlight[v]]
          /\ InFlightAfter(t)' = [v \in Vias |-> IF v \in dead'[t] THEN 0 ELSE sm.inFlight[v]]
      BY <2>1 DEF InFlightAfter
    <3>2. \A v \in Vias : (IF v \in dead'[t] THEN 0 ELSE sm.inFlight[v])
                            = (IF v \in dead[t] THEN 0 ELSE sm.inFlight[v])
      BY <1>0, <2>2
    <3>3. QED
      BY <3>1, <3>2
  <2>5. ProbesAfter(t)' = ProbesAfter(t)
    BY <1>0, <2>1, <2>2 DEF ProbesAfter
  <2>6. MayTake(t)' = MayTake(t)
    BY <2>1 DEF MayTake
  <2>7. QED
    BY <1>1, <2>1, <2>3, <2>4, <2>5, <2>6, MaybeGoesOn, CallGoesOn
<1>3. CASE WriteOff(t)
  <2>1. at[t] = "write_off" /\ at'[t] = "remove_probes" /\ dead' = dead
    BY <1>0, <1>3 DEF WriteOff, GoTo
  <2>2. /\ sm'.maybe = sm.maybe /\ sm'.sources = sm.sources /\ sm'.probes = sm.probes
        /\ sm'.inFlight = [v \in Vias |-> IF v \in dead[t] THEN 0 ELSE sm.inFlight[v]]
    BY <1>0, <1>3 DEF WriteOff, Machines, SM!StateMachines
  <2>3. SourcesAfter(t)' = SourcesAfter(t)
    BY <2>1, <2>2 DEF SourcesAfter
  <2>4. InFlightAfter(t)' = InFlightAfter(t)
    BY <2>1, <2>2 DEF InFlightAfter
  <2>5. ProbesAfter(t)' = ProbesAfter(t)
    BY <2>1, <2>2 DEF ProbesAfter
  <2>6. MayTake(t)' = MayTake(t)
    BY <2>1 DEF MayTake
  <2>7. QED
    BY <1>1, <2>1, <2>2, <2>3, <2>4, <2>5, <2>6, MaybeGoesOn, CallGoesOn
<1>4. CASE RemoveProbes(t)
  <2>1. at[t] = "remove_probes" /\ at'[t] = "check_vacant" /\ dead' = dead
    BY <1>0, <1>4 DEF RemoveProbes, GoTo
  <2>2. /\ sm'.maybe = sm.maybe /\ sm'.sources = sm.sources /\ sm'.inFlight = sm.inFlight
        /\ sm'.probes = [v \in Vias |-> IF v \in dead[t] THEN NoProbe ELSE sm.probes[v]]
    BY <1>0, <1>4 DEF RemoveProbes, Machines, SM!StateMachines
  <2>3. SourcesAfter(t)' = SourcesAfter(t)
    BY <2>1, <2>2 DEF SourcesAfter
  <2>4. InFlightAfter(t)' = InFlightAfter(t)
    BY <2>1, <2>2 DEF InFlightAfter
  <2>5. ProbesAfter(t)' = ProbesAfter(t)
    BY <2>1, <2>2 DEF ProbesAfter
  <2>6. MayTake(t)' = MayTake(t)
    BY <2>1 DEF MayTake
  <2>7. QED
    BY <1>1, <2>1, <2>2, <2>3, <2>4, <2>5, <2>6, MaybeGoesOn, CallGoesOn
<1>5. QED
  BY <1>2, <1>3, <1>4

\* What poll makes of a state machine, field by field.
LEMMA PollFields ==
  ASSUME NEW x \in Machines, NEW failing, x.maybe,
         NEW lost \in SUBSET Vias, NEW bag \in [Vias -> Nat],
         NEW probes \in [Vias -> Probes \cup {NoProbe}],
         \A v \in Vias : v \in lost <=> x.probes[v] \in failing /\ x.inFlight[v] > 0,
         \A v \in Vias : bag[v] = IF v \in lost THEN 0 ELSE x.inFlight[v],
         \A v \in Vias : probes[v] = IF v \in lost THEN NoProbe ELSE x.probes[v]
  PROVE  /\ SM!Poll(x, failing).maybe = ~VacantAfter(x.sources, bag)
         /\ SM!Poll(x, failing).sources = x.sources
         /\ SM!Poll(x, failing).inFlight = bag
         /\ SM!Poll(x, failing).probes = probes
<1>1. PICK y : y = [x EXCEPT !.inFlight = bag, !.probes = probes]
  OBVIOUS
<1>2. /\ y \in Machines /\ y.maybe = x.maybe /\ y.sources = x.sources
      /\ y.inFlight = bag /\ y.probes = probes
  BY <1>1 DEF Machines, SM!StateMachines
<1>3. SM!Poll(x, failing) = SM!TakeIfVacant(y)
  <2>1. SM!LostVias(x, failing) = lost
    BY DEF SM!LostVias
  <2>2. /\ bag = [v \in Vias |-> IF v \in lost THEN 0 ELSE x.inFlight[v]]
        /\ probes = [v \in Vias |-> IF v \in lost THEN NoProbe ELSE x.probes[v]]
    OBVIOUS
  <2>3. SM!WriteOff(x, lost) = y
    BY <1>1, <2>2 DEF SM!WriteOff
  <2>4. QED
    BY <2>1, <2>3, Zenon DEF SM!Poll
<1>4. SM!Poll(x, failing).maybe = ~VacantAfter(x.sources, bag)
  <2>1. SM!TakeIfVacant(y).maybe = (y.maybe /\ ~VacantAfter(y.sources, y.inFlight))
    BY <1>2, TakeFields
  <2>2. y.maybe /\ y.sources = x.sources /\ y.inFlight = bag
    BY <1>2
  <2>3. QED
    BY <1>3, <2>1, <2>2, Zenon
<1>5. QED
  BY <1>2, <1>3, <1>4, TakeFields

\* A poll begins, for the owner of Lifecycle, when it has run its probes.
LEMMA PollBegins ==
  ASSUME Typed, NEW t \in Threads, CallUnderWay(t),
         TimeOutIn(t) \/ PollStart(t) \/ Probe(t)
  PROVE  CallUnderWay(t)'
<1>0. /\ sm \in Machines /\ sm.maybe \in BOOLEAN
      /\ sm.inFlight \in [Vias -> Nat] /\ sm.probes \in [Vias -> Probes \cup {NoProbe}]
      /\ t \in DOMAIN at /\ t \in DOMAIN dead
  BY DEF Typed, ThreadsTypeOK, TypeOK, Machines, SM!StateMachines
<1>1. at[t] \in {"recv", "poll", "probe"} /\ sm' = sm
  BY DEF TimeOutIn, PollStart, Probe
<1>2. sm = asOne
  BY <1>1, AgreeAtRest
<1>3. CASE ~Probe(t)
  <2>1. /\ at'[t] \in {"recv", "poll", "probe"} /\ asOne' = asOne
        /\ at'[t] = "probe" => sm.maybe
        /\ polling' <=> at'[t] \in {"poll", "probe"}
    BY <1>0, <1>3 DEF TimeOutIn, PollStart, GoTo, CallUnderWay
  <2>2. /\ SourcesAfter(t)' = sm.sources /\ InFlightAfter(t)' = sm.inFlight
        /\ ProbesAfter(t)' = sm.probes
    BY <1>1, <2>1 DEF SourcesAfter, InFlightAfter, ProbesAfter
  <2>3. MaybeAfter(t)' = sm.maybe
    BY <1>0, <1>1, <2>1 DEF MaybeAfter, MayTake
  <2>4. at'[t] \notin {"check_in_flight", "take"}
    BY <2>1
  <2>5. QED
    BY <1>1, <1>2, <2>1, <2>2, <2>3, <2>4 DEF CallUnderWay
<1>4. CASE Probe(t)
  <2>1. /\ at[t] = "probe" /\ at'[t] = "find_in_flight" /\ sm.maybe /\ ~polling'
    BY <1>0, <1>4 DEF Probe, GoTo, CallUnderWay
  <2>2. dead'[t] = {v \in Vias : sm.probes[v] \in FailingProbes}
    BY <1>0, <1>4 DEF Probe
  <2>3. asOne' = SM!Poll(sm, FailingProbes)
    BY <1>2, <1>4 DEF Probe
  <2>4. PICK lost \in SUBSET Vias :
          lost = {v \in Vias : sm.probes[v] \in FailingProbes /\ sm.inFlight[v] > 0}
    OBVIOUS
  <2>5. PICK bag \in [Vias -> Nat] :
          bag = [v \in Vias |-> IF v \in lost THEN 0 ELSE sm.inFlight[v]]
    BY <1>0
  <2>a. PICK probes \in [Vias -> Probes \cup {NoProbe}] :
          probes = [v \in Vias |-> IF v \in lost THEN NoProbe ELSE sm.probes[v]]
    BY <1>0
  <2>b. /\ \A v \in Vias : v \in lost <=> sm.probes[v] \in FailingProbes /\ sm.inFlight[v] > 0
        /\ \A v \in Vias : bag[v] = IF v \in lost THEN 0 ELSE sm.inFlight[v]
        /\ \A v \in Vias : probes[v] = IF v \in lost THEN NoProbe ELSE sm.probes[v]
    BY <2>4, <2>5, <2>a
  <2>6. /\ asOne'.maybe = ~VacantAfter(sm.sources, bag)
        /\ asOne'.sources = sm.sources /\ asOne'.inFlight = bag
        /\ asOne'.probes = probes
    <3>1. PICK x \in Machines : x = sm
      BY <1>0
    <3>2. PICK f : f = FailingProbes
      OBVIOUS
    <3>3. x.maybe
      BY <2>1, <3>1
    <3>4. /\ \A v \in Vias : v \in lost <=> x.probes[v] \in f /\ x.inFlight[v] > 0
          /\ \A v \in Vias : bag[v] = IF v \in lost THEN 0 ELSE x.inFlight[v]
          /\ \A v \in Vias : probes[v] = IF v \in lost THEN NoProbe ELSE x.probes[v]
      BY <2>b, <3>1, <3>2
    <3>5. /\ SM!Poll(x, f).maybe = ~VacantAfter(x.sources, bag)
          /\ SM!Poll(x, f).sources = x.sources
          /\ SM!Poll(x, f).inFlight = bag
          /\ SM!Poll(x, f).probes = probes
      BY <3>3, <3>4, PollFields
    <3>6. asOne' = SM!Poll(x, f)
      BY <2>3, <3>1, <3>2
    <3>7. QED
      BY <3>1, <3>5, <3>6
  <2>7. SourcesAfter(t)' = sm.sources
    BY <1>1, <2>1 DEF SourcesAfter
  <2>8. InFlightAfter(t)' = bag
    <3>1. InFlightAfter(t)' = [v \in Vias |-> IF v \in dead'[t] THEN 0 ELSE sm.inFlight[v]]
      BY <1>1, <2>1 DEF InFlightAfter
    <3>2. \A v \in Vias : (IF v \in dead'[t] THEN 0 ELSE sm.inFlight[v])
                            = (IF v \in lost THEN 0 ELSE sm.inFlight[v])
      BY <1>0, <2>2, <2>4
    <3>3. QED
      BY <2>5, <3>1, <3>2
  <2>9. ProbesAfter(t)' = probes
    BY <1>1, <2>1, <2>2, <2>4, <2>a DEF ProbesAfter
  <2>10. MaybeAfter(t)' = ~VacantAfter(sm.sources, bag)
    BY <1>1, <2>1, <2>7, <2>8 DEF MaybeAfter, MayTake
  <2>11. at'[t] \notin {"check_in_flight", "take", "poll", "probe"}
    BY <2>1
  <2>12. QED
    BY <2>1, <2>6, <2>7, <2>8, <2>9, <2>10, <2>11 DEF CallUnderWay
<1>5. QED
  BY <1>3, <1>4

\* What is left of the call of the only thread stays what asOne says, whatever
\* that thread and the others do.
LEMMA CallStep ==
  ASSUME Typed, NEW t \in Threads, Threads = {t}, CallUnderWay(t), [ThreadsNext]_allVars
  PROVE  CallUnderWay(t)'
<1>1. CASE ThreadStep(t)
  BY <1>1, CallBegins, HandlerGoesOn, TakingGoesOn, PollGoesOn, PollBegins DEF ThreadStep
<1>2. CASE OthersStep \/ UNCHANGED allVars
  <2>1. sm' = sm /\ asOne' = asOne /\ polling' = polling /\ UNCHANGED threadVars
    <3>1. ASSUME NEW s \in Sources, HolderStep(s) PROVE UNCHANGED ownerVars
      BY <3>1 DEF HolderStep, SendData, Clone, DropCopy, FinishDrop, BeginSend, EndSend,
                  Crash, ownerVars
    <3>2. ASSUME NEW v \in Vias, ViaStep(v) PROVE UNCHANGED ownerVars
      BY <3>2 DEF ViaStep, Demultiplex, Receive, FailToDeserialize, DropReceiver,
                  FailArrived, CloseReceiver, ownerVars
    <3>3. ASSUME NEW r \in Receivers, LeaveChannel(r) PROVE UNCHANGED ownerVars
      BY <3>3 DEF LeaveChannel, ownerVars
    <3>4. UNCHANGED ownerVars /\ UNCHANGED threadVars
      BY <1>2, <3>1, <3>2, <3>3 DEF OthersStep, allVars, vars, ownerVars
    <3>5. QED
      BY <3>4 DEF ownerVars, threadVars
  <2>2. /\ SourcesAfter(t)' = SourcesAfter(t) /\ InFlightAfter(t)' = InFlightAfter(t)
        /\ ProbesAfter(t)' = ProbesAfter(t) /\ MayTake(t)' = MayTake(t)
    BY <2>1 DEF threadVars, SourcesAfter, InFlightAfter, ProbesAfter, MayTake
  <2>3. MaybeAfter(t)' = MaybeAfter(t)
    BY <2>1, <2>2 DEF MaybeAfter
  <2>4. SM!NoneInFlight(sm)' <=> SM!NoneInFlight(sm)
    BY <2>1 DEF SM!NoneInFlight
  <2>5. at' = at
    BY <2>1 DEF threadVars
  <2>6. QED
    BY <2>1, <2>2, <2>3, <2>4, <2>5 DEF CallUnderWay
<1>3. QED
  BY <1>1, <1>2 DEF ThreadsNext

LEMMA CallInit ==
  ASSUME NEW t \in Threads, ThreadsInit
  PROVE  CallUnderWay(t)
<1>1. at[t] = "recv" /\ asOne = sm /\ polling = FALSE /\ sm.maybe = TRUE
  BY DEF ThreadsInit, Init, SM!New
<1>2. /\ SourcesAfter(t) = sm.sources /\ InFlightAfter(t) = sm.inFlight
      /\ ProbesAfter(t) = sm.probes /\ MaybeAfter(t) = TRUE
  BY <1>1 DEF SourcesAfter, InFlightAfter, ProbesAfter, MaybeAfter, MayTake
<1>3. QED
  BY <1>1, <1>2 DEF CallUnderWay

\* With a single thread, the methods, taken apart into their critical sections,
\* amount to single steps: whenever the thread is in recv or about to poll, the
\* state machine is the one that each call would have made in one step.
THEOREM SingleThreadCalls ==
  ASSUME NEW t \in Threads, Threads = {t}
  PROVE  ThreadsSpec => []CallsAreOneStep
<1>1. ThreadsInit => Typed /\ CallUnderWay(t)
  BY ThreadsInitTyped, CallInit
<1>2. Typed /\ CallUnderWay(t) /\ [ThreadsNext]_allVars => (Typed /\ CallUnderWay(t))'
  BY TypedStep, CallStep
<1>3. Typed /\ CallUnderWay(t) => CallsAreOneStep
  BY AgreeAtRest DEF CallsAreOneStep, AtRest
<1>4. QED
  BY <1>1, <1>2, <1>3, PTL DEF ThreadsSpec

-----------------------------------------------------------------------------
(* A single thread: the owner it amounts to is that of Lifecycle.          *)

\* The methods, and the sets they are about, are the same in OneStep.
LEMMA SameMethods ==
  /\ OneStep!Sources = Sources
  /\ OneStep!SM!New(Origin) = SM!New(Origin)
  /\ OneStep!FailingProbes = FailingProbes
  /\ \A x, v, p : OneStep!SM!ToBeSent(x, v, p) = SM!ToBeSent(x, v, p)
  /\ \A x, v, s : OneStep!SM!Received(x, v, s) = SM!Received(x, v, s)
  /\ \A x, v : OneStep!SM!ReceiveFailed(x, v) = SM!ReceiveFailed(x, v)
  /\ \A x, s : OneStep!SM!Disconnect(x, s) = SM!Disconnect(x, s)
  /\ \A x, failing : OneStep!SM!Poll(x, failing) = SM!Poll(x, failing)
BY Zenon
   DEF OneStep!Sources, Sources, OneStep!SM!New, SM!New, OneStep!FailingProbes, FailingProbes,
       OneStep!SM!ToBeSent, SM!ToBeSent, OneStep!SM!Received, SM!Received,
       OneStep!SM!ReceiveFailed, SM!ReceiveFailed, OneStep!SM!Disconnect, SM!Disconnect,
       OneStep!SM!Poll, SM!Poll, OneStep!SM!WithOne, SM!WithOne, OneStep!SM!WithoutOne,
       SM!WithoutOne, OneStep!SM!TakeIfVacant, SM!TakeIfVacant, OneStep!SM!Vacant, SM!Vacant,
       OneStep!SM!NoneInFlight, SM!NoneInFlight, OneStep!SM!WriteOff, SM!WriteOff,
       OneStep!SM!LostVias, SM!LostVias

\* A thread that takes a message does in asOne what the owner of Lifecycle does
\* with that message.
LEMMA TakesAsOne ==
  ASSUME Typed, NEW t \in Threads, CallUnderWay(t), TakeMessage(t)
  PROVE  OneStep!OwnerStep
<1>1. PICK m : m = Head(queue)
  OBVIOUS
<1>2. queue # <<>> /\ m \in Messages
  <2>1. queue \in Seq(Messages) /\ queue # <<>>
    BY DEF Typed, ThreadsTypeOK, TypeOK, TakeMessage
  <2>2. QED
    BY <1>1, <2>1
<1>3. asOne = sm /\ ~polling
  <2>1. at[t] = "recv"
    BY DEF TakeMessage
  <2>2. at[t] \in {"recv", "poll", "probe"} /\ at[t] \notin {"poll", "probe"}
    BY <2>1
  <2>3. asOne = sm
    BY <2>2, AgreeAtRest
  <2>4. ~polling
    BY <2>2, Zenon DEF CallUnderWay
  <2>5. QED
    BY <2>3, <2>4
<1>4. /\ queue' = Tail(queue) /\ UNCHANGED <<polling, holderVars, viaVars, sent>>
      /\ linked' \in (IF m.type = "Sending" THEN {TRUE, open[At[m.via]]} ELSE {TRUE})
      /\ asOne' = HandledAsOne(m, linked')
  BY <1>1 DEF TakeMessage, ownerVars
<1>5. OneStep!Handle(m.type)
  BY <1>1, <1>2, <1>3, <1>4
     DEF OneStep!Handle, OneStep!holderVars, holderVars, OneStep!viaVars, viaVars
<1>6. CASE m.type = "Data"
  BY <1>1, <1>4, <1>5, <1>6 DEF HandledAsOne, OneStep!HandleData, OneStep!OwnerStep
<1>7. CASE m.type = "Sending" /\ linked'
  <2>1. asOne' = SM!ToBeSent(asOne, m.via, m.via)
    BY <1>4, <1>7 DEF HandledAsOne
  <2>2. QED
    BY <1>1, <1>5, <1>7, <2>1, SameMethods DEF OneStep!HandleSending, OneStep!OwnerStep
<1>8. CASE m.type = "Sending" /\ ~linked'
  <2>1. asOne' = SM!ReceiveFailed(SM!ToBeSent(asOne, m.via, FailedProbe), m.via)
    BY <1>4, <1>8 DEF HandledAsOne
  <2>2. ~open[At[m.via]]
    BY <1>4, <1>8
  <2>3. OneStep!HandleSending
    BY <1>1, <1>5, <1>8, <2>1, <2>2, SameMethods DEF OneStep!HandleSending
  <2>4. QED
    BY <2>3 DEF OneStep!OwnerStep
<1>9. CASE m.type = "Received"
  BY <1>1, <1>4, <1>5, <1>9, SameMethods
     DEF HandledAsOne, OneStep!HandleReceived, OneStep!OwnerStep
<1>10. CASE m.type = "ReceiveFailed"
  BY <1>1, <1>4, <1>5, <1>10, SameMethods
     DEF HandledAsOne, OneStep!HandleReceiveFailed, OneStep!OwnerStep
<1>11. CASE m.type = "Disconnect"
  BY <1>1, <1>4, <1>5, <1>11, SameMethods
     DEF HandledAsOne, OneStep!HandleDisconnect, OneStep!OwnerStep
<1>12. QED
  BY <1>2, <1>6, <1>7, <1>8, <1>9, <1>10, <1>11 DEF Messages

\* So it does when it times out and polls: it polls when the probes have run,
\* or when it finds that there is no sender any more.
LEMMA PollsAsOne ==
  ASSUME Typed, NEW t \in Threads, CallUnderWay(t),
         TimeOutIn(t) \/ PollStart(t) \/ Probe(t)
  PROVE  OneStep!OwnerStep \/ UNCHANGED OneStep!vars
<1>1. asOne = sm /\ at[t] \in {"recv", "poll", "probe"}
  BY AgreeAtRest DEF TimeOutIn, PollStart, Probe
<1>2. UNCHANGED <<queue, holderVars, viaVars, sent>>
  BY DEF TimeOutIn, PollStart, Probe
<1>3. CASE TimeOutIn(t)
  <2>1. ~polling
    BY <1>3 DEF TimeOutIn, CallUnderWay
  <2>2. QED
    BY <1>3, <2>1 DEF TimeOutIn, OneStep!TimeOut, OneStep!OwnerStep, OneStep!holderVars,
                      holderVars, OneStep!viaVars, viaVars
<1>4. CASE PollStart(t)
  <2>1. polling /\ asOne' = asOne
    BY <1>4 DEF PollStart, CallUnderWay
  <2>2. CASE sm.maybe
    <3>1. polling' = polling
      BY <1>4, <2>2 DEF PollStart
    <3>2. QED
      BY <1>2, <2>1, <3>1 DEF OneStep!vars, holderVars, viaVars
  <2>3. CASE ~sm.maybe
    <3>1. polling' = FALSE
      BY <1>4, <2>3 DEF PollStart
    <3>2. asOne' = OneStep!SM!Poll(asOne, OneStep!FailingProbes)
      BY <1>1, <2>1, <2>3 DEF OneStep!SM!Poll
    <3>3. QED
      BY <1>2, <2>1, <3>1, <3>2
         DEF OneStep!Poll, OneStep!OwnerStep, OneStep!holderVars, holderVars,
             OneStep!viaVars, viaVars
  <2>4. QED
    BY <2>2, <2>3
<1>5. CASE Probe(t)
  <2>1. polling /\ polling' = FALSE /\ asOne' = SM!Poll(asOne, FailingProbes)
    BY <1>5 DEF Probe, CallUnderWay
  <2>2. asOne' = OneStep!SM!Poll(asOne, OneStep!FailingProbes)
    BY <2>1, SameMethods
  <2>3. QED
    BY <1>2, <2>1, <2>2 DEF OneStep!Poll, OneStep!OwnerStep, OneStep!holderVars, holderVars,
                      OneStep!viaVars, viaVars
<1>6. QED
  BY <1>3, <1>4, <1>5

\* The holders, the vias and the handles on channels are the same in OneStep.
LEMMA OthersAsOne ==
  ASSUME OthersStep
  PROVE  OneStep!Next
<1>1. asOne' = asOne
  BY DEF OthersStep, threadVars
<1>2. ASSUME NEW s \in Sources, HolderStep(s) PROVE OneStep!HolderStep(s)
  <2>a. UNCHANGED ownerVars => UNCHANGED OneStep!ownerVars
    BY <1>1 DEF ownerVars, OneStep!ownerVars
  <2>1. ASSUME SendData(s) PROVE OneStep!SendData(s)
    BY <2>1, <2>a, Zenon DEF SendData, Ready, Running, ToOwner, Data, holderVars, viaVars,
       Sources, OneStep!SendData, OneStep!Ready, OneStep!Running, OneStep!ToOwner,
       OneStep!Data, OneStep!holderVars, OneStep!viaVars, OneStep!Sources
  <2>2. ASSUME Clone(s) PROVE OneStep!Clone(s)
    BY <2>2, <2>a, Zenon DEF Clone, Ready, Running, holderVars, viaVars, Sources,
       OneStep!Clone, OneStep!Ready, OneStep!Running, OneStep!holderVars, OneStep!viaVars,
       OneStep!Sources
  <2>3. ASSUME DropCopy(s) PROVE OneStep!DropCopy(s)
    BY <2>3, <2>a, Zenon DEF DropCopy, Ready, Running, Tracked, ArrivedAt, TrackerDrop,
       holderVars, viaVars, Sources, OneStep!DropCopy, OneStep!Ready, OneStep!Running,
       OneStep!Tracked, OneStep!ArrivedAt, OneStep!TrackerDrop, OneStep!holderVars,
       OneStep!viaVars, OneStep!Sources
  <2>4. ASSUME FinishDrop(s) PROVE OneStep!FinishDrop(s)
    BY <2>4, <2>a, Zenon DEF FinishDrop, Running, ToOwner, Disconnect, holderVars,
       viaVars, Sources, OneStep!FinishDrop, OneStep!Running, OneStep!ToOwner,
       OneStep!Disconnect, OneStep!holderVars, OneStep!viaVars, OneStep!Sources
  <2>5. ASSUME NEW v \in Vias, BeginSend(s, v) PROVE OneStep!BeginSend(s, v)
    BY <2>5, <2>a, Zenon DEF BeginSend, Ready, Running, ToOwner, Sending, holderVars,
       viaVars, Sources, OneStep!BeginSend, OneStep!Ready, OneStep!Running,
       OneStep!ToOwner, OneStep!Sending, OneStep!holderVars, OneStep!viaVars,
       OneStep!Sources
  <2>6. ASSUME EndSend(s) PROVE OneStep!EndSend(s)
    BY <2>6, <2>a, Zenon DEF EndSend, Running, Ready, Tracked, ArrivedAt, TrackerDrop,
       holderVars, viaVars, Sources, OneStep!EndSend, OneStep!Running, OneStep!Ready,
       OneStep!Tracked, OneStep!ArrivedAt, OneStep!TrackerDrop, OneStep!holderVars,
       OneStep!viaVars, OneStep!Sources
  <2>7. ASSUME Crash(s) PROVE OneStep!Crash(s)
    BY <2>7, <2>a, Zenon DEF Crash, holderVars, viaVars, Sources, OneStep!Crash,
       OneStep!holderVars, OneStep!viaVars, OneStep!Sources
  <2>8. QED
    BY <1>2, <2>1, <2>2, <2>3, <2>4, <2>5, <2>6, <2>7 DEF HolderStep, OneStep!HolderStep
<1>3. ASSUME NEW v \in Vias, ViaStep(v) PROVE OneStep!ViaStep(v)
  <2>a. UNCHANGED ownerVars => UNCHANGED OneStep!ownerVars
    BY <1>1 DEF ownerVars, OneStep!ownerVars
  <2>1. ASSUME Demultiplex(v) PROVE OneStep!Demultiplex(v)
    BY <2>1, <2>a, Zenon DEF Demultiplex, Running, Tracked, ArrivedAt, TrackerDrop,
       holderVars, viaVars, OneStep!Demultiplex, OneStep!Running, OneStep!Tracked,
       OneStep!ArrivedAt, OneStep!TrackerDrop, OneStep!holderVars, OneStep!viaVars
  <2>2. ASSUME Receive(v) PROVE OneStep!Receive(v)
    BY <2>2, <2>a, Zenon DEF Receive, Ready, Running, ToOwner, Received, holderVars,
       viaVars, OneStep!Receive, OneStep!Ready, OneStep!Running, OneStep!ToOwner,
       OneStep!Received, OneStep!holderVars, OneStep!viaVars
  <2>3. ASSUME FailToDeserialize(v) PROVE OneStep!FailToDeserialize(v)
    BY <2>3, <2>a, Zenon DEF FailToDeserialize, Ready, Running, Tracked, ArrivedAt,
       TrackerDrop, holderVars, viaVars, OneStep!FailToDeserialize, OneStep!Ready,
       OneStep!Running, OneStep!Tracked, OneStep!ArrivedAt, OneStep!TrackerDrop,
       OneStep!holderVars, OneStep!viaVars
  <2>4. ASSUME DropReceiver(v) PROVE OneStep!DropReceiver(v)
    BY <2>4, <2>a, Zenon DEF DropReceiver, Ready, Running, holderVars,
       OneStep!DropReceiver, OneStep!Ready, OneStep!Running, OneStep!holderVars
  <2>5. ASSUME FailArrived(v) PROVE OneStep!FailArrived(v)
    BY <2>5, <2>a, Zenon DEF FailArrived, Running, ToOwner, ReceiveFailed, Tracked,
       ArrivedAt, TrackerDrop, holderVars, viaVars, OneStep!FailArrived, OneStep!Running,
       OneStep!ToOwner, OneStep!ReceiveFailed, OneStep!Tracked, OneStep!ArrivedAt,
       OneStep!TrackerDrop, OneStep!holderVars, OneStep!viaVars
  <2>6. ASSUME CloseReceiver(v) PROVE OneStep!CloseReceiver(v)
    BY <2>6, <2>a, Zenon DEF CloseReceiver, Running, holderVars, OneStep!CloseReceiver,
       OneStep!Running, OneStep!holderVars
  <2>7. QED
    BY <1>3, <2>1, <2>2, <2>3, <2>4, <2>5, <2>6 DEF ViaStep, OneStep!ViaStep
<1>4. ASSUME NEW r \in Receivers, LeaveChannel(r) PROVE OneStep!LeaveChannel(r)
  BY <1>1, <1>4, Zenon
     DEF LeaveChannel, Ready, Running, ownerVars, holderVars,
         OneStep!LeaveChannel, OneStep!Ready, OneStep!Running, OneStep!ownerVars,
         OneStep!holderVars
<1>5. QED
  BY <1>2, <1>3, <1>4, SameMethods DEF OthersStep, OneStep!Next

\* Every step of a single thread is, in asOne, a step of Lifecycle or none.
LEMMA StepAsOne ==
  ASSUME Typed, NEW t \in Threads, Threads = {t}, CallUnderWay(t), [ThreadsNext]_allVars
  PROVE  [OneStep!Next]_(OneStep!vars)
<1>1. CASE TakeMessage(t)
  BY <1>1, TakesAsOne DEF OneStep!Next
<1>2. CASE TimeOutIn(t) \/ PollStart(t) \/ Probe(t)
  BY <1>2, PollsAsOne DEF OneStep!Next
<1>3. CASE OthersStep
  BY <1>3, OthersAsOne
<1>4. CASE UNCHANGED allVars
  BY <1>4 DEF allVars, vars, threadVars, OneStep!vars
<1>5. ASSUME ThreadStep(t), ~TakeMessage(t), ~TimeOutIn(t), ~PollStart(t), ~Probe(t)
      PROVE  UNCHANGED OneStep!vars
  <2>1. Inside
    BY <1>5
       DEF ThreadStep, InsertInFlight, InsertProbe, RemoveInFlight, InsertSource, RemoveProbe,
           CheckSources, RemoveSource, CheckInFlight, Take, FindInFlight, WriteOff,
           RemoveProbes, CheckVacant
  <2>2. QED
    BY <2>1 DEF Inside, holderVars, viaVars, OneStep!vars
<1>6. QED
  BY <1>1, <1>2, <1>3, <1>4, <1>5 DEF ThreadsNext

\* With a single thread, the code with its critical sections implements
\* Lifecycle, whose calls are single steps (the safety part of
\* ImplementsLifecycle): what is proved of Lifecycle holds of the code.
THEOREM SingleThreadImplements ==
  ASSUME NEW t \in Threads, Threads = {t}
  PROVE  ThreadsSpec => OneStep!Spec
<1>1. ThreadsInit => Typed /\ CallUnderWay(t)
  BY ThreadsInitTyped, CallInit
<1>2. Typed /\ CallUnderWay(t) /\ [ThreadsNext]_allVars => (Typed /\ CallUnderWay(t))'
  BY TypedStep, CallStep
<1>3. ThreadsInit => OneStep!Init
  BY SameMethods DEF ThreadsInit, Init, OneStep!Init
<1>4. Typed /\ CallUnderWay(t) /\ [ThreadsNext]_allVars => [OneStep!Next]_(OneStep!vars)
  BY StepAsOne
<1>5. QED
  BY <1>1, <1>2, <1>3, <1>4, PTL DEF ThreadsSpec, OneStep!Spec

\* The same instance with the theorems about it.
AsOne == INSTANCE LifecycleProofs WITH sm <- asOne

LEMMA SameSpec == OneStep!Spec => AsOne!Spec
<1>1. OneStep!Init => AsOne!Init
  BY Zenon
     DEF OneStep!Init, OneStep!Sources, OneStep!SM!New, AsOne!Init, AsOne!Sources,
       AsOne!SM!New
<1>2. OneStep!Next => AsOne!Next
  BY Zenon
     DEF OneStep!Sources, OneStep!Init, OneStep!SM!New, OneStep!ToOwner, OneStep!Data,
       OneStep!Sending, OneStep!ReceiveFailed, OneStep!Received, OneStep!Disconnect,
       OneStep!Running, OneStep!Ready, OneStep!ArrivedAt, OneStep!Tracked,
       OneStep!TrackerDrop, OneStep!SendData, OneStep!Clone, OneStep!DropCopy,
       OneStep!FinishDrop, OneStep!BeginSend, OneStep!EndSend, OneStep!Demultiplex,
       OneStep!Receive, OneStep!FailToDeserialize, OneStep!DropReceiver,
       OneStep!FailArrived, OneStep!CloseReceiver, OneStep!LeaveChannel, OneStep!Crash,
       OneStep!Handle, OneStep!HandleData, OneStep!HandleSending, OneStep!HandleReceived,
       OneStep!HandleReceiveFailed, OneStep!HandleDisconnect, OneStep!TimeOut,
       OneStep!FailingProbes, OneStep!Poll, OneStep!HolderStep, OneStep!ViaStep,
       OneStep!OwnerStep, OneStep!Next, OneStep!ownerVars, OneStep!holderVars,
       OneStep!viaVars, OneStep!SM!ToBeSent, OneStep!SM!ReceiveFailed,
       OneStep!SM!Received, OneStep!SM!Disconnect, OneStep!SM!Poll, OneStep!SM!WriteOff,
       OneStep!SM!LostVias, OneStep!SM!TakeIfVacant, OneStep!SM!Vacant,
       OneStep!SM!NoneInFlight, OneStep!SM!WithOne, OneStep!SM!WithoutOne, AsOne!Sources,
       AsOne!Init, AsOne!SM!New, AsOne!ToOwner, AsOne!Data, AsOne!Sending,
       AsOne!ReceiveFailed, AsOne!Received, AsOne!Disconnect, AsOne!Running, AsOne!Ready,
       AsOne!ArrivedAt, AsOne!Tracked, AsOne!TrackerDrop, AsOne!SendData, AsOne!Clone,
       AsOne!DropCopy, AsOne!FinishDrop, AsOne!BeginSend, AsOne!EndSend,
       AsOne!Demultiplex, AsOne!Receive, AsOne!FailToDeserialize, AsOne!DropReceiver,
       AsOne!FailArrived, AsOne!CloseReceiver, AsOne!LeaveChannel, AsOne!Crash,
       AsOne!Handle, AsOne!HandleData, AsOne!HandleSending, AsOne!HandleReceived,
       AsOne!HandleReceiveFailed, AsOne!HandleDisconnect, AsOne!TimeOut,
       AsOne!FailingProbes, AsOne!Poll, AsOne!HolderStep, AsOne!ViaStep, AsOne!OwnerStep,
       AsOne!Next, AsOne!ownerVars, AsOne!holderVars, AsOne!viaVars, AsOne!SM!ToBeSent,
       AsOne!SM!ReceiveFailed, AsOne!SM!Received, AsOne!SM!Disconnect, AsOne!SM!Poll,
       AsOne!SM!WriteOff, AsOne!SM!LostVias, AsOne!SM!TakeIfVacant, AsOne!SM!Vacant,
       AsOne!SM!NoneInFlight, AsOne!SM!WithOne, AsOne!SM!WithoutOne
<1>3. [OneStep!Next]_(OneStep!vars) => [AsOne!Next]_(AsOne!vars)
  BY <1>2 DEF OneStep!vars, AsOne!vars
<1>4. QED
  BY <1>1, <1>3, PTL DEF OneStep!Spec, AsOne!Spec

\* A single thread never takes the sender while a subsender can still be used, as
\* long as no IPC channel has gone: what is proved of single steps holds between
\* the critical sections too.
THEOREM SingleThreadSafe ==
  ASSUME NEW t \in Threads, Threads = {t}, Threaded = {}
  PROVE  ThreadsSpec => [](AllChannelsOpen => NoPrematureDisconnect)
<1>1. ThreadsInit => Typed /\ CallUnderWay(t)
  BY ThreadsInitTyped, CallInit
<1>2. Typed /\ CallUnderWay(t) /\ [ThreadsNext]_allVars => (Typed /\ CallUnderWay(t))'
  BY TypedStep, CallStep
<1>3. ThreadsSpec => AsOne!Spec
  BY SingleThreadImplements, SameSpec
<1>4. AsOne!Spec => []AsOne!SafeWhileChannelsOpen
  BY AsOne!DisconnectionSafe, LifecycleAssumption
     DEF AsOne!Sources, Sources, AsOne!IsFiniteSet, IsFiniteSet
<1>5. Typed /\ CallUnderWay(t) /\ AsOne!SafeWhileChannelsOpen
        => (AllChannelsOpen => NoPrematureDisconnect)
  <2>1. AsOne!UsableCopy <=> UsableCopy
    BY Zenon DEF AsOne!UsableCopy, UsableCopy, AsOne!Sources, Sources
  <2>2. AsOne!AllChannelsOpen <=> AllChannelsOpen
    BY DEF AsOne!AllChannelsOpen, AllChannelsOpen
  <2>3. CallUnderWay(t) => (asOne.maybe => sm.maybe)
    BY DEF CallUnderWay, MaybeAfter
  <2>4. QED
    BY <2>1, <2>2, <2>3
       DEF AsOne!SafeWhileChannelsOpen, AsOne!NoPrematureDisconnect, NoPrematureDisconnect
<1>6. QED
  BY <1>1, <1>2, <1>3, <1>4, <1>5, PTL DEF ThreadsSpec

-----------------------------------------------------------------------------
(* Any number of threads, and nothing fails: the ledger of sources and     *)
(* copies in flight is exact.                                              *)

\* asOne has the ledger that sm will have when the message being handled is.
LedgerUnderWay ==
  IF demuxer = NoThread
  THEN asOne.sources = sm.sources /\ asOne.inFlight = sm.inFlight
  ELSE asOne.sources = SourcesAfter(demuxer) /\ asOne.inFlight = InFlightAfter(demuxer)

\* No probe fails, so polls find nothing to write off.
NothingFails ==
  /\ AllChannelsOpen /\ linked
  /\ \A v \in Vias : sm.probes[v] # FailedProbe /\ asOne.probes[v] # FailedProbe
  /\ \A t \in Threads : dead[t] = {}

\* Only a thread that is handling a message, or is about to take the sender, has
\* the Demuxer; and asOne has no sender to take, since each call took it.
HandlersLock ==
  \A t \in Threads : demuxer = t => at[t] \in HandlerLabels \cup {"take"}

TakenIfVacant == SM!Vacant(asOne) => ~asOne.maybe

Undamaged == NothingFails /\ HandlersLock /\ TakenIfVacant /\ LedgerUnderWay

\* A method called with the Demuxer locked keeps what is left of it.
LEMMA HandlerKeepsLedger ==
  ASSUME Typed, NothingFails, NEW t \in Threads,
         \/ InsertInFlight(t) \/ InsertProbe(t)
         \/ RemoveInFlight(t) \/ InsertSource(t) \/ RemoveProbe(t)
         \/ CheckSources(t) \/ RemoveSource(t) \/ CheckInFlight(t) \/ Take(t)
  PROVE  /\ SourcesAfter(t)' = SourcesAfter(t) /\ InFlightAfter(t)' = InFlightAfter(t)
         /\ \A v \in Vias : sm'.probes[v] # FailedProbe
         /\ Inside /\ dead' = dead
<1>0. /\ sm \in Machines /\ sm.maybe \in BOOLEAN /\ sm.sources \in SUBSET Sources
      /\ sm.inFlight \in [Vias -> Nat] /\ sm.probes \in [Vias -> Probes \cup {NoProbe}]
      /\ t \in DOMAIN at /\ linked = TRUE /\ msg \in Messages
  BY DEF Typed, ThreadsTypeOK, TypeOK, Machines, SM!StateMachines, NothingFails
<1>1. Inside /\ msg' = msg /\ linked' = linked /\ dead' = dead
  BY DEF InsertInFlight, InsertProbe, RemoveInFlight, InsertSource, RemoveProbe,
         CheckSources, RemoveSource, CheckInFlight, Take, Inside
<1>2. FailedProbe \notin Vias /\ NoProbe # FailedProbe
  BY LifecycleAssumption
<1> USE DEF SourcesAfter, InFlightAfter
<1>3. CASE InsertInFlight(t)
  <2>1. at[t] = "insert_in_flight" /\ at'[t] = "insert_probe"
    BY <1>0, <1>3 DEF InsertInFlight, GoTo
  <2>2. /\ sm'.sources = sm.sources /\ sm'.probes = sm.probes
        /\ sm'.inFlight = SM!WithOne(sm.inFlight, msg.via)
    BY <1>0, <1>3 DEF InsertInFlight, Machines, SM!StateMachines
  <2>3. QED
    BY <1>0, <1>1, <2>1, <2>2 DEF NothingFails
<1>4. CASE InsertProbe(t)
  <2>1. at[t] = "insert_probe" /\ at'[t] = "recv" /\ msg.via \in Vias
    BY <1>0, <1>4, HeadTyped
       DEF InsertProbe, GoToOrReturn, Return, GoTo, Typed, Handling
  <2>2. /\ sm'.sources = sm.sources /\ sm'.inFlight = sm.inFlight
        /\ sm'.probes = [sm.probes EXCEPT ![msg.via] = msg.via]
    BY <1>0, <1>4 DEF InsertProbe, Machines, SM!StateMachines
  <2>3. \A v \in Vias : sm'.probes[v] # FailedProbe
    BY <1>0, <1>2, <2>1, <2>2 DEF NothingFails
  <2>4. QED
    BY <1>0, <1>1, <2>1, <2>2, <2>3
<1>5. CASE RemoveInFlight(t)
  <2>1. /\ at[t] = "remove_in_flight"
        /\ at'[t] = IF msg.type = "Received" THEN "insert_source" ELSE "check_sources"
    BY <1>0, <1>5 DEF RemoveInFlight, GoTo
  <2>2. /\ sm'.sources = sm.sources /\ sm'.probes = sm.probes
        /\ sm'.inFlight = SM!WithoutOne(sm.inFlight, msg.via)
    BY <1>0, <1>5 DEF RemoveInFlight, Machines, SM!StateMachines
  <2>3. QED
    BY <1>1, <2>1, <2>2 DEF NothingFails
<1>6. CASE InsertSource(t)
  <2>1. at[t] = "insert_source" /\ at'[t] = "remove_probe"
    BY <1>0, <1>6 DEF InsertSource, GoTo
  <2>2. /\ sm'.sources = sm.sources \cup {msg.source}
        /\ sm'.probes = sm.probes /\ sm'.inFlight = sm.inFlight
    BY <1>0, <1>6 DEF InsertSource, Machines, SM!StateMachines
  <2>3. QED
    BY <1>1, <2>1, <2>2 DEF NothingFails
<1>7. CASE RemoveProbe(t)
  <2>1. at[t] = "remove_probe" /\ at'[t] = "recv"
    BY <1>0, <1>7 DEF RemoveProbe, Return, GoTo
  <2>2. /\ sm'.sources = sm.sources /\ sm'.inFlight = sm.inFlight
        /\ sm'.probes = [sm.probes EXCEPT ![msg.via] = NoProbe]
    BY <1>0, <1>7 DEF RemoveProbe, Machines, SM!StateMachines
  <2>3. \A v \in Vias : sm'.probes[v] # FailedProbe
    BY <1>0, <1>2, <2>2 DEF NothingFails
  <2>4. QED
    BY <1>1, <2>1, <2>2, <2>3
<1>8. CASE RemoveSource(t)
  <2>1. /\ sm'.sources = sm.sources \ {msg.source}
        /\ sm'.probes = sm.probes /\ sm'.inFlight = sm.inFlight
    BY <1>0, <1>8 DEF RemoveSource, Machines, SM!StateMachines
  <2>2. at[t] = "remove_source" /\ at'[t] \in {"check_in_flight", "recv"}
    BY <1>0, <1>8 DEF RemoveSource, Return, GoTo
  <2>3. QED
    BY <1>1, <2>1, <2>2 DEF NothingFails
<1>9. CASE CheckSources(t) \/ CheckInFlight(t) \/ Take(t)
  <2>1. /\ at[t] \in {"check_sources", "check_in_flight", "take"}
        /\ at'[t] \in {"check_in_flight", "take", "recv"}
    BY <1>0, <1>9 DEF CheckSources, CheckInFlight, Take, GoToOrReturn, Return, GoTo
  <2>2. sm'.sources = sm.sources /\ sm'.inFlight = sm.inFlight /\ sm'.probes = sm.probes
    BY <1>0, <1>9 DEF CheckSources, CheckInFlight, Take, Machines, SM!StateMachines
  <2>3. QED
    BY <1>1, <2>1, <2>2 DEF NothingFails
<1>10. QED
  BY <1>3, <1>4, <1>5, <1>6, <1>7, <1>8, <1>9

\* A poll finds nothing to write off, and does not disturb the thread that has the
\* Demuxer.
LEMMA PollKeepsLedger ==
  ASSUME Typed, Undamaged, NEW t \in Threads,
         \/ TimeOutIn(t) \/ PollStart(t) \/ Probe(t) \/ FindInFlight(t)
         \/ WriteOff(t) \/ RemoveProbes(t) \/ CheckVacant(t)
  PROVE  /\ sm'.sources = sm.sources /\ sm'.inFlight = sm.inFlight /\ sm'.probes = sm.probes
         /\ UNCHANGED <<queue, holderVars, viaVars, sent, msg, linked, asOne, dead, demuxer>>
         /\ \A u \in Threads : u # t => at'[u] = at[u]
         /\ demuxer # t
<1>0. /\ sm \in Machines /\ sm.maybe \in BOOLEAN /\ asOne \in Machines
      /\ sm.inFlight \in [Vias -> Nat] /\ sm.probes \in [Vias -> Probes \cup {NoProbe}]
      /\ asOne.maybe \in BOOLEAN
      /\ asOne.inFlight \in [Vias -> Nat] /\ asOne.probes \in [Vias -> Probes \cup {NoProbe}]
      /\ t \in DOMAIN at /\ dead \in [Threads -> SUBSET Vias]
  BY DEF Typed, ThreadsTypeOK, TypeOK, Machines, SM!StateMachines
<1>1. /\ UNCHANGED <<queue, holderVars, viaVars, sent, msg, linked>>
      /\ at[t] \in {"recv", "poll", "probe", "find_in_flight", "write_off", "remove_probes",
                    "check_vacant"}
  BY DEF TimeOutIn, PollStart, Probe, FindInFlight, WriteOff, RemoveProbes, CheckVacant, Inside
<1>2. demuxer # t
  BY <1>1 DEF Undamaged, HandlersLock, HandlerLabels
<1>3. demuxer' = demuxer /\ \A u \in Threads : u # t => at'[u] = at[u]
  BY <1>0, <1>2
     DEF TimeOutIn, PollStart, Probe, FindInFlight, WriteOff, RemoveProbes, CheckVacant,
         GoToOrReturn, Return, Released, GoTo, NoLockChange, Typed, ThreadsTypeOK
<1>4. /\ \A v \in Vias : sm.probes[v] \notin FailingProbes /\ asOne.probes[v] \notin FailingProbes
      /\ dead[t] = {}
  <2>1. FailingProbes = {FailedProbe}
    BY AtTyped DEF FailingProbes, Undamaged, NothingFails, AllChannelsOpen
  <2>2. QED
    BY <2>1 DEF Undamaged, NothingFails
<1>5. asOne' = asOne
  <2>1. CASE Probe(t)
    <3>1. asOne' = SM!Poll(asOne, FailingProbes)
      BY <2>1 DEF Probe
    <3>2. SM!LostVias(asOne, FailingProbes) = {}
      BY <1>4 DEF SM!LostVias
    <3>3. SM!WriteOff(asOne, {}) = asOne
      BY <1>0 DEF SM!WriteOff, Machines, SM!StateMachines
    <3>4. SM!TakeIfVacant(asOne) = asOne
      <4>1. SM!TakeIfVacant(asOne).maybe = asOne.maybe
        BY <1>0, TakeTyped DEF Undamaged, TakenIfVacant
      <4>2. SM!TakeIfVacant(asOne) \in Machines
        BY <1>0, TakeTyped
      <4>3. QED
        BY <1>0, <4>1, <4>2, TakeFields, SameFields
    <3>5. QED
      BY <3>1, <3>2, <3>3, <3>4, Zenon DEF SM!Poll
  <2>2. CASE ~Probe(t)
    BY <2>2
       DEF TimeOutIn, PollStart, FindInFlight, WriteOff, RemoveProbes, CheckVacant, Inside
  <2>3. QED
    BY <2>1, <2>2
<1>6. dead' = dead
  <2>1. CASE Probe(t)
    <3>1. {v \in Vias : sm.probes[v] \in FailingProbes} = dead[t]
      BY <1>4
    <3>2. dead' = [dead EXCEPT ![t] = dead[t]]
      BY <2>1, <3>1 DEF Probe
    <3>3. QED
      BY <1>0, <3>2
  <2>2. CASE FindInFlight(t)
    <3>1. dead' = [dead EXCEPT ![t] = dead[t]]
      BY <1>4, <2>2 DEF FindInFlight
    <3>2. QED
      BY <1>0, <3>1
  <2>3. CASE ~Probe(t) /\ ~FindInFlight(t)
    BY <2>3 DEF TimeOutIn, PollStart, WriteOff, RemoveProbes, CheckVacant
  <2>4. QED
    BY <2>1, <2>2, <2>3
<1>7. sm'.sources = sm.sources /\ sm'.inFlight = sm.inFlight /\ sm'.probes = sm.probes
  <2>1. CASE WriteOff(t)
    <3>1. [v \in Vias |-> IF v \in dead[t] THEN 0 ELSE sm.inFlight[v]] = sm.inFlight
      BY <1>0, <1>4
    <3>2. QED
      BY <1>0, <2>1, <3>1 DEF WriteOff, Machines, SM!StateMachines
  <2>2. CASE RemoveProbes(t)
    <3>1. [v \in Vias |-> IF v \in dead[t] THEN NoProbe ELSE sm.probes[v]] = sm.probes
      BY <1>0, <1>4
    <3>2. QED
      BY <1>0, <2>2, <3>1 DEF RemoveProbes, Machines, SM!StateMachines
  <2>3. CASE ~WriteOff(t) /\ ~RemoveProbes(t)
    BY <2>3 DEF TimeOutIn, PollStart, Probe, FindInFlight, CheckVacant
  <2>4. QED
    BY <2>1, <2>2, <2>3
<1>8. QED
  BY <1>1, <1>2, <1>3, <1>5, <1>6, <1>7

\* Taking the sender if there are no copies leaves none to take.
LEMMA TakenAfterCheck ==
  ASSUME NEW x \in Machines
  PROVE  SM!Vacant(SM!TakeIfVacant(x)) => ~SM!TakeIfVacant(x).maybe
<1>1. SM!Vacant(SM!TakeIfVacant(x)) <=> SM!Vacant(x)
  BY TakeTyped DEF SM!Vacant, SM!NoneInFlight
<1>2. QED
  BY <1>1, TakeTyped

\* A thread that takes a message.
LEMMA TakeMessageUndamaged ==
  ASSUME Typed, Undamaged, NEW t \in Threads, TakeMessage(t)
  PROVE  Undamaged'
<1>1. PICK m : m = Head(queue)
  OBVIOUS
<1>2. m \in Messages
  <2>1. queue \in Seq(Messages) /\ queue # <<>>
    BY DEF Typed, ThreadsTypeOK, TypeOK, TakeMessage
  <2>2. QED
    BY <1>1, <2>1
<1>3. /\ at[t] = "recv" /\ demuxer = NoThread /\ sm' = sm /\ dead' = dead /\ open' = open
      /\ linked' \in (IF m.type = "Sending" THEN {TRUE, open[At[m.via]]} ELSE {TRUE})
      /\ asOne' = HandledAsOne(m, linked')
  BY <1>1 DEF TakeMessage, Free, ownerVars, viaVars
<1>4. linked' = TRUE
  <2>1. m.type = "Sending" => open[At[m.via]] = TRUE
    BY <1>2, HeadTyped, AtTyped
       DEF Undamaged, NothingFails, AllChannelsOpen, Typed, ThreadsTypeOK, TypeOK
  <2>2. QED
    BY <1>3, <2>1
<1>5. /\ asOne \in Machines /\ sm \in Machines /\ t \in DOMAIN at
      /\ asOne.sources = sm.sources /\ asOne.inFlight = sm.inFlight
      /\ sm.inFlight \in [Vias -> Nat] /\ asOne.probes \in [Vias -> Probes \cup {NoProbe}]
  BY <1>3
     DEF Typed, ThreadsTypeOK, TypeOK, Machines, SM!StateMachines, Undamaged, LedgerUnderWay
<1>6. FailedProbe \notin Vias /\ NoProbe # FailedProbe
  BY LifecycleAssumption
<1>7. \A v \in Vias : sm.probes[v] # FailedProbe /\ asOne.probes[v] # FailedProbe
  BY DEF Undamaged, NothingFails
<1>8. ASSUME \A v \in Vias : asOne'.probes[v] # FailedProbe PROVE NothingFails'
  BY <1>3, <1>4, <1>8 DEF Undamaged, NothingFails, AllChannelsOpen
<1>9. CASE m.type = "Data"
  <2>1. /\ asOne' = asOne /\ demuxer' = demuxer /\ at' = at
    BY <1>1, <1>3, <1>9 DEF TakeMessage, HandledAsOne
  <2>2. NothingFails'
    BY <1>7, <1>8, <2>1
  <2>3. HandlersLock'
    BY <2>1 DEF Undamaged, HandlersLock
  <2>4. TakenIfVacant'
    BY <2>1 DEF Undamaged, TakenIfVacant
  <2>5. LedgerUnderWay'
    BY <1>3, <1>5, <2>1 DEF LedgerUnderWay
  <2>6. QED
    BY <2>2, <2>3, <2>4, <2>5 DEF Undamaged
<1>10. CASE m.type # "Data"
  <2>1. /\ msg' = m /\ demuxer' = t /\ at' = [at EXCEPT ![t] = FirstSection[m.type]]
    BY <1>1, <1>10 DEF TakeMessage, GoTo
  <2>2. /\ FirstSection["Sending"] = "insert_in_flight"
        /\ FirstSection["Received"] = "remove_in_flight"
        /\ FirstSection["ReceiveFailed"] = "remove_in_flight"
        /\ FirstSection["Disconnect"] = "remove_source"
    BY DEF FirstSection
  <2>3. at'[t] = FirstSection[m.type]
    BY <1>5, <2>1
  <2>4. at'[t] \in HandlerLabels
    BY <1>2, <1>10, <2>2, <2>3 DEF Messages, HandlerLabels
  <2>5. HandlersLock'
    BY <2>1, <2>4 DEF HandlersLock
  <2>6. t # NoThread
    BY ThreadsAssumption
  <2>7. ASSUME asOne'.sources = SourcesAfter(t)', asOne'.inFlight = InFlightAfter(t)'
        PROVE  LedgerUnderWay'
    BY <2>1, <2>6, <2>7 DEF LedgerUnderWay
  <2>8. CASE m.type = "Sending"
    <3>1. m.via \in Vias /\ m.via \in Probes /\ asOne' = SM!ToBeSent(asOne, m.via, m.via)
      BY <1>2, <1>3, <1>4, <2>8, HeadTyped DEF Probes, HandledAsOne
    <3>2. /\ asOne'.sources = sm.sources /\ asOne'.inFlight = SM!WithOne(sm.inFlight, m.via)
          /\ asOne'.probes = [asOne.probes EXCEPT ![m.via] = m.via]
      BY <1>5, <3>1, ToBeSentFields
    <3>3. SourcesAfter(t)' = sm.sources /\ InFlightAfter(t)' = SM!WithOne(sm.inFlight, m.via)
      BY <1>3, <1>4, <2>1, <2>2, <2>3, <2>8 DEF SourcesAfter, InFlightAfter
    <3>4. \A v \in Vias : asOne'.probes[v] # FailedProbe
      BY <1>5, <1>6, <1>7, <3>1, <3>2
    <3>5. SM!WithOne(sm.inFlight, m.via)[m.via] # 0
      BY <1>5, <3>1 DEF SM!WithOne
    <3>6. TakenIfVacant'
      BY <3>1, <3>2, <3>5 DEF TakenIfVacant, SM!Vacant, SM!NoneInFlight
    <3>7. QED
      BY <1>8, <2>5, <2>7, <3>2, <3>3, <3>4, <3>6 DEF Undamaged
  <2>9. CASE m.type = "Received"
    <3>1. m.via \in Vias /\ m.source \in Sources /\ asOne' = SM!Received(asOne, m.via, m.source)
      BY <1>2, <1>3, <2>9, HeadTyped DEF HandledAsOne
    <3>2. /\ asOne'.sources = sm.sources \cup {m.source}
          /\ asOne'.inFlight = SM!WithoutOne(sm.inFlight, m.via)
          /\ asOne'.probes = [asOne.probes EXCEPT ![m.via] = NoProbe]
      BY <1>5, <3>1, ReceivedFields
    <3>3. /\ SourcesAfter(t)' = sm.sources \cup {m.source}
          /\ InFlightAfter(t)' = SM!WithoutOne(sm.inFlight, m.via)
      BY <1>3, <2>1, <2>2, <2>3, <2>9 DEF SourcesAfter, InFlightAfter
    <3>4. \A v \in Vias : asOne'.probes[v] # FailedProbe
      BY <1>5, <1>6, <1>7, <3>1, <3>2
    <3>5. TakenIfVacant'
      BY <3>2 DEF TakenIfVacant, SM!Vacant
    <3>6. QED
      BY <1>8, <2>5, <2>7, <3>2, <3>3, <3>4, <3>5 DEF Undamaged
  <2>10. CASE m.type = "ReceiveFailed"
    <3>1. m.via \in Vias /\ asOne' = SM!ReceiveFailed(asOne, m.via)
      BY <1>2, <1>3, <2>10, HeadTyped DEF HandledAsOne
    <3>2. /\ asOne'.sources = sm.sources /\ asOne'.probes = asOne.probes
          /\ asOne'.inFlight = SM!WithoutOne(sm.inFlight, m.via)
      BY <1>5, <3>1, TakingMethodFields
    <3>3. /\ SourcesAfter(t)' = sm.sources
          /\ InFlightAfter(t)' = SM!WithoutOne(sm.inFlight, m.via)
      BY <1>3, <2>1, <2>2, <2>3, <2>10 DEF SourcesAfter, InFlightAfter
    <3>4. PICK x \in Machines : asOne' = SM!TakeIfVacant(x)
      <4>1. [asOne EXCEPT !.inFlight = SM!WithoutOne(asOne.inFlight, m.via)] \in Machines
        BY <1>5, <3>1, BagsTyped DEF Machines, SM!StateMachines
      <4>2. QED
        BY <3>1, <4>1 DEF SM!ReceiveFailed
    <3>5. TakenIfVacant'
      BY <3>4, TakenAfterCheck DEF TakenIfVacant
    <3>6. QED
      BY <1>7, <1>8, <2>5, <2>7, <3>2, <3>3, <3>5 DEF Undamaged
  <2>11. CASE m.type = "Disconnect"
    <3>1. m.source \in Sources /\ asOne' = SM!Disconnect(asOne, m.source)
      BY <1>2, <1>3, <2>11, HeadTyped DEF HandledAsOne
    <3>2. /\ asOne'.sources = sm.sources \ {m.source} /\ asOne'.probes = asOne.probes
          /\ asOne'.inFlight = sm.inFlight
      <4>1. /\ asOne'.sources = asOne.sources \ {m.source} /\ asOne'.probes = asOne.probes
            /\ asOne'.inFlight = asOne.inFlight
        BY <1>5, <3>1, DisconnectFields
      <4>2. QED
        BY <1>5, <4>1
    <3>3. SourcesAfter(t)' = sm.sources \ {m.source} /\ InFlightAfter(t)' = sm.inFlight
      BY <1>3, <2>1, <2>2, <2>3, <2>11 DEF SourcesAfter, InFlightAfter
    <3>4. PICK x \in Machines : asOne' = SM!TakeIfVacant(x)
      <4>1. [asOne EXCEPT !.sources = asOne.sources \ {m.source}] \in Machines
        BY <1>5 DEF Machines, SM!StateMachines
      <4>2. QED
        BY <3>1, <4>1 DEF SM!Disconnect
    <3>5. TakenIfVacant'
      BY <3>4, TakenAfterCheck DEF TakenIfVacant
    <3>6. QED
      BY <1>7, <1>8, <2>5, <2>7, <3>2, <3>3, <3>5 DEF Undamaged
  <2>12. QED
    BY <1>2, <1>10, <2>8, <2>9, <2>10, <2>11 DEF Messages
<1>11. QED
  BY <1>9, <1>10

\* A thread in a method of the message it handles.
LEMMA HandlerUndamaged ==
  ASSUME Typed, Undamaged, NEW t \in Threads,
         \/ InsertInFlight(t) \/ InsertProbe(t)
         \/ RemoveInFlight(t) \/ InsertSource(t) \/ RemoveProbe(t)
         \/ CheckSources(t) \/ RemoveSource(t) \/ CheckInFlight(t)
         \/ Take(t) /\ demuxer = t
  PROVE  Undamaged'
<1>1. /\ SourcesAfter(t)' = SourcesAfter(t) /\ InFlightAfter(t)' = InFlightAfter(t)
      /\ \A v \in Vias : sm'.probes[v] # FailedProbe
      /\ Inside /\ dead' = dead
  BY HandlerKeepsLedger DEF Undamaged
<1>2. demuxer = t
  BY DEF InsertInFlight, InsertProbe, RemoveInFlight, InsertSource, RemoveProbe, CheckSources,
         RemoveSource, CheckInFlight, Typed, OneHandler, HandlerLabels
<1>3. t # NoThread /\ t \in DOMAIN at
  BY ThreadsAssumption DEF Typed, ThreadsTypeOK
<1>4. \/ demuxer' = t /\ at'[t] \in HandlerLabels \cup {"take"}
      \/ demuxer' = NoThread /\ at'[t] = "recv"
  <2>1. ASSUME Return(t) PROVE demuxer' = NoThread /\ at'[t] = "recv"
    BY <1>2, <1>3, <2>1 DEF Return, Released, GoTo
  <2>2. ASSUME NEW label \in HandlerLabels \cup {"take"}, GoTo(t, label), demuxer' = demuxer
        PROVE  demuxer' = t /\ at'[t] \in HandlerLabels \cup {"take"}
    BY <1>2, <1>3, <2>2 DEF GoTo
  <2>3. {"insert_probe", "remove_in_flight", "insert_source", "remove_probe", "check_sources",
         "check_in_flight", "take"} \subseteq HandlerLabels \cup {"take"}
    BY DEF HandlerLabels
  <2>4. CASE InsertInFlight(t) \/ InsertSource(t)
    BY <2>2, <2>3, <2>4 DEF InsertInFlight, InsertSource, NoLockChange
  <2>5. CASE RemoveInFlight(t)
    BY <2>2, <2>3, <2>5 DEF RemoveInFlight, NoLockChange
  <2>6. CASE InsertProbe(t) \/ CheckSources(t) \/ CheckInFlight(t)
    BY <2>1, <2>2, <2>3, <2>6
       DEF InsertProbe, CheckSources, CheckInFlight, GoToOrReturn, NoLockChange
  <2>7. CASE RemoveProbe(t) \/ Take(t)
    BY <2>1, <2>7 DEF RemoveProbe, Take
  <2>8. CASE RemoveSource(t)
    BY <2>1, <2>2, <2>3, <2>8 DEF RemoveSource
  <2>9. QED
    BY <2>4, <2>5, <2>6, <2>7, <2>8
<1>5. HandlersLock'
  BY <1>3, <1>4, ThreadsAssumption DEF HandlersLock
<1>6. NothingFails' /\ TakenIfVacant'
  BY <1>1 DEF Undamaged, NothingFails, TakenIfVacant, AllChannelsOpen, Inside, viaVars
<1>7. asOne'.sources = SourcesAfter(t)' /\ asOne'.inFlight = InFlightAfter(t)'
  BY <1>1, <1>2, <1>3 DEF Undamaged, LedgerUnderWay, Inside
<1>8. at'[t] = "recv" => SourcesAfter(t)' = sm'.sources /\ InFlightAfter(t)' = sm'.inFlight
  <2> SUFFICES ASSUME at'[t] = "recv"
               PROVE  SourcesAfter(t)' = sm'.sources /\ InFlightAfter(t)' = sm'.inFlight
    OBVIOUS
  <2>1. SourcesAfter(t)' = sm'.sources
    BY DEF SourcesAfter
  <2>2. InFlightAfter(t)' = sm'.inFlight
    BY DEF InFlightAfter
  <2>3. QED
    BY <2>1, <2>2
<1>9. LedgerUnderWay'
  BY <1>3, <1>4, <1>7, <1>8 DEF LedgerUnderWay
<1>10. QED
  BY <1>5, <1>6, <1>9 DEF Undamaged

\* The thread that has the Demuxer is where it was if at and the ledger are the same.
LEMMA LedgerUndisturbed ==
  ASSUME LedgerUnderWay, demuxer' = demuxer, asOne' = asOne, msg' = msg, linked' = linked,
         sm'.sources = sm.sources, sm'.inFlight = sm.inFlight,
         demuxer # NoThread => at'[demuxer] = at[demuxer] /\ dead' = dead
  PROVE  LedgerUnderWay'
<1>1. PICK d : d = demuxer
  OBVIOUS
<1>2. CASE d # NoThread
  <2>1. SourcesAfter(d)' = SourcesAfter(d)
    BY <1>1, <1>2 DEF SourcesAfter
  <2>2. InFlightAfter(d)' = InFlightAfter(d)
    BY <1>1, <1>2 DEF InFlightAfter
  <2>3. QED
    BY <1>1, <1>2, <2>1, <2>2 DEF LedgerUnderWay
<1>3. CASE d = NoThread
  BY <1>1, <1>3 DEF LedgerUnderWay
<1>4. QED
  BY <1>2, <1>3

\* A thread that polls, and takes the sender after a poll.
LEMMA PollUndamaged ==
  ASSUME Typed, Undamaged, NEW t \in Threads,
         \/ TimeOutIn(t) \/ PollStart(t) \/ Probe(t) \/ FindInFlight(t)
         \/ WriteOff(t) \/ RemoveProbes(t) \/ CheckVacant(t)
         \/ Take(t) /\ demuxer # t
  PROVE  Undamaged' /\ UNCHANGED <<queue, holderVars, viaVars, sent, asOne>>
<1>1. /\ sm'.sources = sm.sources /\ sm'.inFlight = sm.inFlight /\ sm'.probes = sm.probes
      /\ UNCHANGED <<queue, holderVars, viaVars, sent, msg, linked, asOne, dead, demuxer>>
      /\ \A u \in Threads : u # t => at'[u] = at[u]
      /\ demuxer # t
  <2>1. CASE Take(t) /\ demuxer # t
    <3>1. /\ sm'.sources = sm.sources /\ sm'.inFlight = sm.inFlight /\ sm'.probes = sm.probes
      BY <2>1 DEF Take, Typed, ThreadsTypeOK, TypeOK, Machines, SM!StateMachines
    <3>2. demuxer' = demuxer /\ \A u \in Threads : u # t => at'[u] = at[u]
      BY <2>1 DEF Take, Return, Released, GoTo, Typed, ThreadsTypeOK
    <3>3. QED
      BY <2>1, <3>1, <3>2 DEF Take, Inside
  <2>2. QED
    BY <2>1, PollKeepsLedger
<1>2. demuxer \in Threads \cup {NoThread}
  BY DEF Typed, ThreadsTypeOK
<1>3. LedgerUnderWay'
  BY <1>1, <1>2, LedgerUndisturbed DEF Undamaged
<1>4. HandlersLock'
  BY <1>1 DEF Undamaged, HandlersLock
<1>5. NothingFails' /\ TakenIfVacant'
  BY <1>1 DEF Undamaged, NothingFails, TakenIfVacant, AllChannelsOpen, viaVars
<1>6. QED
  BY <1>1, <1>3, <1>4, <1>5 DEF Undamaged

\* The holders and the vias, and Faultless leaves their channels open.
LEMMA OthersUndamaged ==
  ASSUME Faultless, Undamaged, OthersStep \/ UNCHANGED allVars
  PROVE  Undamaged'
<1>1. ASSUME NEW s \in Sources, HolderStep(s) PROVE UNCHANGED <<sm, open>>
  BY <1>1 DEF HolderStep, SendData, Clone, DropCopy, FinishDrop, BeginSend, EndSend,
              Crash, ownerVars, viaVars, Faultless
<1>2. ASSUME NEW v \in Vias, ViaStep(v) PROVE UNCHANGED <<sm, open>>
  BY <1>2 DEF ViaStep, Demultiplex, Receive, FailToDeserialize, DropReceiver,
              FailArrived, CloseReceiver, ownerVars, viaVars
<1>3. ASSUME NEW r \in Receivers PROVE ~LeaveChannel(r)
  BY DEF LeaveChannel, Faultless
<1>4. UNCHANGED <<sm, open>> /\ UNCHANGED threadVars
  BY <1>1, <1>2, <1>3 DEF OthersStep, allVars, vars
<1>5. LedgerUnderWay'
  BY <1>4, LedgerUndisturbed DEF Undamaged, threadVars
<1>6. NothingFails' /\ TakenIfVacant' /\ HandlersLock'
  BY <1>4
     DEF Undamaged, NothingFails, TakenIfVacant, HandlersLock, AllChannelsOpen, threadVars
<1>7. QED
  BY <1>5, <1>6 DEF Undamaged

LEMMA UndamagedStep ==
  ASSUME Faultless, Typed, Undamaged, [ThreadsNext]_allVars
  PROVE  Undamaged'
<1>1. ASSUME NEW t \in Threads, ThreadStep(t) PROVE Undamaged'
  BY <1>1, TakeMessageUndamaged, HandlerUndamaged, PollUndamaged DEF ThreadStep
<1>2. QED
  BY <1>1, OthersUndamaged DEF ThreadsNext

LEMMA UndamagedInit ==
  ASSUME ThreadsInit
  PROVE  Undamaged
<1>1. /\ sm.maybe = TRUE /\ sm.sources = {Origin} /\ \A v \in Vias : sm.probes[v] = NoProbe
      /\ asOne = sm /\ demuxer = NoThread /\ linked = TRUE
      /\ \A t \in Threads : dead[t] = {}
      /\ \A r \in Receivers : open[r]
  BY DEF ThreadsInit, Init, SM!New
<1>2. NothingFails
  BY <1>1, LifecycleAssumption DEF NothingFails, AllChannelsOpen
<1>3. HandlersLock
  BY <1>1, ThreadsAssumption DEF HandlersLock
<1>4. TakenIfVacant
  BY <1>1 DEF TakenIfVacant, SM!Vacant
<1>5. LedgerUnderWay
  BY <1>1 DEF LedgerUnderWay
<1>6. QED
  BY <1>2, <1>3, <1>4, <1>5 DEF Undamaged

\* The owner of Lifecycle that never times out: its polls would do nothing.
Unpolled == INSTANCE LifecycleProofs WITH sm <- asOne, polling <- FALSE

LEMMA SameUnpolledMethods ==
  /\ Unpolled!Sources = Sources
  /\ Unpolled!SM!New(Origin) = SM!New(Origin)
  /\ \A x, v, p : Unpolled!SM!ToBeSent(x, v, p) = SM!ToBeSent(x, v, p)
  /\ \A x, v, s : Unpolled!SM!Received(x, v, s) = SM!Received(x, v, s)
  /\ \A x, v : Unpolled!SM!ReceiveFailed(x, v) = SM!ReceiveFailed(x, v)
  /\ \A x, s : Unpolled!SM!Disconnect(x, s) = SM!Disconnect(x, s)
BY Zenon
   DEF Unpolled!Sources, Sources, Unpolled!SM!New, SM!New, Unpolled!SM!ToBeSent,
       SM!ToBeSent, Unpolled!SM!Received, SM!Received, Unpolled!SM!ReceiveFailed,
       SM!ReceiveFailed, Unpolled!SM!Disconnect, SM!Disconnect, Unpolled!SM!WithOne,
       SM!WithOne, Unpolled!SM!WithoutOne, SM!WithoutOne, Unpolled!SM!TakeIfVacant,
       SM!TakeIfVacant, Unpolled!SM!Vacant, SM!Vacant, Unpolled!SM!NoneInFlight,
       SM!NoneInFlight

LEMMA TakesUnpolled ==
  ASSUME Typed, Undamaged, NEW t \in Threads, TakeMessage(t)
  PROVE  Unpolled!OwnerStep
<1>1. PICK m : m = Head(queue)
  OBVIOUS
<1>2. queue # <<>> /\ m \in Messages
  <2>1. queue \in Seq(Messages) /\ queue # <<>>
    BY DEF Typed, ThreadsTypeOK, TypeOK, TakeMessage
  <2>2. QED
    BY <1>1, <2>1
<1>3. linked' = TRUE
  BY TakeMessageUndamaged DEF Undamaged, NothingFails, TakeMessage
<1>4. /\ queue' = Tail(queue) /\ UNCHANGED <<holderVars, viaVars, sent>>
      /\ asOne' = HandledAsOne(m, linked')
  BY <1>1 DEF TakeMessage
<1>5. Unpolled!Handle(m.type)
  BY <1>1, <1>2, <1>4
     DEF Unpolled!Handle, Unpolled!holderVars, holderVars, Unpolled!viaVars, viaVars
<1>6. CASE m.type = "Data"
  BY <1>1, <1>4, <1>5, <1>6 DEF HandledAsOne, Unpolled!HandleData, Unpolled!OwnerStep
<1>7. CASE m.type = "Sending"
  <2>1. asOne' = SM!ToBeSent(asOne, m.via, m.via)
    BY <1>3, <1>4, <1>7 DEF HandledAsOne
  <2>2. QED
    BY <1>1, <1>5, <1>7, <2>1, SameUnpolledMethods
       DEF Unpolled!HandleSending, Unpolled!OwnerStep
<1>8. CASE m.type = "Received"
  BY <1>1, <1>4, <1>5, <1>8, SameUnpolledMethods
     DEF HandledAsOne, Unpolled!HandleReceived, Unpolled!OwnerStep
<1>9. CASE m.type = "ReceiveFailed"
  BY <1>1, <1>4, <1>5, <1>9, SameUnpolledMethods
     DEF HandledAsOne, Unpolled!HandleReceiveFailed, Unpolled!OwnerStep
<1>10. CASE m.type = "Disconnect"
  BY <1>1, <1>4, <1>5, <1>10, SameUnpolledMethods
     DEF HandledAsOne, Unpolled!HandleDisconnect, Unpolled!OwnerStep
<1>11. QED
  BY <1>2, <1>6, <1>7, <1>8, <1>9, <1>10 DEF Messages

LEMMA OthersUnpolled ==
  ASSUME OthersStep
  PROVE  Unpolled!Next
<1>1. asOne' = asOne
  BY DEF OthersStep, threadVars
<1>2. ASSUME NEW s \in Sources, HolderStep(s) PROVE Unpolled!HolderStep(s)
  <2>a. UNCHANGED ownerVars => UNCHANGED Unpolled!ownerVars
    BY <1>1 DEF Unpolled!ownerVars
  <2>1. ASSUME SendData(s) PROVE Unpolled!SendData(s)
    BY <2>1, <2>a, Zenon DEF SendData, Ready, Running, ToOwner, Data, holderVars, viaVars,
       Sources, Unpolled!SendData, Unpolled!Ready, Unpolled!Running, Unpolled!ToOwner,
       Unpolled!Data, Unpolled!holderVars, Unpolled!viaVars, Unpolled!Sources
  <2>2. ASSUME Clone(s) PROVE Unpolled!Clone(s)
    BY <2>2, <2>a, Zenon DEF Clone, Ready, Running, holderVars, viaVars, Sources,
       Unpolled!Clone, Unpolled!Ready, Unpolled!Running, Unpolled!holderVars,
       Unpolled!viaVars, Unpolled!Sources
  <2>3. ASSUME DropCopy(s) PROVE Unpolled!DropCopy(s)
    BY <2>3, <2>a, Zenon DEF DropCopy, Ready, Running, Tracked, ArrivedAt, TrackerDrop,
       holderVars, viaVars, Sources, Unpolled!DropCopy, Unpolled!Ready, Unpolled!Running,
       Unpolled!Tracked, Unpolled!ArrivedAt, Unpolled!TrackerDrop, Unpolled!holderVars,
       Unpolled!viaVars, Unpolled!Sources
  <2>4. ASSUME FinishDrop(s) PROVE Unpolled!FinishDrop(s)
    BY <2>4, <2>a, Zenon DEF FinishDrop, Running, ToOwner, Disconnect, holderVars, viaVars,
       Sources, Unpolled!FinishDrop, Unpolled!Running, Unpolled!ToOwner,
       Unpolled!Disconnect, Unpolled!holderVars, Unpolled!viaVars, Unpolled!Sources
  <2>5. ASSUME NEW v \in Vias, BeginSend(s, v) PROVE Unpolled!BeginSend(s, v)
    BY <2>5, <2>a, Zenon DEF BeginSend, Ready, Running, ToOwner, Sending, holderVars, viaVars,
       Sources, Unpolled!BeginSend, Unpolled!Ready, Unpolled!Running, Unpolled!ToOwner,
       Unpolled!Sending, Unpolled!holderVars, Unpolled!viaVars, Unpolled!Sources
  <2>6. ASSUME EndSend(s) PROVE Unpolled!EndSend(s)
    BY <2>6, <2>a, Zenon DEF EndSend, Running, Ready, Tracked, ArrivedAt, TrackerDrop,
       holderVars, viaVars, Sources, Unpolled!EndSend, Unpolled!Running, Unpolled!Ready,
       Unpolled!Tracked, Unpolled!ArrivedAt, Unpolled!TrackerDrop, Unpolled!holderVars,
       Unpolled!viaVars, Unpolled!Sources
  <2>7. ASSUME Crash(s) PROVE Unpolled!Crash(s)
    BY <2>7, <2>a, Zenon DEF Crash, holderVars, viaVars, Sources, Unpolled!Crash,
       Unpolled!holderVars, Unpolled!viaVars, Unpolled!Sources
  <2>8. QED
    BY <1>2, <2>1, <2>2, <2>3, <2>4, <2>5, <2>6, <2>7 DEF HolderStep, Unpolled!HolderStep
<1>3. ASSUME NEW v \in Vias, ViaStep(v) PROVE Unpolled!ViaStep(v)
  <2>a. UNCHANGED ownerVars => UNCHANGED Unpolled!ownerVars
    BY <1>1 DEF ownerVars, Unpolled!ownerVars
  <2>1. ASSUME Demultiplex(v) PROVE Unpolled!Demultiplex(v)
    BY <2>1, <2>a, Zenon DEF Demultiplex, Running, Tracked, ArrivedAt, TrackerDrop,
       holderVars, viaVars, Unpolled!Demultiplex, Unpolled!Running, Unpolled!Tracked,
       Unpolled!ArrivedAt, Unpolled!TrackerDrop, Unpolled!holderVars, Unpolled!viaVars
  <2>2. ASSUME Receive(v) PROVE Unpolled!Receive(v)
    BY <2>2, <2>a, Zenon DEF Receive, Ready, Running, ToOwner, Received, holderVars,
       viaVars, Unpolled!Receive, Unpolled!Ready, Unpolled!Running, Unpolled!ToOwner,
       Unpolled!Received, Unpolled!holderVars, Unpolled!viaVars
  <2>3. ASSUME FailToDeserialize(v) PROVE Unpolled!FailToDeserialize(v)
    BY <2>3, <2>a, Zenon DEF FailToDeserialize, Ready, Running, Tracked, ArrivedAt,
       TrackerDrop, holderVars, viaVars, Unpolled!FailToDeserialize, Unpolled!Ready,
       Unpolled!Running, Unpolled!Tracked, Unpolled!ArrivedAt, Unpolled!TrackerDrop,
       Unpolled!holderVars, Unpolled!viaVars
  <2>4. ASSUME DropReceiver(v) PROVE Unpolled!DropReceiver(v)
    BY <2>4, <2>a, Zenon DEF DropReceiver, Ready, Running, holderVars,
       Unpolled!DropReceiver, Unpolled!Ready, Unpolled!Running, Unpolled!holderVars
  <2>5. ASSUME FailArrived(v) PROVE Unpolled!FailArrived(v)
    BY <2>5, <2>a, Zenon DEF FailArrived, Running, ToOwner, ReceiveFailed, Tracked,
       ArrivedAt, TrackerDrop, holderVars, viaVars, Unpolled!FailArrived,
       Unpolled!Running, Unpolled!ToOwner, Unpolled!ReceiveFailed, Unpolled!Tracked,
       Unpolled!ArrivedAt, Unpolled!TrackerDrop, Unpolled!holderVars, Unpolled!viaVars
  <2>6. ASSUME CloseReceiver(v) PROVE Unpolled!CloseReceiver(v)
    BY <2>6, <2>a, Zenon DEF CloseReceiver, Running, holderVars, Unpolled!CloseReceiver,
       Unpolled!Running, Unpolled!holderVars
  <2>7. QED
    BY <1>3, <2>1, <2>2, <2>3, <2>4, <2>5, <2>6 DEF ViaStep, Unpolled!ViaStep
<1>4. ASSUME NEW r \in Receivers, LeaveChannel(r) PROVE Unpolled!LeaveChannel(r)
  BY <1>1, <1>4, Zenon
     DEF LeaveChannel, Ready, Running, ownerVars, holderVars, Unpolled!LeaveChannel,
         Unpolled!Ready, Unpolled!Running, Unpolled!ownerVars, Unpolled!holderVars
<1>5. QED
  BY <1>2, <1>3, <1>4, SameUnpolledMethods DEF OthersStep, Unpolled!Next

\* While nothing fails, every step of the threads is, in asOne, a step of that
\* owner or none: the message is handled when it is taken.
LEMMA StepUnpolled ==
  ASSUME Typed, Undamaged, [ThreadsNext]_allVars
  PROVE  [Unpolled!Next]_(Unpolled!vars)
<1>1. ASSUME NEW t \in Threads, TakeMessage(t) PROVE Unpolled!Next
  BY <1>1, TakesUnpolled DEF Unpolled!Next
<1>2. ASSUME NEW t \in Threads, ThreadStep(t), ~TakeMessage(t)
      PROVE  UNCHANGED <<queue, holderVars, viaVars, sent, asOne>>
  <2>1. CASE \/ InsertInFlight(t) \/ InsertProbe(t)
             \/ RemoveInFlight(t) \/ InsertSource(t) \/ RemoveProbe(t)
             \/ CheckSources(t) \/ RemoveSource(t) \/ CheckInFlight(t) \/ Take(t)
    BY <2>1, HandlerKeepsLedger DEF Undamaged, Inside
  <2>2. QED
    BY <1>2, <2>1, PollUndamaged DEF ThreadStep
<1>3. UNCHANGED <<queue, holderVars, viaVars, sent, asOne>> => UNCHANGED Unpolled!vars
  BY DEF holderVars, viaVars, Unpolled!vars
<1>4. UNCHANGED allVars => UNCHANGED Unpolled!vars
  BY DEF allVars, vars, threadVars, Unpolled!vars
<1>5. QED
  BY <1>1, <1>2, <1>3, <1>4, OthersUnpolled DEF ThreadsNext

\* However many threads receive, handle and poll, if nothing fails then the ledger
\* is exact once the owner has caught up and its threads are back in recv: no
\* interleaving of the critical sections loses or repeats an entry.
THEOREM ThreadsLedgerTrue ==
  ASSUME Faultless
  PROVE  ThreadsSpec => []LedgerExactAtRest
<1>1. ThreadsInit => Typed /\ Undamaged
  BY ThreadsInitTyped, UndamagedInit
<1>2. Typed /\ Undamaged /\ [ThreadsNext]_allVars => (Typed /\ Undamaged)'
  BY TypedStep, UndamagedStep
<1>3. ThreadsInit => Unpolled!Init
  BY SameUnpolledMethods DEF ThreadsInit, Init, Unpolled!Init
<1>4. Typed /\ Undamaged /\ [ThreadsNext]_allVars => [Unpolled!Next]_(Unpolled!vars)
  BY StepUnpolled
<1>5. ThreadsSpec => Unpolled!Spec
  BY <1>1, <1>2, <1>3, <1>4, PTL DEF ThreadsSpec, Unpolled!Spec
<1>6. Unpolled!Faultless
  BY DEF Faultless, Unpolled!Faultless
<1>7. Unpolled!Spec => []Unpolled!LedgerExact
  BY <1>6, Unpolled!LedgerTrue, LifecycleAssumption
     DEF Unpolled!Sources, Sources, Unpolled!IsFiniteSet, IsFiniteSet
<1>8. Typed /\ Undamaged /\ Unpolled!LedgerExact => LedgerExactAtRest
  <2> SUFFICES ASSUME Typed, Undamaged, Unpolled!LedgerExact, AtRest
               PROVE  LedgerExact
    BY DEF LedgerExactAtRest
  <2>1. demuxer = NoThread
    BY DEF Typed, ThreadsTypeOK, Undamaged, HandlersLock, HandlerLabels, AtRest
  <2>2. asOne.sources = sm.sources /\ asOne.inFlight = sm.inFlight
    BY <2>1 DEF Undamaged, LedgerUnderWay
  <2>3. \A v \in Vias : Unpolled!Cardinality(Unpolled!BeingSent(v)) = Cardinality(BeingSent(v))
    BY Zenon DEF Unpolled!BeingSent, BeingSent, Unpolled!Sources, Sources,
                 Unpolled!Cardinality, Cardinality, Unpolled!IsFiniteSet, IsFiniteSet
  <2>4. \A s \in Sources : Unpolled!Tracked(s) <=> Tracked(s)
    BY Zenon DEF Unpolled!Tracked, Tracked, Unpolled!ArrivedAt, ArrivedAt
  <2>5. QED
    BY <2>2, <2>3, <2>4, SameUnpolledMethods, BeingSentCounted
       DEF Unpolled!LedgerExact, LedgerExact, Typed, ThreadsTypeOK, TypeOK, SM!StateMachines
<1>9. QED
  BY <1>1, <1>2, <1>5, <1>7, <1>8, PTL DEF ThreadsSpec
===============================================================================
