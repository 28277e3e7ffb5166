--------------------------- MODULE LifecycleProofs ---------------------------
(***************************************************************************)
(* Proofs about Lifecycle, for any number of receivers, vias and copies.   *)
(***************************************************************************)
EXTENDS LifecycleInvariant, FiniteSetTheorems, TLAPS

-----------------------------------------------------------------------------
(* The operators of the state machine stay within its type.                *)

Machines == SM!StateMachines(Probes)

\* A bag with one element more or less is a bag.
LEMMA BagsTyped ==
  ASSUME NEW bag \in [Vias -> Nat], NEW v \in Vias
  PROVE  /\ SM!WithOne(bag, v) \in [Vias -> Nat]
         /\ SM!WithoutOne(bag, v) \in [Vias -> Nat]
BY DEF SM!WithOne, SM!WithoutOne

\* TakeIfVacant keeps the type, and all fields but maybe.
LEMMA TakeTyped ==
  ASSUME NEW x \in Machines
  PROVE  /\ SM!TakeIfVacant(x) \in Machines
         /\ SM!TakeIfVacant(x).sources = x.sources
         /\ SM!TakeIfVacant(x).inFlight = x.inFlight
         /\ SM!TakeIfVacant(x).maybe = (x.maybe /\ ~SM!Vacant(x))
BY DEF Machines, SM!StateMachines, SM!TakeIfVacant

\* to_be_sent, received and receive_failed keep the type of the state machine ...
LEMMA StateMachineTyped ==
  ASSUME NEW x \in Machines, NEW v \in Vias, NEW s \in Sources
  PROVE  /\ \A p \in Probes : SM!ToBeSent(x, v, p) \in Machines
         /\ SM!Received(x, v, s) \in Machines
         /\ SM!ReceiveFailed(x, v) \in Machines
<1>0. /\ x.maybe \in BOOLEAN /\ x.sources \in SUBSET Sources
      /\ x.inFlight \in [Vias -> Nat]
      /\ x.probes \in [Vias -> Probes \cup {NoProbe}]
  BY DEF Machines, SM!StateMachines
<1>a. /\ SM!WithOne(x.inFlight, v) \in [Vias -> Nat]
      /\ SM!WithoutOne(x.inFlight, v) \in [Vias -> Nat]
  BY <1>0, BagsTyped
<1>1. ASSUME NEW p \in Probes PROVE SM!ToBeSent(x, v, p) \in Machines
  <2>1. [x.probes EXCEPT ![v] = p] \in [Vias -> Probes \cup {NoProbe}]
    BY <1>0
  <2>2. QED
    BY <1>0, <1>a, <2>1 DEF SM!ToBeSent, Machines, SM!StateMachines
<1>2. SM!Received(x, v, s) \in Machines
  <2>1. [x.probes EXCEPT ![v] = NoProbe] \in [Vias -> Probes \cup {NoProbe}]
    BY <1>0
  <2>2. QED
    BY <1>0, <1>a, <2>1 DEF SM!Received, Machines, SM!StateMachines
<1>3. SM!ReceiveFailed(x, v) \in Machines
  <2>1. [x EXCEPT !.inFlight = SM!WithoutOne(x.inFlight, v)] \in Machines
    BY <1>0, <1>a DEF Machines, SM!StateMachines
  <2>2. QED
    BY <2>1, TakeTyped DEF SM!ReceiveFailed
<1>4. QED
  BY <1>1, <1>2, <1>3

\* ... and so does disconnect ...
LEMMA DisconnectTyped ==
  ASSUME NEW x \in Machines, NEW s \in Sources
  PROVE  SM!Disconnect(x, s) \in Machines
<1>1. [x EXCEPT !.sources = x.sources \ {s}] \in Machines
  BY DEF Machines, SM!StateMachines
<1>2. QED
  BY <1>1, TakeTyped DEF SM!Disconnect

\* ... and poll, whichever probes fail.
LEMMA PollTyped ==
  ASSUME NEW x \in Machines, NEW failing
  PROVE  SM!Poll(x, failing) \in Machines
<1> DEFINE lost == SM!LostVias(x, failing)
<1>1. /\ [v \in Vias |-> IF v \in lost THEN 0 ELSE x.inFlight[v]] \in [Vias -> Nat]
      /\ [v \in Vias |-> IF v \in lost THEN NoProbe ELSE x.probes[v]]
           \in [Vias -> Probes \cup {NoProbe}]
  BY DEF Machines, SM!StateMachines
<1>2. SM!WriteOff(x, lost) \in Machines
  BY <1>1 DEF SM!WriteOff, Machines, SM!StateMachines
<1>3. QED
  BY <1>2, TakeTyped DEF SM!Poll

-----------------------------------------------------------------------------
(* Type correctness.                                                       *)

\* What holders send to the owner are messages.
LEMMA MessagesTyped ==
  /\ Data \in Messages
  /\ \A v \in Vias : Sending(v) \in Messages /\ ReceiveFailed(v) \in Messages
  /\ \A v \in Vias, r \in Receivers : Received(v, r) \in Messages
  /\ \A s \in Sources : Disconnect(s) \in Messages
BY DEF Messages, Data, Sending, ReceiveFailed, Received, Disconnect

\* The owner's channel holds messages whatever is added to it.
LEMMA ToOwnerTyped ==
  ASSUME TypeOK, NEW m \in Messages, ToOwner(m)
  PROVE  queue' \in Seq(Messages)
BY DEF TypeOK, ToOwner

\* A via ends at an IPC receiver, which is a source too.
LEMMA AtTyped ==
  ASSUME NEW v \in Vias
  PROVE  At[v] \in Receivers /\ At[v] \in Sources
BY LifecycleAssumption DEF Sources

\* The drop of a tracker leaves a count of drops.
LEMMA TrackerDropTyped ==
  ASSUME TypeOK, NEW s \in Sources, TrackerDrop(s)
  PROVE  dropping' \in [Sources -> Nat]
BY DEF TypeOK, TrackerDrop

\* The initial state is of its type.
LEMMA InitTyped == Init => TypeOK
<1> SUFFICES ASSUME Init PROVE TypeOK
  OBVIOUS
<1>1. Origin \in Sources
  BY DEF Sources
<1>2. sm \in SM!StateMachines(Probes)
  BY <1>1 DEF Init, SM!New, SM!StateMachines
<1>3. queue \in Seq(Messages)
  BY DEF Init
<1>4. held \in [Sources -> Nat] /\ receiver \in [Vias -> {"open", "closing", "closed"}]
  BY DEF Init
<1>5. QED
  BY <1>2, <1>3, <1>4 DEF Init, TypeOK

\* A step of a holder keeps all types; the copy EndSend gives up was held.
LEMMA HolderTyped ==
  ASSUME TypeOK, SendersHold, NEW s \in Sources, HolderStep(s)
  PROVE  TypeOK'
<1> USE DEF ownerVars, holderVars, viaVars
<1>1. CASE SendData(s)
  <2>1. queue' \in Seq(Messages)
    BY <1>1, MessagesTyped, ToOwnerTyped DEF SendData
  <2>2. QED
    BY <1>1, <2>1 DEF SendData, TypeOK
<1>2. CASE Clone(s)
  BY <1>2 DEF Clone, TypeOK
<1>3. CASE DropCopy(s)
  <2>1. held' \in [Sources -> Nat]
    BY <1>3 DEF DropCopy, TypeOK
  <2>2. dropping' \in [Sources -> Nat]
    BY <1>3, TrackerDropTyped DEF DropCopy
  <2>3. QED
    BY <1>3, <2>1, <2>2 DEF DropCopy, TypeOK
<1>4. CASE FinishDrop(s)
  <2>1. queue' \in Seq(Messages)
    BY <1>4, MessagesTyped, ToOwnerTyped DEF FinishDrop
  <2>2. QED
    BY <1>4, <2>1 DEF FinishDrop, TypeOK
<1>5. ASSUME NEW v \in Vias, BeginSend(s, v) PROVE TypeOK'
  <2>1. queue' \in Seq(Messages)
    BY <1>5, MessagesTyped, ToOwnerTyped DEF BeginSend
  <2>2. QED
    BY <1>5, <2>1 DEF BeginSend, TypeOK
<1>6. CASE EndSend(s)
  <2>1. held' \in [Sources -> Nat]
    BY <1>6 DEF EndSend, TypeOK, SendersHold
  <2>2. transit' \in [Vias -> Nat]
    BY <1>6 DEF EndSend, TypeOK
  <2>3. dropping' \in [Sources -> Nat]
    BY <1>6, TrackerDropTyped DEF EndSend
  <2>4. QED
    BY <1>6, <2>1, <2>2, <2>3 DEF EndSend, TypeOK
<1>7. CASE Crash(s)
  <2>1. transit' \in [Vias -> Nat] /\ arrived' \in [Vias -> Nat]
    BY <1>7 DEF Crash, TypeOK
  <2>2. open' \in [Receivers -> BOOLEAN]
    BY <1>7 DEF Crash, TypeOK
  <2>3. QED
    BY <1>7, <2>1, <2>2 DEF Crash, TypeOK
<1>8. QED
  BY <1>1, <1>2, <1>3, <1>4, <1>5, <1>6, <1>7 DEF HolderStep

\* A step at the other end of a via keeps all types.
LEMMA ViaTyped ==
  ASSUME TypeOK, NEW v \in Vias, ViaStep(v)
  PROVE  TypeOK'
<1> USE DEF ownerVars, holderVars, viaVars
<1>1. CASE Demultiplex(v)
  <2>1. transit' \in [Vias -> Nat] /\ arrived' \in [Vias -> Nat]
    <3>1. transit[v] \in Nat /\ transit[v] > 0 /\ arrived[v] \in Nat
      BY <1>1 DEF Demultiplex, TypeOK
    <3>2. /\ [transit EXCEPT ![v] = @ - 1] \in [Vias -> Nat]
          /\ [arrived EXCEPT ![v] = @ + 1] \in [Vias -> Nat]
      BY <3>1 DEF TypeOK
    <3>3. QED
      BY <1>1, <3>2 DEF Demultiplex, TypeOK
  <2>2. dropping' \in [Sources -> Nat]
    BY <1>1, AtTyped, TrackerDropTyped DEF Demultiplex, TypeOK
  <2>3. QED
    BY <1>1, <2>1, <2>2 DEF Demultiplex, TypeOK
<1>2. CASE Receive(v)
  <2>1. queue' \in Seq(Messages)
    BY <1>2, AtTyped, MessagesTyped, ToOwnerTyped DEF Receive
  <2>2. held' \in [Sources -> Nat] /\ arrived' \in [Vias -> Nat]
    BY <1>2, AtTyped DEF Receive, TypeOK
  <2>3. QED
    BY <1>2, <2>1, <2>2 DEF Receive, TypeOK
<1>3. CASE FailToDeserialize(v)
  <2>1. arrived' \in [Vias -> Nat]
    BY <1>3 DEF FailToDeserialize, TypeOK
  <2>2. dropping' \in [Sources -> Nat]
    BY <1>3, AtTyped, TrackerDropTyped DEF FailToDeserialize
  <2>3. QED
    BY <1>3, <2>1, <2>2 DEF FailToDeserialize, TypeOK
<1>4. CASE DropReceiver(v)
  BY <1>4 DEF DropReceiver, TypeOK
<1>5. CASE FailArrived(v)
  <2>1. queue' \in Seq(Messages)
    BY <1>5, MessagesTyped, ToOwnerTyped DEF FailArrived
  <2>2. arrived' \in [Vias -> Nat]
    BY <1>5 DEF FailArrived, TypeOK
  <2>3. dropping' \in [Sources -> Nat]
    BY <1>5, AtTyped, TrackerDropTyped DEF FailArrived
  <2>4. QED
    BY <1>5, <2>1, <2>2, <2>3 DEF FailArrived, TypeOK
<1>6. CASE CloseReceiver(v)
  BY <1>6 DEF CloseReceiver, TypeOK
<1>7. QED
  BY <1>1, <1>2, <1>3, <1>4, <1>5, <1>6 DEF ViaStep

\* Leaving an IPC channel keeps all types.
LEMMA LeaveTyped ==
  ASSUME TypeOK, NEW r \in Receivers, LeaveChannel(r)
  PROVE  TypeOK'
BY DEF LeaveChannel, TypeOK, ownerVars, holderVars, viaVars

\* What the owner takes off its channel is a message of one of five kinds.
LEMMA HandleTyped ==
  ASSUME TypeOK, NEW type, Handle(type)
  PROVE  /\ Head(queue) \in Messages
         /\ queue' \in Seq(Messages)
         /\ sm' \in Machines => TypeOK'
<1>1. Head(queue) \in Messages /\ queue' \in Seq(Messages)
  BY DEF Handle, TypeOK
<1>2. QED
  BY <1>1 DEF Handle, TypeOK, Machines, holderVars, viaVars

\* The vias and sources in messages are such.
LEMMA HeadTyped ==
  ASSUME NEW m \in Messages
  PROVE  /\ m.type \in {"Sending", "ReceiveFailed", "Received"} => m.via \in Vias
         /\ m.type = "Received" => m.source \in Receivers /\ m.source \in Sources
         /\ m.type = "Disconnect" => m.source \in Sources
BY DEF Messages, Sources

\* A step of the owner keeps all types.
LEMMA OwnerTyped ==
  ASSUME TypeOK, OwnerStep
  PROVE  TypeOK'
<1>0. sm \in Machines
  BY DEF TypeOK, Machines
<1>1. CASE HandleData
  BY <1>0, <1>1, HandleTyped DEF HandleData
<1>2. CASE HandleSending
  <2>1. Head(queue) \in Messages /\ Head(queue).type = "Sending"
    BY <1>2, HandleTyped DEF HandleSending, Handle
  <2>2. Head(queue).via \in Vias
    BY <2>1, HeadTyped
  <2>3. SM!ToBeSent(sm, Head(queue).via, Head(queue).via) \in Machines
    BY <1>0, <2>2, StateMachineTyped DEF Probes, Sources
  <2>4. SM!ReceiveFailed(SM!ToBeSent(sm, Head(queue).via, FailedProbe), Head(queue).via)
          \in Machines
    <3>1. SM!ToBeSent(sm, Head(queue).via, FailedProbe) \in Machines
      BY <1>0, <2>2, StateMachineTyped DEF Probes, Sources
    <3>2. QED
      BY <3>1, <2>2, StateMachineTyped DEF Sources
  <2>5. sm' \in Machines
    BY <1>2, <2>3, <2>4 DEF HandleSending
  <2>6. QED
    BY <1>2, <2>5, HandleTyped DEF HandleSending
<1>3. CASE HandleReceived
  <2>1. Head(queue) \in Messages /\ Head(queue).type = "Received"
    BY <1>3, HandleTyped DEF HandleReceived, Handle
  <2>2. Head(queue).via \in Vias /\ Head(queue).source \in Sources
    BY <2>1, HeadTyped
  <2>3. sm' \in Machines
    BY <1>0, <1>3, <2>2, StateMachineTyped DEF HandleReceived
  <2>4. QED
    BY <1>3, <2>3, HandleTyped DEF HandleReceived
<1>4. CASE HandleReceiveFailed
  <2>1. Head(queue) \in Messages /\ Head(queue).type = "ReceiveFailed"
    BY <1>4, HandleTyped DEF HandleReceiveFailed, Handle
  <2>2. Head(queue).via \in Vias
    BY <2>1, HeadTyped
  <2>3. sm' \in Machines
    BY <1>0, <1>4, <2>2, StateMachineTyped DEF HandleReceiveFailed, Sources
  <2>4. QED
    BY <1>4, <2>3, HandleTyped DEF HandleReceiveFailed
<1>5. CASE HandleDisconnect
  <2>1. Head(queue) \in Messages /\ Head(queue).type = "Disconnect"
    BY <1>5, HandleTyped DEF HandleDisconnect, Handle
  <2>2. Head(queue).source \in Sources
    BY <2>1, HeadTyped
  <2>3. sm' \in Machines
    BY <1>0, <1>5, <2>2, DisconnectTyped DEF HandleDisconnect
  <2>4. QED
    BY <1>5, <2>3, HandleTyped DEF HandleDisconnect
<1>6. CASE TimeOut
  BY <1>6 DEF TimeOut, TypeOK, holderVars, viaVars
<1>7. CASE Poll
  <2>1. sm' \in Machines
    BY <1>0, <1>7, PollTyped DEF Poll
  <2>2. QED
    BY <1>7, <2>1 DEF Poll, TypeOK, Machines, holderVars, viaVars
<1>8. QED
  BY <1>1, <1>2, <1>3, <1>4, <1>5, <1>6, <1>7 DEF OwnerStep

\* Only the holder's own steps change what it is sending; another via's
\* receiver only adds copies.
LEMMA SendersHoldStep ==
  ASSUME TypeOK, SendersHold, [Next]_vars
  PROVE  SendersHold'
<1> USE DEF SendersHold, TypeOK, ownerVars, holderVars, viaVars
<1>1. ASSUME NEW s \in Sources, HolderStep(s) PROVE SendersHold'
  <2>1. CASE SendData(s)
    BY <2>1 DEF SendData
  <2>2. CASE Clone(s)
    BY <2>2 DEF Clone
  <2>3. CASE DropCopy(s)
    BY <2>3 DEF DropCopy
  <2>4. CASE FinishDrop(s)
    BY <2>4 DEF FinishDrop
  <2>5. ASSUME NEW v \in Vias, BeginSend(s, v) PROVE SendersHold'
    BY <2>5 DEF BeginSend
  <2>6. CASE EndSend(s)
    BY <2>6 DEF EndSend
  <2>7. CASE Crash(s)
    BY <2>7 DEF Crash
  <2>8. QED
    BY <1>1, <2>1, <2>2, <2>3, <2>4, <2>5, <2>6, <2>7 DEF HolderStep
<1>2. ASSUME NEW v \in Vias, ViaStep(v) PROVE SendersHold'
  <2>1. CASE Receive(v)
    BY <2>1, AtTyped DEF Receive
  <2>2. CASE ~Receive(v)
    BY <1>2, <2>2 DEF ViaStep, Demultiplex, FailToDeserialize, DropReceiver,
                      FailArrived, CloseReceiver
  <2>3. QED
    BY <2>1, <2>2
<1>3. ASSUME NEW r \in Receivers, LeaveChannel(r) PROVE SendersHold'
  BY <1>3 DEF LeaveChannel
<1>4. CASE OwnerStep
  BY <1>4 DEF OwnerStep, HandleData, HandleSending, HandleReceived,
              HandleReceiveFailed, HandleDisconnect, Handle, TimeOut, Poll
<1>5. CASE UNCHANGED vars
  BY <1>5 DEF vars
<1>6. QED
  BY <1>1, <1>2, <1>3, <1>4, <1>5 DEF Next

\* Lifecycle's TypeOK: the owner's state machine, the messages and the counts
\* of copies are what their types say, in every reachable state.
THEOREM TypeCorrect == Spec => [](TypeOK /\ SendersHold)
<1>1. Init => TypeOK /\ SendersHold
  <2>1. Init => SendersHold
    BY DEF Init, SendersHold
  <2>2. QED
    BY <2>1, InitTyped
<1>2. TypeOK /\ SendersHold /\ [Next]_vars => (TypeOK /\ SendersHold)'
  <2> SUFFICES ASSUME TypeOK, SendersHold, [Next]_vars PROVE TypeOK'
    BY SendersHoldStep
  <2>1. CASE UNCHANGED vars
    BY <2>1 DEF vars, TypeOK
  <2>2. QED
    BY <2>1, HolderTyped, ViaTyped, LeaveTyped, OwnerTyped DEF Next
<1>3. QED
  BY <1>1, <1>2, PTL DEF Spec

-----------------------------------------------------------------------------
(* Single-threaded holders finish the drop of a tracker before they touch  *)
(* the subsender again.                                                    *)

\* A step that gives up a copy at s, in a thread that was not dropping.
LEMMA TrackerDropFinal ==
  ASSUME TypeOK, DropsAreFinal, NEW s \in Sources, dropping[s] = 0, TrackerDrop(s),
         \A t \in Sources : t # s => (Tracked(t)' => Tracked(t))
  PROVE  DropsAreFinal'
<1> SUFFICES ASSUME NEW t \in Sources, dropping'[t] > 0 PROVE ~Tracked(t)'
  BY DEF DropsAreFinal
<1>1. CASE t = s
  BY <1>1 DEF TrackerDrop, TypeOK
<1>2. CASE t # s
  <2>1. dropping'[t] = dropping[t]
    BY <1>2 DEF TrackerDrop, TypeOK
  <2>2. QED
    BY <1>2, <2>1 DEF DropsAreFinal
<1>3. QED
  BY <1>1, <1>2

\* With one thread in each process, a tracker under way out is not used again.
LEMMA DropsAreFinalStep ==
  ASSUME Threaded = {}, TypeOK, SendersHold, DropsAreFinal, [Next]_vars
  PROVE  DropsAreFinal'
<1> USE DEF ownerVars, holderVars, viaVars
<1>1. ASSUME NEW s \in Sources, HolderStep(s) PROVE DropsAreFinal'
  <2>1. CASE SendData(s)
    BY <2>1 DEF SendData, DropsAreFinal, Tracked, ArrivedAt
  <2>2. CASE Clone(s)
    BY <2>2 DEF Clone, DropsAreFinal, Tracked, ArrivedAt, Ready, Running, TypeOK
  <2>3. CASE DropCopy(s)
    <3>1. dropping[s] = 0 /\ TrackerDrop(s)
      BY <2>3 DEF DropCopy, Ready, Running
    <3>2. \A t \in Sources : t # s => (Tracked(t)' => Tracked(t))
      BY <2>3 DEF DropCopy, Tracked, ArrivedAt, TypeOK
    <3>3. QED
      BY <3>1, <3>2, TrackerDropFinal
  <2>4. CASE FinishDrop(s)
    BY <2>4 DEF FinishDrop, DropsAreFinal, Tracked, ArrivedAt, TypeOK
  <2>5. ASSUME NEW v \in Vias, BeginSend(s, v) PROVE DropsAreFinal'
    BY <2>5 DEF BeginSend, DropsAreFinal, Tracked, ArrivedAt
  <2>6. CASE EndSend(s)
    <3>1. dropping[s] = 0 /\ TrackerDrop(s)
      BY <2>6 DEF EndSend, DropsAreFinal, SendersHold, Tracked, TypeOK
    <3>2. \A t \in Sources : t # s => (Tracked(t)' => Tracked(t))
      BY <2>6 DEF EndSend, Tracked, ArrivedAt, TypeOK
    <3>3. QED
      BY <3>1, <3>2, TrackerDropFinal
  <2>7. CASE Crash(s)
    BY <2>7 DEF Crash, DropsAreFinal, Tracked, ArrivedAt, TypeOK
  <2>8. QED
    BY <1>1, <2>1, <2>2, <2>3, <2>4, <2>5, <2>6, <2>7 DEF HolderStep
<1>2. ASSUME NEW v \in Vias, ViaStep(v) PROVE DropsAreFinal'
  <2>0. At[v] \in Sources
    BY AtTyped
  <2>1. CASE Demultiplex(v)
    <3>1. dropping[At[v]] = 0
      BY <2>1 DEF Demultiplex, Running
    <3>2. CASE receiver[v] # "closed"
      <4>1. \A t \in Sources : t # At[v] => (Tracked(t)' => Tracked(t))
        BY <2>1, <3>2 DEF Demultiplex, Tracked, ArrivedAt, TypeOK
      <4>2. QED
        BY <2>1, <3>1, <3>2, <4>1 DEF Demultiplex, DropsAreFinal, TypeOK
    <3>3. CASE receiver[v] = "closed"
      <4>1. TrackerDrop(At[v]) /\ \A t \in Sources : Tracked(t)' => Tracked(t)
        BY <2>1, <3>3 DEF Demultiplex, Tracked, ArrivedAt
      <4>2. QED
        BY <2>0, <3>1, <4>1, TrackerDropFinal
    <3>4. QED
      BY <3>2, <3>3
  <2>2. CASE Receive(v)
    <3>1. dropping[At[v]] = 0
      BY <2>2 DEF Receive, Ready, Running
    <3>2. \A t \in Sources : t # At[v] => (Tracked(t)' => Tracked(t))
      BY <2>2 DEF Receive, Tracked, ArrivedAt, TypeOK
    <3>3. QED
      BY <2>2, <3>1, <3>2 DEF Receive, DropsAreFinal, TypeOK
  <2>3. CASE FailToDeserialize(v)
    <3>1. dropping[At[v]] = 0 /\ TrackerDrop(At[v])
      BY <2>3 DEF FailToDeserialize, Ready, Running
    <3>2. \A t \in Sources : t # At[v] => (Tracked(t)' => Tracked(t))
      BY <2>3 DEF FailToDeserialize, Tracked, ArrivedAt, TypeOK
    <3>3. QED
      BY <2>0, <3>1, <3>2, TrackerDropFinal
  <2>4. CASE DropReceiver(v)
    BY <2>4 DEF DropReceiver, DropsAreFinal, Tracked, ArrivedAt
  <2>5. CASE FailArrived(v)
    <3>1. dropping[At[v]] = 0 /\ TrackerDrop(At[v])
      BY <2>5 DEF FailArrived, Running
    <3>2. \A t \in Sources : t # At[v] => (Tracked(t)' => Tracked(t))
      BY <2>5 DEF FailArrived, Tracked, ArrivedAt, TypeOK
    <3>3. QED
      BY <2>0, <3>1, <3>2, TrackerDropFinal
  <2>6. CASE CloseReceiver(v)
    BY <2>6 DEF CloseReceiver, DropsAreFinal, Tracked, ArrivedAt
  <2>7. QED
    BY <1>2, <2>1, <2>2, <2>3, <2>4, <2>5, <2>6 DEF ViaStep
<1>3. ASSUME NEW r \in Receivers, LeaveChannel(r) PROVE DropsAreFinal'
  BY <1>3 DEF LeaveChannel, DropsAreFinal, Tracked, ArrivedAt
<1>4. CASE OwnerStep
  BY <1>4 DEF OwnerStep, HandleData, HandleSending, HandleReceived,
              HandleReceiveFailed, HandleDisconnect, Handle, TimeOut, Poll,
              DropsAreFinal, Tracked, ArrivedAt
<1>5. CASE UNCHANGED vars
  BY <1>5 DEF vars, DropsAreFinal, Tracked, ArrivedAt
<1>6. QED
  BY <1>1, <1>2, <1>3, <1>4, <1>5 DEF Next

-----------------------------------------------------------------------------
(* How ledgers change.                                                     *)

\* What each message does to a ledger.
LEMMA AfterCases ==
  ASSUME NEW l \in Ledgers, NEW v \in Vias, NEW r \in Receivers, NEW s \in Sources
  PROVE  /\ After(l, Sending(v)) =
              [sources |-> l.sources, inFlight |-> SM!WithOne(l.inFlight, v)]
         /\ After(l, ReceiveFailed(v)) =
              [sources |-> l.sources, inFlight |-> SM!WithoutOne(l.inFlight, v)]
         /\ After(l, Received(v, r)) =
              [sources |-> l.sources \cup {r}, inFlight |-> SM!WithoutOne(l.inFlight, v)]
BY DEF After, Sending, ReceiveFailed, Received

\* A payload does not change a ledger, and a Disconnect only its sources.
LEMMA AfterNoVia ==
  ASSUME NEW l \in Ledgers, NEW s \in Sources
  PROVE  /\ After(l, Data) = l
         /\ After(l, Disconnect(s)) =
              [sources |-> l.sources \ {s}, inFlight |-> l.inFlight]
BY DEF After, Data, Disconnect, Ledgers

\* The ledger after any message is a ledger.
LEMMA AfterTyped ==
  ASSUME NEW l \in Ledgers, NEW m \in Messages
  PROVE  After(l, m) \in Ledgers
<1>0. l.sources \in SUBSET Sources /\ l.inFlight \in [Vias -> Nat]
  BY DEF Ledgers
<1>1. CASE m.type = "Data"
  BY <1>0, <1>1 DEF After, Ledgers
<1>2. CASE m.type = "Sending"
  <2>1. SM!WithOne(l.inFlight, m.via) \in [Vias -> Nat]
    BY <1>0, <1>2, HeadTyped, BagsTyped
  <2>2. QED
    BY <1>0, <1>2, <2>1 DEF After, Ledgers
<1>3. CASE m.type = "ReceiveFailed"
  <2>1. SM!WithoutOne(l.inFlight, m.via) \in [Vias -> Nat]
    BY <1>0, <1>3, HeadTyped, BagsTyped
  <2>2. QED
    BY <1>0, <1>3, <2>1 DEF After, Ledgers
<1>4. CASE m.type = "Received"
  <2>1. SM!WithoutOne(l.inFlight, m.via) \in [Vias -> Nat]
    BY <1>0, <1>4, HeadTyped, BagsTyped
  <2>2. m.source \in Sources
    BY <1>4, HeadTyped
  <2>3. QED
    BY <1>0, <1>4, <2>1, <2>2 DEF After, Ledgers
<1>5. CASE m.type = "Disconnect"
  BY <1>0, <1>5 DEF After, Ledgers
<1>6. QED
  BY <1>1, <1>2, <1>3, <1>4, <1>5 DEF Messages

\* A holder adds a message to the owner's channel: the future grows.
LEMMA FutureGrows ==
  ASSUME TypeOK, NEW future, IsFuture(future), FutureSafe(future),
         NEW m \in Messages, ToOwner(m), UNCHANGED sm,
         NEW last, last = future[Len(queue)],
         SM!Vacant(last) => m.type # "Data" /\ SM!Vacant(After(last, m)),
         m.type \in {"Received", "ReceiveFailed"} => last.inFlight[m.via] > 0,
         NEW next, next = After(last, m), Covers(next)'
  PROVE  \E f \in [0 .. Len(queue') -> Ledgers] : IsFuture(f)' /\ FutureSafe(f)'
<1>0. PICK n \in Nat : n = Len(queue)
  BY DEF TypeOK
<1>1. Len(queue') = n + 1 /\ LedgerNow' = LedgerNow
  BY <1>0 DEF TypeOK, ToOwner, LedgerNow
<1>2. \A i \in 1 .. n : queue'[i] = queue[i]
  BY <1>0 DEF TypeOK, ToOwner
<1>3. queue'[n + 1] = m
  BY <1>0 DEF TypeOK, ToOwner
<1>4. future \in [0 .. n -> Ledgers] /\ last = future[n]
  BY <1>0 DEF IsFuture
<1>5. next \in Ledgers
  BY <1>4, AfterTyped
<1>6. PICK f \in [0 .. n + 1 -> Ledgers] :
        /\ \A i \in 0 .. n : f[i] = future[i]
        /\ f[n + 1] = next
  <2> DEFINE g == [i \in 0 .. n + 1 |-> IF i <= n THEN future[i] ELSE next]
  <2>1. g \in [0 .. n + 1 -> Ledgers]
    BY <1>4, <1>5
  <2>2. (\A i \in 0 .. n : g[i] = future[i]) /\ g[n + 1] = next
    OBVIOUS
  <2>3. QED
    BY <2>1, <2>2
<1>7. IsFuture(f)'
  <2>1. f[0] = LedgerNow'
    BY <1>0, <1>1, <1>6 DEF IsFuture
  <2>2. ASSUME NEW i \in 1 .. n + 1 PROVE f[i] = After(f[i-1], queue'[i])
    <3>1. CASE i \in 1 .. n
      BY <1>0, <1>2, <1>6, <3>1 DEF IsFuture
    <3>2. CASE i = n + 1
      BY <1>1, <1>3, <1>6, <3>2
    <3>3. QED
      BY <1>1, <3>1, <3>2
  <2>3. QED
    BY <1>1, <2>1, <2>2 DEF IsFuture
<1>8. VacantForGood(f)'
  <2> SUFFICES ASSUME NEW i \in 0 .. n + 1, NEW j \in 0 .. n + 1,
                      i <= j, SM!Vacant(f[i])
               PROVE  SM!Vacant(f[j])
    BY <1>1 DEF VacantForGood, SM!Vacant, SM!NoneInFlight
  <2>1. CASE j \in 0 .. n
    BY <1>0, <1>6, <2>1 DEF FutureSafe, VacantForGood
  <2>2. CASE i \in 0 .. n /\ j = n + 1
    <3>1. SM!Vacant(last)
      BY <1>0, <1>4, <1>6, <2>2 DEF FutureSafe, VacantForGood
    <3>2. QED
      BY <1>6, <2>2, <3>1
  <2>3. QED
    BY <1>1, <2>1, <2>2
<1>9. NoPayloadBehindVacant(f)'
  <2> SUFFICES ASSUME NEW i \in 1 .. n + 1, queue'[i].type = "Data"
               PROVE  ~SM!Vacant(f[i-1])
    BY <1>1 DEF NoPayloadBehindVacant, SM!Vacant, SM!NoneInFlight
  <2>1. CASE i \in 1 .. n
    BY <1>0, <1>2, <1>6, <2>1 DEF FutureSafe, NoPayloadBehindVacant
  <2>2. CASE i = n + 1
    BY <1>3, <1>4, <1>6, <2>2
  <2>3. QED
    BY <1>1, <2>1, <2>2
<1>10. ReceiptsFindEntries(f)'
  <2> SUFFICES ASSUME NEW i \in 1 .. n + 1,
                      queue'[i].type \in {"Received", "ReceiveFailed"}
               PROVE  f[i-1].inFlight[queue'[i].via] > 0
    BY <1>1 DEF ReceiptsFindEntries
  <2>1. CASE i \in 1 .. n
    BY <1>0, <1>2, <1>6, <2>1 DEF FutureSafe, ReceiptsFindEntries
  <2>2. CASE i = n + 1
    BY <1>3, <1>4, <1>6, <2>2
  <2>3. QED
    BY <1>1, <2>1, <2>2
<1>11. Covers(f[Len(queue)])'
  BY <1>1, <1>6 DEF Covers
<1>12. QED
  BY <1>1, <1>6, <1>7, <1>8, <1>9, <1>10, <1>11 DEF FutureSafe

\* Neither the owner's channel nor its ledger changes.
LEMMA FutureStays ==
  ASSUME TypeOK, NEW future, IsFuture(future), FutureSafe(future),
         UNCHANGED <<queue, LedgerNow>>,
         NEW last, last = future[Len(queue)], Covers(last)'
  PROVE  \E f \in [0 .. Len(queue') -> Ledgers] : IsFuture(f)' /\ FutureSafe(f)'
<1>1. IsFuture(future)'
  BY DEF IsFuture
<1>2. VacantForGood(future)' /\ NoPayloadBehindVacant(future)' /\ ReceiptsFindEntries(future)'
  BY DEF FutureSafe, VacantForGood, NoPayloadBehindVacant, ReceiptsFindEntries,
         SM!Vacant, SM!NoneInFlight
<1>3. Covers(future[Len(queue)])'
  BY DEF Covers
<1>4. QED
  BY <1>1, <1>2, <1>3 DEF FutureSafe, IsFuture

\* The owner handles the first message: the future shrinks.
LEMMA FutureShrinks ==
  ASSUME TypeOK, NEW future, IsFuture(future), FutureSafe(future),
         queue # <<>>, queue' = Tail(queue), LedgerNow' = future[1],
         NEW last, last = future[Len(queue)], Covers(last)'
  PROVE  \E f \in [0 .. Len(queue') -> Ledgers] : IsFuture(f)' /\ FutureSafe(f)'
<1>0. PICK n \in Nat \ {0} : n = Len(queue)
  BY DEF TypeOK
<1>1. Len(queue') = n - 1
  BY <1>0 DEF TypeOK
<1>2. \A i \in 1 .. n - 1 : queue'[i] = queue[i + 1]
  BY <1>0 DEF TypeOK
<1>3. future \in [0 .. n -> Ledgers]
  BY <1>0 DEF IsFuture
<1>4. PICK f \in [0 .. n - 1 -> Ledgers] : \A i \in 0 .. n - 1 : f[i] = future[i + 1]
  <2> DEFINE g == [i \in 0 .. n - 1 |-> future[i + 1]]
  <2>1. g \in [0 .. n - 1 -> Ledgers] /\ \A i \in 0 .. n - 1 : g[i] = future[i + 1]
    BY <1>3
  <2>2. QED
    BY <2>1
<1>5. IsFuture(f)'
  <2>1. f[0] = LedgerNow'
    BY <1>1, <1>4
  <2>2. ASSUME NEW i \in 1 .. n - 1 PROVE f[i] = After(f[i-1], queue'[i])
    <3>1. f[i] = future[i + 1] /\ f[i-1] = future[i] /\ i + 1 \in 1 .. n
      BY <1>1, <1>4
    <3>2. future[i + 1] = After(future[i], queue[i + 1])
      BY <1>0, <3>1 DEF IsFuture
    <3>3. QED
      BY <1>2, <3>1, <3>2
  <2>3. QED
    BY <1>1, <1>4, <2>1, <2>2 DEF IsFuture
<1>6. VacantForGood(f)'
  <2> SUFFICES ASSUME NEW i \in 0 .. n - 1, NEW j \in 0 .. n - 1,
                      i <= j, SM!Vacant(f[i])
               PROVE  SM!Vacant(f[j])
    BY <1>1 DEF VacantForGood, SM!Vacant, SM!NoneInFlight
  <2>1. i + 1 \in 0 .. n /\ j + 1 \in 0 .. n /\ i + 1 <= j + 1
    BY <1>1
  <2>2. QED
    BY <1>0, <1>4, <2>1 DEF FutureSafe, VacantForGood
<1>7. NoPayloadBehindVacant(f)'
  <2> SUFFICES ASSUME NEW i \in 1 .. n - 1, queue'[i].type = "Data"
               PROVE  ~SM!Vacant(f[i-1])
    BY <1>1 DEF NoPayloadBehindVacant, SM!Vacant, SM!NoneInFlight
  <2>1. i + 1 \in 1 .. n /\ queue[i + 1].type = "Data" /\ f[i-1] = future[(i + 1) - 1]
    BY <1>1, <1>2, <1>4
  <2>2. QED
    BY <1>0, <2>1 DEF FutureSafe, NoPayloadBehindVacant
<1>8. ReceiptsFindEntries(f)'
  <2> SUFFICES ASSUME NEW i \in 1 .. n - 1,
                      queue'[i].type \in {"Received", "ReceiveFailed"}
               PROVE  f[i-1].inFlight[queue'[i].via] > 0
    BY <1>1 DEF ReceiptsFindEntries
  <2>1. i + 1 \in 1 .. n /\ queue'[i] = queue[i + 1] /\ f[i-1] = future[(i + 1) - 1]
    BY <1>1, <1>2, <1>4
  <2>2. QED
    BY <1>0, <2>1 DEF FutureSafe, ReceiptsFindEntries
<1>9. Covers(f[Len(queue)])'
  <2>1. f[n - 1] = last
    BY <1>0, <1>4
  <2>2. QED
    BY <1>1, <2>1 DEF Covers
<1>10. QED
  BY <1>1, <1>4, <1>5, <1>6, <1>7, <1>8, <1>9 DEF FutureSafe

-----------------------------------------------------------------------------
(* The ledgers stay safe, action by action.                                *)

\* Finitely many sources can be sending at once.
LEMMA SourcesFinite == IsFiniteSet(Sources)
BY LifecycleAssumption, FS_AddElement DEF Sources

\* The senders on a via are counted.
LEMMA BeingSentCounted ==
  ASSUME NEW v \in Vias
  PROVE  IsFiniteSet(BeingSent(v)) /\ Cardinality(BeingSent(v)) \in Nat
<1>1. BeingSent(v) \subseteq Sources
  BY DEF BeingSent
<1>2. QED
  BY <1>1, SourcesFinite, FS_Subset, FS_CardinalityType

\* What a ledger covers is counted.
LEMMA CopiesCounted ==
  ASSUME TypeOK, NEW v \in Vias
  PROVE  /\ transit[v] \in Nat /\ arrived[v] \in Nat /\ Cardinality(BeingSent(v)) \in Nat
         /\ \A l \in Ledgers : l.inFlight[v] \in Nat
<1>1. transit[v] \in Nat /\ arrived[v] \in Nat
  BY DEF TypeOK
<1>2. \A l \in Ledgers : l.inFlight[v] \in Nat
  BY DEF Ledgers
<1>3. QED
  BY <1>1, <1>2, BeingSentCounted

\* The last ledger of a safe future covers all copies.
LEMMA LastLedger ==
  ASSUME TypeOK, NEW future, IsFuture(future), FutureSafe(future)
  PROVE  future[Len(queue)] \in Ledgers /\ Covers(future[Len(queue)])
<1>1. Len(queue) \in 0 .. Len(queue)
  BY DEF TypeOK
<1>2. QED
  BY <1>1 DEF IsFuture, FutureSafe

\* A ledger with a source, or with a copy in flight, is not vacant.  A copy that
\* has arrived is one in flight.
LEMMA NotVacant ==
  ASSUME NEW l \in Ledgers, Covers(l), TypeOK
  PROVE  /\ \A s \in Sources : held[s] > 0 => ~SM!Vacant(l)
         /\ \A v \in Vias : arrived[v] > 0 => ~SM!Vacant(l) /\ l.inFlight[v] > 0
<1>1. ASSUME NEW s \in Sources, held[s] > 0 PROVE ~SM!Vacant(l)
  BY <1>1 DEF Covers, SM!Vacant
<1>2. ASSUME NEW v \in Vias, arrived[v] > 0 PROVE ~SM!Vacant(l) /\ l.inFlight[v] > 0
  <2>1. l.inFlight[v] >= transit[v] + arrived[v] + Cardinality(BeingSent(v))
    BY DEF Covers, Ledgers
  <2>2. l.inFlight[v] > 0
    BY <1>2, <2>1, CopiesCounted
  <2>3. QED
    BY <2>2 DEF SM!Vacant, SM!NoneInFlight
<1>3. QED
  BY <1>1, <1>2

\* A step of a holder leaves the ledgers to come safe: what it adds to the
\* owner's channel adds one ledger, which covers the copies as they are then.
LEMMA HolderLedgers ==
  ASSUME Threaded = {}, TypeOK, SendersHold, DropsAreFinal,
         NEW s \in Sources, HolderStep(s), AllChannelsOpen, AllChannelsOpen',
         NEW future, IsFuture(future), FutureSafe(future)
  PROVE  \E f \in [0 .. Len(queue') -> Ledgers] : IsFuture(f)' /\ FutureSafe(f)'
<1> USE DEF ownerVars, holderVars, viaVars
<1>0. PICK last \in Ledgers : last = future[Len(queue)] /\ Covers(last)
  BY LastLedger
<1>1. CASE SendData(s)
  <2>1. ~SM!Vacant(last)
    BY <1>0, <1>1, NotVacant DEF SendData
  <2>2. After(last, Data) = last /\ Data \in Messages /\ Data.type = "Data"
    BY AfterNoVia, MessagesTyped DEF Data
  <2>3. Covers(last)'
    BY <1>0, <1>1 DEF SendData, Covers, BeingSent
  <2>4. UNCHANGED sm /\ ToOwner(Data)
    BY <1>1 DEF SendData
  <2>5. QED
    BY <1>0, <2>1, <2>2, <2>3, <2>4, FutureGrows
<1>2. CASE Clone(s) \/ DropCopy(s)
  <2>1. ASSUME NEW t \in Sources, held'[t] > 0 PROVE held[t] > 0
    <3>1. held[t] \in Nat /\ (t # s => held'[t] = held[t])
      BY <1>2 DEF Clone, DropCopy, TypeOK
    <3>2. held[s] > 0
      BY <1>2 DEF Clone, DropCopy, TypeOK
    <3>3. QED
      BY <2>1, <3>1, <3>2
  <2>2. Covers(last)'
    BY <1>0, <1>2, <2>1 DEF Clone, DropCopy, Covers, BeingSent
  <2>3. UNCHANGED <<queue, LedgerNow>>
    BY <1>2 DEF Clone, DropCopy, LedgerNow
  <2>4. QED
    BY <1>0, <2>2, <2>3, FutureStays
<1>3. CASE FinishDrop(s)
  <2>0. PICK next : next = After(last, Disconnect(s))
    OBVIOUS
  <2>1. next = [sources |-> last.sources \ {s}, inFlight |-> last.inFlight]
    BY <2>0, AfterNoVia
  <2>2. held[s] = 0
    BY <1>3 DEF FinishDrop, DropsAreFinal, Tracked, TypeOK
  <2>3. SM!Vacant(last) => SM!Vacant(next)
    BY <2>1 DEF SM!Vacant, SM!NoneInFlight
  <2>4. Covers(next)'
    BY <1>0, <1>3, <2>1, <2>2 DEF FinishDrop, Covers, BeingSent
  <2>5. UNCHANGED sm /\ ToOwner(Disconnect(s))
    BY <1>3 DEF FinishDrop
  <2>6. Disconnect(s) \in Messages /\ Disconnect(s).type = "Disconnect"
    BY MessagesTyped DEF Disconnect
  <2>7. QED
    BY <1>0, <2>0, <2>3, <2>4, <2>5, <2>6, FutureGrows
<1>4. ASSUME NEW v \in Vias, BeginSend(s, v)
      PROVE  \E f \in [0 .. Len(queue') -> Ledgers] : IsFuture(f)' /\ FutureSafe(f)'
  <2>1. ~SM!Vacant(last)
    BY <1>0, <1>4, NotVacant DEF BeginSend
  <2>2. PICK next : next = After(last, Sending(v))
    OBVIOUS
  <2>3. next = [sources |-> last.sources, inFlight |-> SM!WithOne(last.inFlight, v)]
    BY <2>2, AfterCases, AtTyped
  <2>4. s \notin BeingSent(v) /\ BeingSent(v)' = BeingSent(v) \cup {s}
    BY <1>4, LifecycleAssumption DEF BeginSend, BeingSent, TypeOK
  <2>5. Cardinality(BeingSent(v)') = Cardinality(BeingSent(v)) + 1
    BY <2>4, BeingSentCounted, FS_AddElement
  <2>6. \A w \in Vias : w # v => BeingSent(w)' = BeingSent(w)
    BY <1>4, LifecycleAssumption DEF BeginSend, BeingSent, TypeOK
  <2>7. ASSUME NEW w \in Vias
        PROVE  transit'[w] + arrived'[w] + Cardinality(BeingSent(w)') <= next.inFlight[w]
    <3>1. transit'[w] = transit[w] /\ arrived'[w] = arrived[w]
      BY <1>4 DEF BeginSend
    <3>2. transit[w] + arrived[w] + Cardinality(BeingSent(w)) <= last.inFlight[w]
      BY <1>0 DEF Covers
    <3>3. next.inFlight[w] = IF w = v THEN last.inFlight[w] + 1 ELSE last.inFlight[w]
      BY <2>3 DEF SM!WithOne, Ledgers
    <3>4. QED
      BY <2>5, <2>6, <3>1, <3>2, <3>3, CopiesCounted
  <2>8. \A t \in Sources : held'[t] > 0 => t \in next.sources
    BY <1>0, <1>4, <2>3 DEF BeginSend, Covers
  <2>9. Covers(next)'
    BY <2>7, <2>8 DEF Covers
  <2>10. /\ UNCHANGED sm /\ ToOwner(Sending(v))
         /\ Sending(v) \in Messages /\ Sending(v).type = "Sending"
    BY <1>4, MessagesTyped DEF BeginSend, Sending
  <2>11. QED
    BY <1>0, <2>1, <2>2, <2>9, <2>10, FutureGrows
<1>5. CASE EndSend(s)
  <2>1. PICK v \in Vias : v = sending[s]
    BY <1>5 DEF EndSend, TypeOK
  <2>2. transit' = [transit EXCEPT ![v] = @ + 1]
    BY <1>5, <2>1, AtTyped DEF EndSend, AllChannelsOpen
  <2>3. s \in BeingSent(v) /\ BeingSent(v)' = BeingSent(v) \ {s}
    BY <1>5, <2>1, LifecycleAssumption DEF EndSend, BeingSent, TypeOK
  <2>4. Cardinality(BeingSent(v)') = Cardinality(BeingSent(v)) - 1
    BY <2>3, BeingSentCounted, FS_RemoveElement
  <2>5. \A w \in Vias : w # v => BeingSent(w)' = BeingSent(w)
    BY <1>5, <2>1, LifecycleAssumption DEF EndSend, BeingSent, TypeOK
  <2>6. ASSUME NEW w \in Vias
        PROVE  transit'[w] + arrived'[w] + Cardinality(BeingSent(w)') <= last.inFlight[w]
    <3>1. /\ transit'[w] = IF w = v THEN transit[w] + 1 ELSE transit[w]
          /\ arrived'[w] = arrived[w]
      BY <1>5, <2>2 DEF EndSend, TypeOK
    <3>2. transit[w] + arrived[w] + Cardinality(BeingSent(w)) <= last.inFlight[w]
      BY <1>0 DEF Covers
    <3>3. QED
      BY <2>4, <2>5, <3>1, <3>2, CopiesCounted
  <2>7. \A t \in Sources : held'[t] > 0 => t \in last.sources
    BY <1>0, <1>5 DEF EndSend, Covers, TypeOK
  <2>8. Covers(last)'
    BY <2>6, <2>7 DEF Covers
  <2>9. UNCHANGED <<queue, LedgerNow>>
    BY <1>5 DEF EndSend, LedgerNow
  <2>10. QED
    BY <1>0, <2>8, <2>9, FutureStays
<1>6. CASE Crash(s)
  <2>1. s \notin Receivers
    BY <1>6 DEF Crash, AllChannelsOpen
  <2>2. transit' = transit /\ arrived' = arrived
    BY <1>6, <2>1, AtTyped DEF Crash, TypeOK
  <2>3. ASSUME NEW w \in Vias
        PROVE  transit'[w] + arrived'[w] + Cardinality(BeingSent(w)') <= last.inFlight[w]
    <3>1. BeingSent(w)' \subseteq BeingSent(w)
      BY <1>6, LifecycleAssumption DEF Crash, BeingSent, TypeOK
    <3>2. Cardinality(BeingSent(w)') <= Cardinality(BeingSent(w))
          /\ Cardinality(BeingSent(w)') \in Nat
      BY <3>1, BeingSentCounted, FS_Subset, FS_CardinalityType
    <3>3. transit[w] + arrived[w] + Cardinality(BeingSent(w)) <= last.inFlight[w]
      BY <1>0 DEF Covers
    <3>4. QED
      BY <2>2, <3>2, <3>3, CopiesCounted
  <2>4. \A t \in Sources : held'[t] > 0 => t \in last.sources
    BY <1>0, <1>6 DEF Crash, Covers, TypeOK
  <2>5. Covers(last)'
    BY <2>3, <2>4 DEF Covers
  <2>6. UNCHANGED <<queue, LedgerNow>>
    BY <1>6 DEF Crash, LedgerNow
  <2>7. QED
    BY <1>0, <2>5, <2>6, FutureStays
<1>7. QED
  BY <1>1, <1>2, <1>3, <1>4, <1>5, <1>6 DEF HolderStep

\* So does a step at the other end of a via.
LEMMA ViaLedgers ==
  ASSUME TypeOK, NEW v \in Vias, ViaStep(v), AllChannelsOpen,
         NEW future, IsFuture(future), FutureSafe(future)
  PROVE  \E f \in [0 .. Len(queue') -> Ledgers] : IsFuture(f)' /\ FutureSafe(f)'
<1> USE DEF ownerVars, holderVars, viaVars
<1>0. PICK last \in Ledgers : last = future[Len(queue)] /\ Covers(last)
  BY LastLedger
<1>a. At[v] \in Receivers /\ At[v] \in Sources
  BY AtTyped
<1>1. CASE Demultiplex(v) \/ FailToDeserialize(v) \/ DropReceiver(v) \/ CloseReceiver(v)
  <2>1. UNCHANGED <<queue, LedgerNow>> /\ UNCHANGED <<held, sending>>
    BY <1>1 DEF Demultiplex, FailToDeserialize, DropReceiver, CloseReceiver, LedgerNow
  <2>2. ASSUME NEW w \in Vias
        PROVE  transit'[w] + arrived'[w] <= transit[w] + arrived[w]
               /\ transit'[w] \in Nat /\ arrived'[w] \in Nat
    <3>0. transit \in [Vias -> Nat] /\ arrived \in [Vias -> Nat]
      BY DEF TypeOK
    <3>1. CASE Demultiplex(v)
      BY <3>0, <3>1 DEF Demultiplex
    <3>2. CASE FailToDeserialize(v)
      BY <3>0, <3>2 DEF FailToDeserialize
    <3>3. CASE DropReceiver(v) \/ CloseReceiver(v)
      BY <3>0, <3>3 DEF DropReceiver, CloseReceiver
    <3>4. QED
      BY <1>1, <3>1, <3>2, <3>3
  <2>3. ASSUME NEW w \in Vias
        PROVE  transit'[w] + arrived'[w] + Cardinality(BeingSent(w)') <= last.inFlight[w]
    <3>1. BeingSent(w)' = BeingSent(w)
      BY <2>1 DEF BeingSent
    <3>2. transit[w] + arrived[w] + Cardinality(BeingSent(w)) <= last.inFlight[w]
      BY <1>0 DEF Covers
    <3>3. QED
      BY <2>2, <3>1, <3>2, CopiesCounted
  <2>4. Covers(last)'
    BY <1>0, <2>1, <2>3 DEF Covers
  <2>5. QED
    BY <1>0, <2>1, <2>4, FutureStays
<1>2. CASE Receive(v) \/ FailArrived(v)
  <2>1. arrived[v] > 0 /\ ~SM!Vacant(last) /\ last.inFlight[v] > 0
    BY <1>0, <1>2, NotVacant DEF Receive, FailArrived
  <2>2. /\ arrived' = [arrived EXCEPT ![v] = @ - 1]
        /\ UNCHANGED <<sm, sending, transit>>
    BY <1>2 DEF Receive, FailArrived
  <2>3. ASSUME NEW next \in Ledgers,
               next.inFlight = SM!WithoutOne(last.inFlight, v),
               \A t \in Sources : held'[t] > 0 => t \in next.sources
        PROVE  Covers(next)'
    <3>1. ASSUME NEW w \in Vias
          PROVE  transit'[w] + arrived'[w] + Cardinality(BeingSent(w)') <= next.inFlight[w]
      <4>1. BeingSent(w)' = BeingSent(w) /\ transit'[w] = transit[w]
        BY <2>2 DEF BeingSent
      <4>2. arrived'[w] = IF w = v THEN arrived[w] - 1 ELSE arrived[w]
        BY <2>2 DEF TypeOK
      <4>3. transit[w] + arrived[w] + Cardinality(BeingSent(w)) <= last.inFlight[w]
        BY <1>0 DEF Covers
      <4>4. next.inFlight[w] >= IF w = v THEN last.inFlight[w] - 1 ELSE last.inFlight[w]
        BY <2>3 DEF SM!WithoutOne, Ledgers
      <4>5. next.inFlight[w] \in Nat /\ last.inFlight[w] \in Nat
        BY DEF Ledgers
      <4>6. QED
        BY <2>1, <4>1, <4>2, <4>3, <4>4, <4>5, CopiesCounted
    <3>2. QED
      BY <2>3, <3>1 DEF Covers
  <2>4. CASE Receive(v)
    <3>1. PICK next : next = After(last, Received(v, At[v]))
      OBVIOUS
    <3>2. /\ next = [sources |-> last.sources \cup {At[v]},
                    inFlight |-> SM!WithoutOne(last.inFlight, v)]
          /\ next \in Ledgers
      BY <1>a, <3>1, AfterCases, AfterTyped, MessagesTyped
    <3>3. \A t \in Sources : held'[t] > 0 => t \in next.sources
      BY <1>0, <1>a, <2>4, <3>2 DEF Receive, Covers, TypeOK
    <3>4. Covers(next)'
      BY <2>3, <3>2, <3>3
    <3>5. /\ ToOwner(Received(v, At[v])) /\ Received(v, At[v]) \in Messages
          /\ Received(v, At[v]).via = v
      BY <1>a, <2>4, MessagesTyped DEF Receive, Received
    <3>6. QED
      BY <1>0, <2>1, <2>2, <3>1, <3>4, <3>5, FutureGrows
  <2>5. CASE FailArrived(v)
    <3>1. PICK next : next = After(last, ReceiveFailed(v))
      OBVIOUS
    <3>2. /\ next = [sources |-> last.sources,
                    inFlight |-> SM!WithoutOne(last.inFlight, v)]
          /\ next \in Ledgers
      BY <1>a, <3>1, AfterCases, AfterTyped, MessagesTyped
    <3>3. \A t \in Sources : held'[t] > 0 => t \in next.sources
      BY <1>0, <2>5, <3>2 DEF FailArrived, Covers
    <3>4. Covers(next)'
      BY <2>3, <3>2, <3>3
    <3>5. /\ ToOwner(ReceiveFailed(v)) /\ ReceiveFailed(v) \in Messages
          /\ ReceiveFailed(v).via = v
      BY <2>5, MessagesTyped DEF FailArrived, ReceiveFailed
    <3>6. QED
      BY <1>0, <2>1, <2>2, <3>1, <3>4, <3>5, FutureGrows
  <2>6. QED
    BY <1>2, <2>4, <2>5
<1>3. QED
  BY <1>1, <1>2 DEF ViaStep

\* Whether a state machine is vacant is a matter of its ledger.
LEMMA VacantNow == SM!Vacant(sm) <=> SM!Vacant(LedgerNow)
BY DEF SM!Vacant, SM!NoneInFlight, LedgerNow

\* The owner handles the first message: its ledger is the next of the future,
\* and the sender, if it was taken before, was and is taken from a vacant one.
LEMMA HandleLedgers ==
  ASSUME TypeOK, NEW type, Handle(type), TakenOnlyIfVacant,
         NEW future, IsFuture(future), FutureSafe(future)
  PROVE  /\ future[1] = After(LedgerNow, Head(queue))
         /\ ~sm.maybe => SM!Vacant(future[1])
         /\ LedgerNow' = future[1] =>
              \E f \in [0 .. Len(queue') -> Ledgers] : IsFuture(f)' /\ FutureSafe(f)'
<1>0. Len(queue) \in Nat \ {0} /\ Head(queue) = queue[1] /\ queue' = Tail(queue)
  BY DEF Handle, TypeOK
<1>1. future[1] = After(LedgerNow, Head(queue)) /\ future[0] = LedgerNow
  BY <1>0 DEF IsFuture
<1>2. ~sm.maybe => SM!Vacant(future[1])
  BY <1>0, <1>1, VacantNow DEF TakenOnlyIfVacant, FutureSafe, VacantForGood
<1>3. ASSUME LedgerNow' = future[1]
      PROVE  \E f \in [0 .. Len(queue') -> Ledgers] : IsFuture(f)' /\ FutureSafe(f)'
  <2>1. PICK last : last = future[Len(queue)] /\ Covers(last)
    BY LastLedger
  <2>2. Covers(last)'
    BY <2>1 DEF Handle, holderVars, viaVars, Covers, BeingSent
  <2>3. queue # <<>>
    BY DEF Handle
  <2>4. QED
    BY <1>0, <1>3, <2>1, <2>2, <2>3, FutureShrinks
<1>4. QED
  BY <1>1, <1>2, <1>3

\* Taking the sender leaves the ledger alone, and happens on a vacant one.
LEMMA TakeLedger ==
  ASSUME NEW x \in Machines, NEW y, y = SM!TakeIfVacant(x)
  PROVE  /\ y.sources = x.sources /\ y.inFlight = x.inFlight /\ y.probes = x.probes
         /\ ~y.maybe => ~x.maybe \/ SM!Vacant(y)
BY DEF SM!TakeIfVacant, Machines, SM!StateMachines, SM!Vacant, SM!NoneInFlight

\* The owner moves on to the first of the ledgers to come, and takes the sender
\* only if that one is vacant.  No probe fails while all channels are open.
LEMMA OwnerLedgers ==
  ASSUME TypeOK, OwnerStep, AllChannelsOpen, TakenOnlyIfVacant, NoFailedProbe,
         NEW future, IsFuture(future), FutureSafe(future)
  PROVE  /\ TakenOnlyIfVacant'
         /\ NoFailedProbe'
         /\ \E f \in [0 .. Len(queue') -> Ledgers] : IsFuture(f)' /\ FutureSafe(f)'
<1>0. sm \in Machines
  BY DEF TypeOK, Machines
<1>a. /\ sm.maybe \in BOOLEAN /\ sm.sources \in SUBSET Sources
      /\ sm.inFlight \in [Vias -> Nat] /\ sm.probes \in [Vias -> Probes \cup {NoProbe}]
  BY <1>0 DEF Machines, SM!StateMachines
<1>b. \A v \in Vias : v # FailedProbe /\ NoProbe # FailedProbe
  BY LifecycleAssumption
<1>1. CASE HandleData
  <2>1. Handle("Data") /\ sm' = sm /\ Head(queue).type = "Data"
    BY <1>1 DEF HandleData, Handle
  <2>2. After(LedgerNow, Head(queue)) = LedgerNow
    BY <2>1 DEF After, LedgerNow
  <2>3. LedgerNow' = LedgerNow
    BY <2>1 DEF LedgerNow
  <2>4. QED
    BY <2>1, <2>2, <2>3, HandleLedgers DEF TakenOnlyIfVacant, NoFailedProbe,
                                           SM!Vacant, SM!NoneInFlight
<1>2. CASE HandleSending
  <2>1. Handle("Sending") /\ Head(queue).type = "Sending" /\ Head(queue).via \in Vias
    BY <1>2, HandleTyped, HeadTyped DEF HandleSending, Handle
  <2>2. PICK v \in Vias : v = Head(queue).via
    BY <2>1
  <2>3. sm' = SM!ToBeSent(sm, v, v)
    BY <1>2, <2>2, AtTyped DEF HandleSending, AllChannelsOpen
  <2>4. /\ sm'.maybe = sm.maybe /\ sm'.sources = sm.sources
        /\ sm'.inFlight = SM!WithOne(sm.inFlight, v)
        /\ sm'.probes = [sm.probes EXCEPT ![v] = v]
    BY <1>0, <2>3 DEF SM!ToBeSent, Machines, SM!StateMachines
  <2>5. LedgerNow' = After(LedgerNow, Head(queue))
    BY <2>1, <2>2, <2>4 DEF LedgerNow, After
  <2>6. NoFailedProbe'
    BY <1>a, <1>b, <2>4 DEF NoFailedProbe
  <2>7. LedgerNow' = future[1] /\ (~sm.maybe => SM!Vacant(future[1]))
    BY <2>1, <2>5, HandleLedgers
  <2>8. TakenOnlyIfVacant'
    BY <2>4, <2>7 DEF TakenOnlyIfVacant, SM!Vacant, SM!NoneInFlight, LedgerNow
  <2>9. QED
    BY <2>1, <2>6, <2>7, <2>8, HandleLedgers
<1>3. CASE HandleReceived
  <2>1. Handle("Received") /\ Head(queue).type = "Received" /\ Head(queue).via \in Vias
    BY <1>3, HandleTyped, HeadTyped DEF HandleReceived, Handle
  <2>2. PICK v \in Vias : v = Head(queue).via
    BY <2>1
  <2>3. /\ sm'.maybe = sm.maybe /\ sm'.sources = sm.sources \cup {Head(queue).source}
        /\ sm'.inFlight = SM!WithoutOne(sm.inFlight, v)
        /\ sm'.probes = [sm.probes EXCEPT ![v] = NoProbe]
    BY <1>0, <1>3, <2>2 DEF HandleReceived, SM!Received, Machines, SM!StateMachines
  <2>4. LedgerNow' = After(LedgerNow, Head(queue))
    BY <2>1, <2>2, <2>3 DEF LedgerNow, After
  <2>5. NoFailedProbe'
    BY <1>a, <1>b, <2>3 DEF NoFailedProbe
  <2>6. LedgerNow' = future[1] /\ (~sm.maybe => SM!Vacant(future[1]))
    BY <2>1, <2>4, HandleLedgers
  <2>7. TakenOnlyIfVacant'
    BY <2>3, <2>6 DEF TakenOnlyIfVacant, SM!Vacant, SM!NoneInFlight, LedgerNow
  <2>8. QED
    BY <2>1, <2>5, <2>6, <2>7, HandleLedgers
<1>4. CASE HandleReceiveFailed
  <2>1. Handle("ReceiveFailed") /\ Head(queue).type = "ReceiveFailed"
        /\ Head(queue).via \in Vias
    BY <1>4, HandleTyped, HeadTyped DEF HandleReceiveFailed, Handle
  <2>2. PICK v \in Vias : v = Head(queue).via
    BY <2>1
  <2> DEFINE x == [sm EXCEPT !.inFlight = SM!WithoutOne(sm.inFlight, v)]
  <2>3. x \in Machines /\ sm' = SM!TakeIfVacant(x)
    BY <1>0, <1>4, <2>2, BagsTyped DEF HandleReceiveFailed, SM!ReceiveFailed,
                                       Machines, SM!StateMachines
  <2>4. /\ x.maybe = sm.maybe /\ x.sources = sm.sources /\ x.probes = sm.probes
        /\ x.inFlight = SM!WithoutOne(sm.inFlight, v)
    BY <1>0 DEF Machines, SM!StateMachines
  <2> HIDE DEF x
  <2>5. /\ sm'.sources = sm.sources /\ sm'.probes = sm.probes
        /\ sm'.inFlight = SM!WithoutOne(sm.inFlight, v)
        /\ ~sm'.maybe => ~sm.maybe \/ SM!Vacant(sm')
    BY <2>3, <2>4, TakeLedger
  <2>6. LedgerNow' = After(LedgerNow, Head(queue))
    BY <2>1, <2>2, <2>5 DEF LedgerNow, After
  <2>7. NoFailedProbe'
    BY <2>5 DEF NoFailedProbe
  <2>8. LedgerNow' = future[1] /\ (~sm.maybe => SM!Vacant(future[1]))
    BY <2>1, <2>6, HandleLedgers
  <2>9. TakenOnlyIfVacant'
    BY <2>5, <2>8 DEF TakenOnlyIfVacant, SM!Vacant, SM!NoneInFlight, LedgerNow
  <2>10. QED
    BY <2>1, <2>7, <2>8, <2>9, HandleLedgers
<1>5. CASE HandleDisconnect
  <2>1. Handle("Disconnect") /\ Head(queue).type = "Disconnect"
    BY <1>5 DEF HandleDisconnect, Handle
  <2>2. PICK s : s = Head(queue).source
    OBVIOUS
  <2> DEFINE x == [sm EXCEPT !.sources = sm.sources \ {s}]
  <2>3. x \in Machines /\ sm' = SM!TakeIfVacant(x)
    BY <1>0, <1>5, <2>2 DEF HandleDisconnect, SM!Disconnect, Machines, SM!StateMachines
  <2>4. /\ x.maybe = sm.maybe /\ x.sources = sm.sources \ {s}
        /\ x.probes = sm.probes /\ x.inFlight = sm.inFlight
    BY <1>0 DEF Machines, SM!StateMachines
  <2> HIDE DEF x
  <2>5. /\ sm'.sources = sm.sources \ {s} /\ sm'.probes = sm.probes
        /\ sm'.inFlight = sm.inFlight
        /\ ~sm'.maybe => ~sm.maybe \/ SM!Vacant(sm')
    BY <2>3, <2>4, TakeLedger
  <2>6. LedgerNow' = After(LedgerNow, Head(queue))
    BY <2>1, <2>2, <2>5 DEF LedgerNow, After
  <2>7. NoFailedProbe'
    BY <2>5 DEF NoFailedProbe
  <2>8. LedgerNow' = future[1] /\ (~sm.maybe => SM!Vacant(future[1]))
    BY <2>1, <2>6, HandleLedgers
  <2>9. TakenOnlyIfVacant'
    BY <2>5, <2>8 DEF TakenOnlyIfVacant, SM!Vacant, SM!NoneInFlight, LedgerNow
  <2>10. QED
    BY <2>1, <2>7, <2>8, <2>9, HandleLedgers
<1>6. CASE TimeOut \/ Poll
  <2>1. UNCHANGED queue /\ UNCHANGED <<held, sending, transit, arrived>>
    BY <1>6 DEF TimeOut, Poll, holderVars, viaVars
  <2>2. /\ sm'.sources = sm.sources /\ sm'.inFlight = sm.inFlight
        /\ sm'.probes = sm.probes /\ (~sm'.maybe => ~sm.maybe \/ SM!Vacant(sm'))
    <3>1. CASE TimeOut
      BY <3>1 DEF TimeOut
    <3>2. CASE Poll
      <4> DEFINE x == SM!WriteOff(sm, SM!LostVias(sm, FailingProbes))
      <4>1. SM!LostVias(sm, FailingProbes) = {}
        <5>1. FailingProbes = {FailedProbe}
          BY AtTyped DEF FailingProbes, AllChannelsOpen
        <5>2. QED
          BY <5>1 DEF SM!LostVias, NoFailedProbe
      <4>2. /\ x \in Machines /\ x.maybe = sm.maybe /\ x.sources = sm.sources
            /\ x.inFlight = sm.inFlight /\ x.probes = sm.probes
        BY <1>0, <1>a, <4>1 DEF SM!WriteOff, Machines, SM!StateMachines
      <4>3. sm' = SM!TakeIfVacant(x) \/ sm' = sm
        BY <3>2 DEF Poll, SM!Poll
      <4> HIDE DEF x
      <4>4. QED
        BY <4>2, <4>3, TakeLedger
    <3>3. QED
      BY <1>6, <3>1, <3>2
  <2>3. LedgerNow' = LedgerNow
    BY <2>2 DEF LedgerNow
  <2>4. TakenOnlyIfVacant' /\ NoFailedProbe'
    BY <2>2 DEF TakenOnlyIfVacant, NoFailedProbe, SM!Vacant, SM!NoneInFlight
  <2>5. PICK last : last = future[Len(queue)] /\ Covers(last)
    BY LastLedger
  <2>6. Covers(last)'
    BY <2>1, <2>5 DEF Covers, BeingSent
  <2>7. QED
    BY <2>1, <2>3, <2>4, <2>5, <2>6, FutureStays
<1>7. QED
  BY <1>1, <1>2, <1>3, <1>4, <1>5, <1>6 DEF OwnerStep

-----------------------------------------------------------------------------
(* The inductive invariant, and what it says of disconnection.             *)

\* At first there is one ledger, with the origin in it.
LEMMA InitLedgersSafe == Init => SendersHold /\ DropsAreFinal /\ LedgersSafe
<1> SUFFICES ASSUME Init PROVE SendersHold /\ DropsAreFinal /\ LedgersSafe
  OBVIOUS
<1>1. SendersHold /\ DropsAreFinal
  BY DEF Init, SendersHold, DropsAreFinal
<1>2. sm = [maybe |-> TRUE, sources |-> {Origin}, inFlight |-> [v \in Vias |-> 0],
            probes |-> [v \in Vias |-> NoProbe]]
  BY DEF Init, SM!New
<1>3. TakenOnlyIfVacant
  BY <1>2 DEF TakenOnlyIfVacant
<1>4. NoFailedProbe
  BY <1>2, LifecycleAssumption DEF NoFailedProbe
<1>5. LedgerNow \in Ledgers
  BY <1>2 DEF LedgerNow, Ledgers, Sources
<1>6. PICK future \in [0 .. 0 -> Ledgers] : future[0] = LedgerNow
  <2>1. [i \in 0 .. 0 |-> LedgerNow] \in [0 .. 0 -> Ledgers]
    BY <1>5
  <2>2. [i \in 0 .. 0 |-> LedgerNow][0] = LedgerNow
    OBVIOUS
  <2>3. QED
    BY <2>1, <2>2
<1>7. Len(queue) = 0
  BY DEF Init
<1>8. IsFuture(future)
  BY <1>6, <1>7 DEF IsFuture
<1>9. Covers(LedgerNow)
  <2>1. \A s \in Sources : held[s] > 0 => s \in LedgerNow.sources
    BY <1>2 DEF Init, LedgerNow
  <2>2. \A v \in Vias : BeingSent(v) = {}
    BY LifecycleAssumption DEF Init, BeingSent
  <2>3. \A v \in Vias : Cardinality(BeingSent(v)) = 0
    BY <2>2, FS_EmptySet
  <2>4. \A v \in Vias :
          transit[v] + arrived[v] + Cardinality(BeingSent(v)) <= LedgerNow.inFlight[v]
    BY <1>2, <2>3 DEF Init, LedgerNow
  <2>5. QED
    BY <2>1, <2>4 DEF Covers
<1>10. FutureSafe(future)
  BY <1>6, <1>7, <1>9 DEF FutureSafe, VacantForGood, NoPayloadBehindVacant,
                          ReceiptsFindEntries
<1>11. QED
  BY <1>1, <1>3, <1>4, <1>6, <1>7, <1>8, <1>10 DEF LedgersSafe

\* An IPC channel that is gone does not come back.
LEMMA ChannelsStayClosed ==
  ASSUME TypeOK, [Next]_vars, AllChannelsOpen'
  PROVE  AllChannelsOpen
<1> USE DEF ownerVars, holderVars, viaVars
<1>1. ASSUME NEW s \in Sources, HolderStep(s) PROVE \A r \in Receivers : open'[r] => open[r]
  BY <1>1 DEF HolderStep, SendData, Clone, DropCopy, FinishDrop, BeginSend, EndSend, Crash
<1>2. ASSUME NEW v \in Vias, ViaStep(v) PROVE open' = open
  BY <1>2 DEF ViaStep, Demultiplex, Receive, FailToDeserialize, DropReceiver,
              FailArrived, CloseReceiver
<1>3. ASSUME NEW r \in Receivers, LeaveChannel(r) PROVE ~AllChannelsOpen'
  BY <1>3 DEF LeaveChannel, AllChannelsOpen, TypeOK
<1>4. CASE OwnerStep
  BY <1>4 DEF OwnerStep, HandleData, HandleSending, HandleReceived,
              HandleReceiveFailed, HandleDisconnect, Handle, TimeOut, Poll, AllChannelsOpen
<1>5. CASE UNCHANGED vars
  BY <1>5 DEF vars, AllChannelsOpen
<1>6. QED
  BY <1>1, <1>2, <1>3, <1>4, <1>5 DEF Next, AllChannelsOpen

\* Every step leaves the ledgers to come safe.
LEMMA LedgersSafeStep ==
  ASSUME Threaded = {}, IInv, [Next]_vars
  PROVE  LedgersSafe'
<1> SUFFICES ASSUME AllChannelsOpen'
             PROVE  /\ TakenOnlyIfVacant' /\ NoFailedProbe'
                    /\ \E f \in [0 .. Len(queue') -> Ledgers] :
                         IsFuture(f)' /\ FutureSafe(f)'
  BY DEF LedgersSafe
<1> USE DEF IInv
<1>0. AllChannelsOpen
  BY ChannelsStayClosed
<1>1. PICK future : IsFuture(future) /\ FutureSafe(future)
  BY <1>0 DEF LedgersSafe
<1>2. TakenOnlyIfVacant /\ NoFailedProbe
  BY <1>0 DEF LedgersSafe
<1>3. UNCHANGED sm => TakenOnlyIfVacant' /\ NoFailedProbe'
  BY <1>2 DEF TakenOnlyIfVacant, NoFailedProbe, SM!Vacant, SM!NoneInFlight
<1>4. ASSUME NEW s \in Sources, HolderStep(s)
      PROVE  UNCHANGED sm /\ \E f \in [0 .. Len(queue') -> Ledgers] :
                                IsFuture(f)' /\ FutureSafe(f)'
  <2>1. UNCHANGED sm
    BY <1>4 DEF HolderStep, SendData, Clone, DropCopy, FinishDrop, BeginSend, EndSend,
                Crash, ownerVars
  <2>2. QED
    BY <1>0, <1>1, <1>4, <2>1, HolderLedgers
<1>5. ASSUME NEW v \in Vias, ViaStep(v)
      PROVE  UNCHANGED sm /\ \E f \in [0 .. Len(queue') -> Ledgers] :
                                IsFuture(f)' /\ FutureSafe(f)'
  <2>1. UNCHANGED sm
    BY <1>5 DEF ViaStep, Demultiplex, Receive, FailToDeserialize, DropReceiver,
                FailArrived, CloseReceiver, ownerVars
  <2>2. QED
    BY <1>0, <1>1, <1>5, <2>1, ViaLedgers
<1>6. ASSUME NEW r \in Receivers, LeaveChannel(r) PROVE FALSE
  BY <1>6 DEF LeaveChannel, AllChannelsOpen, TypeOK
<1>7. CASE UNCHANGED vars
  <2>1. PICK last : last = future[Len(queue)] /\ Covers(last)
    BY <1>1, LastLedger
  <2>2. Covers(last)' /\ UNCHANGED <<queue, LedgerNow>>
    BY <1>7, <2>1 DEF vars, Covers, BeingSent, LedgerNow
  <2>3. QED
    BY <1>1, <1>3, <1>7, <2>1, <2>2, FutureStays DEF vars
<1>8. CASE OwnerStep
  BY <1>0, <1>1, <1>2, <1>8, OwnerLedgers
<1>9. QED
  BY <1>3, <1>4, <1>5, <1>6, <1>7, <1>8 DEF Next

\* While all channels are open, a sender that has been taken leaves no copy
\* and no payload behind.
LEMMA LedgersGuardDisconnection == IInv => SafeWhileChannelsOpen
<1> SUFFICES ASSUME IInv, AllChannelsOpen, ~sm.maybe
             PROVE  ~UsableCopy /\ ~Undelivered
  BY DEF SafeWhileChannelsOpen, NoPrematureDisconnect, NoDataLost
<1> USE DEF IInv
<1>1. PICK future : IsFuture(future) /\ FutureSafe(future)
  BY DEF LedgersSafe
<1>2. Len(queue) \in Nat /\ DOMAIN queue = 1 .. Len(queue) /\ future[0] = LedgerNow
  BY <1>1 DEF TypeOK, IsFuture
<1>3. \A i \in 0 .. Len(queue) : SM!Vacant(future[i])
  BY <1>1, <1>2, VacantNow DEF LedgersSafe, TakenOnlyIfVacant, FutureSafe, VacantForGood
<1>4. ~Undelivered
  BY <1>1, <1>2, <1>3 DEF Undelivered, FutureSafe, NoPayloadBehindVacant
<1>5. PICK last \in Ledgers : last = future[Len(queue)] /\ Covers(last)
  BY <1>1, LastLedger
<1>6. SM!Vacant(last)
  BY <1>2, <1>3, <1>5
<1>7. \A s \in Sources : ~(held[s] > 0)
  BY <1>5, <1>6, NotVacant
<1>8. ASSUME NEW v \in Vias PROVE ~(transit[v] + arrived[v] > 0)
  <2>1. transit[v] + arrived[v] + Cardinality(BeingSent(v)) <= last.inFlight[v]
    BY <1>5 DEF Covers
  <2>2. last.inFlight[v] = 0
    BY <1>6 DEF SM!Vacant, SM!NoneInFlight
  <2>3. QED
    BY <2>1, <2>2, CopiesCounted
<1>9. QED
  BY <1>4, <1>7, <1>8 DEF UsableCopy

\* The ledgers the owner has and will have as it handles the messages in its
\* channel cover all copies, if no process uses the subsender in two threads.
THEOREM InvariantHolds == ASSUME Threaded = {} PROVE Spec => []IInv
<1>1. Init => IInv
  BY InitTyped, InitLedgersSafe DEF IInv
<1>2. IInv /\ [Next]_vars => IInv'
  <2> SUFFICES ASSUME IInv, [Next]_vars PROVE IInv'
    OBVIOUS
  <2>1. TypeOK'
    <3>1. CASE UNCHANGED vars
      BY <3>1 DEF vars, TypeOK, IInv
    <3>2. QED
      BY <3>1, HolderTyped, ViaTyped, LeaveTyped, OwnerTyped DEF Next, IInv
  <2>2. SendersHold' /\ DropsAreFinal'
    BY SendersHoldStep, DropsAreFinalStep DEF IInv
  <2>3. LedgersSafe'
    BY LedgersSafeStep
  <2>4. QED
    BY <2>1, <2>2, <2>3 DEF IInv
<1>3. QED
  BY <1>1, <1>2, PTL DEF Spec

\* Whatever crashes at the origin, whichever messages fail to deserialize,
\* whichever subreceivers are dropped: while the IPC channels copies travel on
\* stay open, the owner's subchannel disconnects neither before the last
\* subsender has gone nor before what it sent is handled.
THEOREM DisconnectionSafe == ASSUME Threaded = {} PROVE Spec => []SafeWhileChannelsOpen
BY InvariantHolds, LedgersGuardDisconnection, PTL

\* While all channels are open, a receipt at the head of the owner's channel
\* finds its entry: it is there in the ledger of now, the first of the future.
LEMMA LedgersHaveEntries == IInv => (AllChannelsOpen => ReceiptFindsItsEntry)
<1> SUFFICES ASSUME IInv, AllChannelsOpen, queue # <<>>,
                    Head(queue).type \in {"Received", "ReceiveFailed"}
             PROVE  sm.inFlight[Head(queue).via] > 0
  BY DEF ReceiptFindsItsEntry
<1>1. PICK future : IsFuture(future) /\ FutureSafe(future)
  BY DEF IInv, LedgersSafe
<1>2. 1 \in 1 .. Len(queue) /\ Head(queue) = queue[1]
  BY DEF IInv, TypeOK
<1>3. future[1-1] = LedgerNow
  BY <1>1 DEF IsFuture
<1>4. future[1-1].inFlight[queue[1].via] > 0
  BY <1>1, <1>2 DEF FutureSafe, ReceiptsFindEntries
<1>5. QED
  BY <1>2, <1>3, <1>4 DEF LedgerNow

-----------------------------------------------------------------------------
(* Lifecycle implements the safety of Subchannel while the IPC channels    *)
(* that copies travel on stay: no process that receives copies dies or     *)
(* drops its channel.  The creator of the subsender may die, messages may  *)
(* fail to deserialize, and subreceivers may be dropped.                   *)

ChannelsStay == Leaving = {} /\ Crashing \cap Receivers = {}

\* Then no IPC channel ever goes.
LEMMA ChannelsStayOpen == ASSUME ChannelsStay PROVE Spec => []AllChannelsOpen
<1>1. Init => AllChannelsOpen
  BY DEF Init, AllChannelsOpen
<1>2. AllChannelsOpen /\ [Next]_vars => AllChannelsOpen'
  <2> SUFFICES ASSUME AllChannelsOpen, [Next]_vars PROVE AllChannelsOpen'
    OBVIOUS
  <2> USE DEF AllChannelsOpen
  <2>1. ASSUME NEW s \in Sources, HolderStep(s) PROVE AllChannelsOpen'
    <3>1. CASE Crash(s)
      BY <3>1 DEF Crash, ChannelsStay
    <3>2. QED
      BY <2>1, <3>1 DEF HolderStep, SendData, Clone, DropCopy, FinishDrop, BeginSend,
                        EndSend, viaVars
  <2>2. ASSUME NEW v \in Vias, ViaStep(v) PROVE AllChannelsOpen'
    BY <2>2 DEF ViaStep, Demultiplex, Receive, FailToDeserialize, DropReceiver,
                FailArrived, CloseReceiver
  <2>3. ASSUME NEW r \in Receivers, LeaveChannel(r) PROVE FALSE
    BY <2>3 DEF LeaveChannel, ChannelsStay
  <2>4. CASE OwnerStep \/ UNCHANGED vars
    BY <2>4 DEF OwnerStep, HandleData, HandleSending, HandleReceived, HandleReceiveFailed,
                HandleDisconnect, Handle, TimeOut, Poll, viaVars, vars
  <2>5. QED
    BY <2>1, <2>2, <2>3, <2>4 DEF Next
<1>3. QED
  BY <1>1, <1>2, PTL DEF Spec

\* Without the condition of SafeWhileChannelsOpen: the subreceiver never
\* disconnects while there is a subsender anywhere, and never loses a message.
THEOREM SubchannelSafe ==
  ASSUME Threaded = {}, ChannelsStay
  PROVE  Spec => [](NoPrematureDisconnect /\ NoDataLost)
<1>1. AllChannelsOpen /\ SafeWhileChannelsOpen => NoPrematureDisconnect /\ NoDataLost
  BY DEF SafeWhileChannelsOpen
<1>2. QED
  BY <1>1, ChannelsStayOpen, DisconnectionSafe, PTL

\* So what was sent before the last subsender went is handled before the
\* disconnection, whichever source sent it.
THEOREM PayloadsDelivered ==
  ASSUME Threaded = {}, ChannelsStay
  PROVE  Spec => []NoDataLost
BY SubchannelSafe, PTL

\* Received and ReceiveFailed find the in-flight entry they remove, so that the
\* bag loses none that belongs to another copy (HashBag::remove would ignore a
\* missing one, and the next Sending leave one too many).
THEOREM ReceiptsMatched ==
  ASSUME Threaded = {}, ChannelsStay
  PROVE  Spec => []ReceiptFindsItsEntry
BY InvariantHolds, LedgersHaveEntries, ChannelsStayOpen, PTL

-----------------------------------------------------------------------------
(* The refinement, step by step.                                           *)

\* An appended message other than Data, or the removal of one, keeps Undelivered.
LEMMA ToOwnerUndelivered ==
  ASSUME TypeOK, NEW m \in Messages, ToOwner(m)
  PROVE  Undelivered' <=> (Undelivered \/ m.type = "Data")
<1>1. queue \in Seq(Messages) /\ queue' = Append(queue, m)
  BY DEF TypeOK, ToOwner
<1>2. /\ DOMAIN queue' = 1 .. Len(queue) + 1 /\ Len(queue) \in Nat
      /\ DOMAIN queue = 1 .. Len(queue)
      /\ \A i \in DOMAIN queue : queue'[i] = queue[i]
      /\ queue'[Len(queue) + 1] = m
  BY <1>1
<1>3. QED
  BY <1>2 DEF Undelivered

LEMMA HandleUndelivered ==
  ASSUME TypeOK, NEW type, Handle(type), type # "Data"
  PROVE  Undelivered' <=> Undelivered
<1>1. /\ queue \in Seq(Messages) /\ queue # <<>> /\ queue' = Tail(queue)
      /\ queue[1].type # "Data"
  BY DEF TypeOK, Handle
<1>2. /\ Len(queue) \in Nat /\ Len(queue) # 0
      /\ DOMAIN queue = 1 .. Len(queue) /\ DOMAIN queue' = 1 .. Len(queue) - 1
      /\ \A i \in DOMAIN queue' : queue'[i] = queue[i + 1]
  BY <1>1
<1>3. ASSUME NEW i \in DOMAIN queue, queue[i].type = "Data"
      PROVE  \E j \in DOMAIN queue' : queue'[j].type = "Data"
  <2>1. i # 1
    BY <1>1, <1>3
  <2>2. i - 1 \in DOMAIN queue' /\ (i - 1) + 1 = i
    BY <1>2, <2>1
  <2>3. QED
    BY <1>2, <1>3, <2>2
<1>4. ASSUME NEW j \in DOMAIN queue', queue'[j].type = "Data"
      PROVE  \E i \in DOMAIN queue : queue[i].type = "Data"
  <2>1. j + 1 \in DOMAIN queue /\ queue'[j] = queue[j + 1]
    BY <1>2
  <2>2. QED
    BY <1>4, <2>1
<1>5. QED
  BY <1>3, <1>4 DEF Undelivered

\* What a step of a holder or at a via is to the abstract subchannel: a message
\* sent, the last subsender lost, or nothing.
Outside ==
  /\ UNCHANGED sm
  /\ UsableCopy' => UsableCopy
  /\ \/ UNCHANGED queue
     \/ \E m \in Messages : ToOwner(m) /\ m.type # "Data"
     \/ ToOwner(Data) /\ UsableCopy /\ UsableCopy'

LEMMA HolderOutside ==
  ASSUME TypeOK, SendersHold, NEW s \in Sources, HolderStep(s)
  PROVE  Outside
<1>0. /\ held \in [Sources -> Nat] /\ transit \in [Vias -> Nat] /\ arrived \in [Vias -> Nat]
      /\ sending \in [Sources -> Vias \cup {NoVia}]
  BY DEF TypeOK
<1> USE DEF Outside, UsableCopy, ownerVars, holderVars, viaVars
<1>1. CASE SendData(s)
  BY <1>1 DEF SendData
<1>2. CASE Clone(s)
  <2>1. held[s] > 0
    BY <1>0, <1>2 DEF Clone
  <2>2. QED
    BY <1>2, <2>1 DEF Clone
<1>3. CASE DropCopy(s)
  <2>1. \A q \in Sources : held'[q] > 0 => held[q] > 0
    BY <1>0, <1>3 DEF DropCopy
  <2>2. QED
    BY <1>3, <2>1 DEF DropCopy
<1>4. CASE FinishDrop(s)
  <2>1. Disconnect(s) \in Messages /\ Disconnect(s).type # "Data"
    BY DEF Disconnect, Messages
  <2>2. QED
    BY <1>4, <2>1 DEF FinishDrop
<1>5. ASSUME NEW v \in Vias, BeginSend(s, v) PROVE Outside
  <2>1. Sending(v) \in Messages /\ Sending(v).type # "Data"
    BY DEF Sending, Messages
  <2>2. QED
    BY <1>5, <2>1 DEF BeginSend
<1>6. CASE EndSend(s)
  <2>1. held[s] > 0
    BY <1>6 DEF EndSend, SendersHold
  <2>2. QED
    BY <1>6, <2>1 DEF EndSend
<1>7. CASE Crash(s)
  <2>1. \A q \in Sources : held'[q] > 0 => held[q] > 0
    BY <1>0, <1>7 DEF Crash
  <2>2. \A v \in Vias : transit'[v] + arrived'[v] > 0 => transit[v] + arrived[v] > 0
    BY <1>0, <1>7 DEF Crash
  <2>3. QED
    BY <1>7, <2>1, <2>2 DEF Crash
<1>8. QED
  BY <1>1, <1>2, <1>3, <1>4, <1>5, <1>6, <1>7 DEF HolderStep

LEMMA ViaOutside ==
  ASSUME TypeOK, NEW v \in Vias, ViaStep(v)
  PROVE  Outside
<1>0. /\ held \in [Sources -> Nat] /\ transit \in [Vias -> Nat] /\ arrived \in [Vias -> Nat]
      /\ receiver \in [Vias -> {"open", "closing", "closed"}]
  BY DEF TypeOK
<1>a. At[v] \in Receivers /\ At[v] \in Sources
  BY AtTyped
<1> USE DEF Outside, UsableCopy, ownerVars, holderVars, viaVars
<1>1. ASSUME UNCHANGED held, UNCHANGED receiver,
             \A u \in Vias : transit'[u] + arrived'[u] > 0 => transit[u] + arrived[u] > 0
      PROVE  UsableCopy' => UsableCopy
  BY <1>1
<1>2. CASE Demultiplex(v)
  <2>1. \A u \in Vias : transit'[u] + arrived'[u] > 0 => transit[u] + arrived[u] > 0
    BY <1>0, <1>2 DEF Demultiplex
  <2>2. QED
    BY <1>1, <1>2, <2>1 DEF Demultiplex
<1>3. CASE Receive(v)
  <2>1. receiver[v] = "open" /\ transit[v] + arrived[v] > 0
    BY <1>0, <1>3 DEF Receive
  <2>2. Received(v, At[v]) \in Messages /\ Received(v, At[v]).type # "Data"
    BY <1>a DEF Received, Messages
  <2>3. QED
    BY <1>3, <2>1, <2>2 DEF Receive
<1>4. CASE FailToDeserialize(v) \/ FailArrived(v)
  <2>1. \A u \in Vias : transit'[u] + arrived'[u] > 0 => transit[u] + arrived[u] > 0
    BY <1>0, <1>4 DEF FailToDeserialize, FailArrived
  <2>2. ReceiveFailed(v) \in Messages /\ ReceiveFailed(v).type # "Data"
    BY DEF ReceiveFailed, Messages
  <2>3. QED
    BY <1>1, <1>4, <2>1, <2>2 DEF FailToDeserialize, FailArrived
<1>5. CASE DropReceiver(v) \/ CloseReceiver(v)
  <2>1. \A u \in Vias : receiver'[u] = "open" => receiver[u] = "open"
    BY <1>0, <1>5 DEF DropReceiver, CloseReceiver
  <2>2. QED
    BY <1>5, <2>1 DEF DropReceiver, CloseReceiver
<1>6. QED
  BY <1>2, <1>3, <1>4, <1>5 DEF ViaStep

\* What a step of the owner is to it: a delivery, or a step that may disconnect.
LEMMA OwnerInside ==
  ASSUME TypeOK, OwnerStep
  PROVE  /\ UsableCopy' <=> UsableCopy
         /\ \/ HandleData
            \/ (sm'.maybe => sm.maybe) /\ (Undelivered' <=> Undelivered)
<1>1. UsableCopy' <=> UsableCopy
  BY DEF OwnerStep, HandleData, HandleSending, HandleReceived, HandleReceiveFailed,
         HandleDisconnect, Handle, TimeOut, Poll, UsableCopy, holderVars, viaVars
<1>2. sm'.maybe => sm.maybe
  <2>1. sm \in Machines
    BY DEF TypeOK, Machines
  <2> USE DEF Machines, SM!StateMachines
  <2>2. CASE HandleData \/ TimeOut
    BY <2>2 DEF HandleData, TimeOut
  <2>3. CASE HandleSending
    BY <2>1, <2>3 DEF HandleSending, SM!ToBeSent, SM!ReceiveFailed, SM!TakeIfVacant
  <2>4. CASE HandleReceived
    BY <2>1, <2>4 DEF HandleReceived, SM!Received
  <2>5. CASE HandleReceiveFailed
    BY <2>1, <2>5 DEF HandleReceiveFailed, SM!ReceiveFailed, SM!TakeIfVacant
  <2>6. CASE HandleDisconnect
    BY <2>1, <2>6 DEF HandleDisconnect, SM!Disconnect, SM!TakeIfVacant
  <2>7. CASE Poll
    BY <2>1, <2>7 DEF Poll, SM!Poll, SM!WriteOff, SM!TakeIfVacant
  <2>8. QED
    BY <2>2, <2>3, <2>4, <2>5, <2>6, <2>7 DEF OwnerStep
<1>3. CASE HandleSending \/ HandleReceived \/ HandleReceiveFailed \/ HandleDisconnect
  BY <1>1, <1>2, <1>3, HandleUndelivered
     DEF HandleSending, HandleReceived, HandleReceiveFailed, HandleDisconnect
<1>4. CASE TimeOut \/ Poll
  BY <1>1, <1>2, <1>4 DEF TimeOut, Poll, Undelivered
<1>5. QED
  BY <1>1, <1>3, <1>4 DEF OwnerStep

\* The values of the abstract variables are truth values.
LEMMA Booleans ==
  /\ UsableCopy \in BOOLEAN /\ UsableCopy' \in BOOLEAN
  /\ Undelivered \in BOOLEAN /\ Undelivered' \in BOOLEAN
BY DEF UsableCopy, Undelivered

LEMMA StepRefines ==
  ASSUME IInv, SafeWhileChannelsOpen, AllChannelsOpen,
         SafeWhileChannelsOpen', AllChannelsOpen', [Next]_vars
  PROVE  [Abstract!Next]_Abstract!vars
<1>0. /\ TypeOK /\ SendersHold /\ sm.maybe \in BOOLEAN
      /\ ~sm.maybe => ~UsableCopy /\ ~Undelivered
      /\ ~sm'.maybe => ~UsableCopy' /\ ~Undelivered'
  BY DEF IInv, TypeOK, SM!StateMachines, SafeWhileChannelsOpen, NoPrematureDisconnect,
         NoDataLost
<1> USE DEF Abstract!Next, Abstract!vars
<1>1. CASE Outside
  <2>1. UsableCopy' => UsableCopy
    BY <1>1 DEF Outside
  <2>2. ASSUME UNCHANGED sm, Undelivered' <=> Undelivered
        PROVE  [Abstract!Next]_Abstract!vars
    BY <2>1, <2>2, Booleans DEF Abstract!LoseLastSubSender
  <2>3. CASE UNCHANGED queue
    BY <1>1, <2>2, <2>3 DEF Outside, Undelivered
  <2>4. CASE \E m \in Messages : ToOwner(m) /\ m.type # "Data"
    BY <1>0, <1>1, <2>2, <2>4, ToOwnerUndelivered DEF Outside
  <2>5. CASE ToOwner(Data) /\ UsableCopy /\ UsableCopy'
    <3>1. Data \in Messages /\ Data.type = "Data"
      BY DEF Data, Messages
    <3>2. Undelivered'
      BY <1>0, <2>5, <3>1, ToOwnerUndelivered
    <3>3. QED
      BY <1>1, <2>5, <3>2 DEF Outside, Abstract!Send
  <2>6. QED
    BY <1>1, <2>3, <2>4, <2>5 DEF Outside
<1>2. CASE OwnerStep
  <2>1. UsableCopy' <=> UsableCopy
    BY <1>0, <1>2, OwnerInside
  <2>2. CASE HandleData
    <3>1. Undelivered
      BY <1>0, <2>2 DEF HandleData, Handle, Undelivered, TypeOK
    <3>2. UNCHANGED sm
      BY <2>2 DEF HandleData
    <3>3. QED
      BY <1>0, <2>1, <3>1, <3>2, Booleans DEF Abstract!Deliver
  <2>3. CASE (sm'.maybe => sm.maybe) /\ (Undelivered' <=> Undelivered)
    <3>1. sm'.maybe \in BOOLEAN
      BY <1>0, <1>2, OwnerTyped DEF TypeOK, SM!StateMachines
    <3>2. QED
      BY <1>0, <2>1, <2>3, <3>1, Booleans DEF Abstract!Disconnect
  <2>4. QED
    BY <1>0, <1>2, <2>2, <2>3, OwnerInside
<1>3. CASE UNCHANGED vars
  BY <1>3 DEF vars, UsableCopy, Undelivered
<1>4. ASSUME NEW r \in Receivers, LeaveChannel(r) PROVE FALSE
  BY <1>0, <1>4 DEF LeaveChannel, AllChannelsOpen, TypeOK
<1>5. QED
  BY <1>0, <1>1, <1>2, <1>3, <1>4, HolderOutside, ViaOutside DEF Next

\* The owner's subchannel disconnects when no subsender is left and everything
\* sent is delivered, not before, and a subchannel without subsenders gets no
\* new one (Subchannel).
THEOREM ImplementsSafeSubchannel ==
  ASSUME Threaded = {}, ChannelsStay
  PROVE  Spec => Abstract!SafeSpec
<1>1. Init => Abstract!Init
  <2> SUFFICES ASSUME Init PROVE Abstract!Init
    OBVIOUS
  <2>1. UsableCopy
    <3>1. Origin \in Sources /\ held[Origin] = 1
      BY DEF Init, Sources
    <3>2. QED
      BY <3>1 DEF UsableCopy
  <2>2. ~Undelivered
    BY DEF Init, Undelivered
  <2>3. sm.maybe = TRUE
    BY DEF Init, SM!New
  <2>4. QED
    BY <2>1, <2>2, <2>3, Booleans DEF Abstract!Init
<1>2. QED
  BY <1>1, StepRefines, InvariantHolds, DisconnectionSafe, ChannelsStayOpen, PTL
     DEF Spec, Abstract!SafeSpec

-----------------------------------------------------------------------------
(* Without faults, the owner's ledger is not only safe but exact.          *)

Faultless ==
  /\ Crashing = {} /\ Closing = {} /\ Leaving = {} /\ Mistyped = {}
  /\ Threaded = {}

\* What the ledger is when the owner has caught up.
Exact(ledger) ==
  /\ \A s \in Sources : held[s] > 0 => s \in ledger.sources
  /\ \A s \in ledger.sources : Tracked(s) \/ dropping[s] > 0
  /\ \A v \in Vias :
       ledger.inFlight[v] = transit[v] + arrived[v] + Cardinality(BeingSent(v))

\* It will be, after the messages that are in its channel now.
LedgersExact ==
  \E future \in [0 .. Len(queue) -> Ledgers] : IsFuture(future) /\ Exact(future[Len(queue)])

AllReceiversOpen == \A v \in Vias : receiver[v] = "open"

\* One more message, one more ledger.
LEMMA ExactGrows ==
  ASSUME TypeOK, NEW future, IsFuture(future), NEW m \in Messages, ToOwner(m), UNCHANGED sm,
         NEW next, next = After(future[Len(queue)], m), Exact(next)'
  PROVE  LedgersExact'
<1>0. PICK n \in Nat : n = Len(queue)
  BY DEF TypeOK
<1>1. /\ Len(queue') = n + 1 /\ LedgerNow' = LedgerNow
      /\ \A i \in 1 .. n : queue'[i] = queue[i]
      /\ queue'[n + 1] = m
  BY <1>0 DEF TypeOK, ToOwner, LedgerNow
<1>2. future \in [0 .. n -> Ledgers] /\ next = After(future[n], m) /\ next \in Ledgers
  BY <1>0, AfterTyped DEF IsFuture
<1>3. PICK f \in [0 .. n + 1 -> Ledgers] :
        (\A i \in 0 .. n : f[i] = future[i]) /\ f[n + 1] = next
  <2> DEFINE g == [i \in 0 .. n + 1 |-> IF i <= n THEN future[i] ELSE next]
  <2>1. g \in [0 .. n + 1 -> Ledgers]
    BY <1>2
  <2>2. (\A i \in 0 .. n : g[i] = future[i]) /\ g[n + 1] = next
    OBVIOUS
  <2>3. QED
    BY <2>1, <2>2
<1>4. f[0] = LedgerNow'
  BY <1>0, <1>1, <1>3 DEF IsFuture
<1>5. ASSUME NEW i \in 1 .. n + 1 PROVE f[i] = After(f[i-1], queue'[i])
  <2>1. CASE i \in 1 .. n
    BY <1>0, <1>1, <1>3, <2>1 DEF IsFuture
  <2>2. CASE i = n + 1
    BY <1>1, <1>2, <1>3, <2>2
  <2>3. QED
    BY <1>1, <2>1, <2>2
<1>6. IsFuture(f)'
  BY <1>1, <1>4, <1>5 DEF IsFuture
<1>7. Exact(f[Len(queue)])'
  BY <1>1, <1>3 DEF Exact
<1>8. QED
  BY <1>1, <1>6, <1>7 DEF LedgersExact

\* Nothing for the owner: the last ledger has to stay exact.
LEMMA ExactStays ==
  ASSUME TypeOK, NEW future, IsFuture(future), UNCHANGED <<queue, LedgerNow>>,
         NEW last, last = future[Len(queue)], Exact(last)'
  PROVE  LedgersExact'
<1>1. IsFuture(future)'
  BY DEF IsFuture
<1>2. Exact(future[Len(queue)])'
  BY DEF Exact
<1>3. QED
  BY <1>1, <1>2 DEF LedgersExact, IsFuture

\* The owner has handled a message: one ledger less.
LEMMA ExactShrinks ==
  ASSUME TypeOK, NEW future, IsFuture(future), queue # <<>>, queue' = Tail(queue),
         LedgerNow' = After(LedgerNow, Head(queue)),
         NEW last, last = future[Len(queue)], Exact(last)'
  PROVE  LedgersExact'
<1>0. PICK n \in Nat \ {0} : n = Len(queue)
  BY DEF TypeOK
<1>1. /\ Len(queue') = n - 1 /\ \A i \in 1 .. n - 1 : queue'[i] = queue[i + 1]
      /\ Head(queue) = queue[1]
  BY <1>0 DEF TypeOK
<1>2. future \in [0 .. n -> Ledgers] /\ last = future[n]
  BY <1>0 DEF IsFuture
<1>3. PICK f \in [0 .. n - 1 -> Ledgers] : \A i \in 0 .. n - 1 : f[i] = future[i + 1]
  <2> DEFINE g == [i \in 0 .. n - 1 |-> future[i + 1]]
  <2>1. g \in [0 .. n - 1 -> Ledgers] /\ \A i \in 0 .. n - 1 : g[i] = future[i + 1]
    BY <1>2
  <2>2. QED
    BY <2>1
<1>4. f[0] = LedgerNow'
  BY <1>0, <1>1, <1>3 DEF IsFuture
<1>5. ASSUME NEW i \in 1 .. n - 1 PROVE f[i] = After(f[i-1], queue'[i])
  <2>1. f[i] = future[i + 1] /\ f[i-1] = future[i] /\ i + 1 \in 1 .. n
    BY <1>3
  <2>2. future[i + 1] = After(future[i], queue[i + 1])
    BY <1>0, <2>1 DEF IsFuture
  <2>3. QED
    BY <1>1, <2>1, <2>2
<1>6. IsFuture(f)'
  BY <1>1, <1>3, <1>4, <1>5 DEF IsFuture
<1>7. f[n - 1] = last
  BY <1>2, <1>3
<1>8. Exact(f[Len(queue)])'
  BY <1>1, <1>7 DEF Exact
<1>9. QED
  BY <1>1, <1>6, <1>8 DEF LedgersExact

\* A step that gives up a copy: what was tracked is, or its drop is under way.
LEMMA TrackerNotForgotten ==
  ASSUME TypeOK, NEW s \in Sources, TrackerDrop(s), NEW t \in Sources,
         t # s => (Tracked(t) => Tracked(t)'),
         Tracked(t) \/ dropping[t] > 0
  PROVE  Tracked(t)' \/ dropping'[t] > 0
<1>1. dropping \in [Sources -> Nat]
  BY DEF TypeOK
<1>2. CASE t = s
  BY <1>1, <1>2 DEF TrackerDrop
<1>3. CASE t # s
  BY <1>1, <1>3 DEF TrackerDrop
<1>4. QED
  BY <1>2, <1>3

\* A step of a holder leaves the ledgers to come exact.
LEMMA HolderExact ==
  ASSUME Faultless, TypeOK, SendersHold, DropsAreFinal, AllChannelsOpen,
         NEW s \in Sources, HolderStep(s), LedgersExact
  PROVE  LedgersExact'
<1> USE DEF ownerVars, holderVars, viaVars
<1>0. PICK future : IsFuture(future) /\ Exact(future[Len(queue)])
  BY DEF LedgersExact
<1>a. PICK last \in Ledgers : last = future[Len(queue)] /\ Exact(last)
  <2>1. Len(queue) \in 0 .. Len(queue)
    BY DEF TypeOK
  <2>2. QED
    BY <1>0, <2>1 DEF IsFuture
<1>b. /\ held \in [Sources -> Nat] /\ dropping \in [Sources -> Nat]
      /\ sending \in [Sources -> Vias \cup {NoVia}]
      /\ transit \in [Vias -> Nat] /\ arrived \in [Vias -> Nat]
      /\ last.sources \in SUBSET Sources /\ last.inFlight \in [Vias -> Nat]
  BY DEF TypeOK, Ledgers
<1>1. CASE SendData(s)
  <2>1. After(last, Data) = last /\ Data \in Messages
    BY AfterNoVia, MessagesTyped
  <2>2. Exact(last)'
    BY <1>a, <1>1 DEF SendData, Exact, BeingSent, Tracked, ArrivedAt
  <2>3. UNCHANGED sm /\ ToOwner(Data)
    BY <1>1 DEF SendData
  <2>4. QED
    BY <1>0, <1>a, <2>1, <2>2, <2>3, ExactGrows
<1>2. CASE Clone(s) \/ DropCopy(s)
  <2>1. /\ held[s] > 0 /\ UNCHANGED <<sending, transit, arrived>>
        /\ \A t \in Sources : t # s => held'[t] = held[t]
    BY <1>b, <1>2 DEF Clone, DropCopy
  <2>2. ASSUME NEW t \in Sources, held'[t] > 0 PROVE t \in last.sources
    <3>1. held[t] > 0
      BY <2>1, <2>2
    <3>2. QED
      BY <1>a, <3>1 DEF Exact
  <2>3. ASSUME NEW t \in last.sources PROVE Tracked(t)' \/ dropping'[t] > 0
    <3>1. t # s => (Tracked(t) => Tracked(t)')
      BY <1>b, <2>1 DEF Tracked, ArrivedAt
    <3>2. Tracked(t) \/ dropping[t] > 0
      BY <1>a DEF Exact
    <3>3. CASE Clone(s)
      BY <1>b, <2>1, <3>2, <3>3 DEF Clone, Tracked, ArrivedAt
    <3>4. CASE DropCopy(s)
      BY <1>b, <3>1, <3>2, <3>4, TrackerNotForgotten DEF DropCopy
    <3>5. QED
      BY <1>2, <3>3, <3>4
  <2>4. Exact(last)'
    BY <1>a, <2>1, <2>2, <2>3 DEF Exact, BeingSent
  <2>5. UNCHANGED <<queue, LedgerNow>>
    BY <1>2 DEF Clone, DropCopy, LedgerNow
  <2>6. QED
    BY <1>0, <1>a, <2>4, <2>5, ExactStays
<1>3. CASE FinishDrop(s)
  <2>0. PICK next : next = After(last, Disconnect(s))
    OBVIOUS
  <2>1. next = [sources |-> last.sources \ {s}, inFlight |-> last.inFlight]
    BY <2>0, AfterNoVia
  <2>2. held[s] = 0
    BY <1>3, <1>b DEF FinishDrop, DropsAreFinal, Tracked
  <2>3. \A t \in Sources : t # s => dropping'[t] = dropping[t]
    BY <1>3, <1>b DEF FinishDrop
  <2>4. Exact(next)'
    BY <1>a, <1>b, <1>3, <2>1, <2>2, <2>3 DEF FinishDrop, Exact, BeingSent, Tracked, ArrivedAt
  <2>5. UNCHANGED sm /\ ToOwner(Disconnect(s)) /\ Disconnect(s) \in Messages
    BY <1>3, MessagesTyped DEF FinishDrop
  <2>6. QED
    BY <1>0, <1>a, <2>0, <2>4, <2>5, ExactGrows
<1>4. ASSUME NEW v \in Vias, BeginSend(s, v) PROVE LedgersExact'
  <2>1. PICK next : next = After(last, Sending(v))
    OBVIOUS
  <2>2. next = [sources |-> last.sources, inFlight |-> SM!WithOne(last.inFlight, v)]
    BY <2>1, AfterCases, AtTyped
  <2>3. s \notin BeingSent(v) /\ BeingSent(v)' = BeingSent(v) \cup {s}
    BY <1>4, LifecycleAssumption DEF BeginSend, BeingSent, TypeOK
  <2>4. Cardinality(BeingSent(v)') = Cardinality(BeingSent(v)) + 1
    BY <2>3, BeingSentCounted, FS_AddElement
  <2>5. \A w \in Vias : w # v => BeingSent(w)' = BeingSent(w)
    BY <1>4, LifecycleAssumption DEF BeginSend, BeingSent, TypeOK
  <2>6. ASSUME NEW w \in Vias
        PROVE  next.inFlight[w] = transit'[w] + arrived'[w] + Cardinality(BeingSent(w)')
    <3>1. transit'[w] = transit[w] /\ arrived'[w] = arrived[w]
      BY <1>4 DEF BeginSend
    <3>2. transit[w] + arrived[w] + Cardinality(BeingSent(w)) = last.inFlight[w]
      BY <1>a DEF Exact
    <3>3. next.inFlight[w] = IF w = v THEN last.inFlight[w] + 1 ELSE last.inFlight[w]
      BY <1>b, <2>2 DEF SM!WithOne
    <3>4. QED
      BY <1>b, <2>4, <2>5, <3>1, <3>2, <3>3, BeingSentCounted
  <2>7. /\ \A t \in Sources : held'[t] > 0 => t \in next.sources
        /\ \A t \in next.sources : Tracked(t)' \/ dropping'[t] > 0
    BY <1>a, <1>4, <2>2 DEF BeginSend, Exact, Tracked, ArrivedAt
  <2>8. Exact(next)'
    BY <2>6, <2>7 DEF Exact
  <2>9. UNCHANGED sm /\ ToOwner(Sending(v)) /\ Sending(v) \in Messages
    BY <1>4, MessagesTyped DEF BeginSend
  <2>10. QED
    BY <1>0, <1>a, <2>1, <2>8, <2>9, ExactGrows
<1>5. CASE EndSend(s)
  <2>1. PICK v \in Vias : v = sending[s]
    BY <1>5, <1>b DEF EndSend
  <2>2. transit' = [transit EXCEPT ![v] = @ + 1] /\ arrived' = arrived
    BY <1>5, <2>1, AtTyped DEF EndSend, AllChannelsOpen
  <2>3. s \in BeingSent(v) /\ BeingSent(v)' = BeingSent(v) \ {s}
    BY <1>5, <2>1, LifecycleAssumption DEF EndSend, BeingSent, TypeOK
  <2>4. Cardinality(BeingSent(v)') = Cardinality(BeingSent(v)) - 1
    BY <2>3, BeingSentCounted, FS_RemoveElement
  <2>5. \A w \in Vias : w # v => BeingSent(w)' = BeingSent(w)
    BY <1>5, <2>1, LifecycleAssumption DEF EndSend, BeingSent, TypeOK
  <2>6. ASSUME NEW w \in Vias
        PROVE  last.inFlight[w] = transit'[w] + arrived'[w] + Cardinality(BeingSent(w)')
    <3>1. /\ transit'[w] = IF w = v THEN transit[w] + 1 ELSE transit[w]
          /\ arrived'[w] = arrived[w]
      BY <1>b, <2>2
    <3>2. transit[w] + arrived[w] + Cardinality(BeingSent(w)) = last.inFlight[w]
      BY <1>a DEF Exact
    <3>3. QED
      BY <1>b, <2>4, <2>5, <3>1, <3>2, BeingSentCounted
  <2>7. \A t \in Sources : held'[t] > 0 => t \in last.sources
    BY <1>a, <1>b, <1>5 DEF EndSend, Exact, SendersHold
  <2>8. ASSUME NEW t \in last.sources PROVE Tracked(t)' \/ dropping'[t] > 0
    <3>1. t # s => (Tracked(t) => Tracked(t)')
      BY <1>b, <1>5, <2>2 DEF EndSend, Tracked, ArrivedAt
    <3>2. Tracked(t) \/ dropping[t] > 0
      BY <1>a DEF Exact
    <3>3. QED
      BY <1>b, <1>5, <3>1, <3>2, TrackerNotForgotten DEF EndSend
  <2>9. Exact(last)'
    BY <2>6, <2>7, <2>8 DEF Exact
  <2>10. UNCHANGED <<queue, LedgerNow>>
    BY <1>5 DEF EndSend, LedgerNow
  <2>11. QED
    BY <1>0, <1>a, <2>9, <2>10, ExactStays
<1>6. ~Crash(s)
  BY DEF Crash, Faultless
<1>7. QED
  BY <1>1, <1>2, <1>3, <1>4, <1>5, <1>6 DEF HolderStep

\* So does a step at the other end of a via.
LEMMA ViaExact ==
  ASSUME Faultless, TypeOK, AllReceiversOpen, NEW v \in Vias, ViaStep(v), LedgersExact
  PROVE  LedgersExact' /\ AllReceiversOpen'
<1> USE DEF ownerVars, holderVars, viaVars
<1>0. PICK future : IsFuture(future) /\ Exact(future[Len(queue)])
  BY DEF LedgersExact
<1>a. PICK last \in Ledgers : last = future[Len(queue)] /\ Exact(last)
  <2>1. Len(queue) \in 0 .. Len(queue)
    BY DEF TypeOK
  <2>2. QED
    BY <1>0, <2>1 DEF IsFuture
<1>b. /\ held \in [Sources -> Nat] /\ dropping \in [Sources -> Nat]
      /\ transit \in [Vias -> Nat] /\ arrived \in [Vias -> Nat]
      /\ last.sources \in SUBSET Sources /\ last.inFlight \in [Vias -> Nat]
      /\ At[v] \in Receivers /\ At[v] \in Sources
  BY AtTyped DEF TypeOK, Ledgers
<1>1. CASE Demultiplex(v)
  <2>1. /\ transit' = [transit EXCEPT ![v] = @ - 1] /\ arrived' = [arrived EXCEPT ![v] = @ + 1]
        /\ transit[v] > 0 /\ UNCHANGED <<queue, sm, held, sending, dropping, receiver>>
    BY <1>1 DEF Demultiplex, AllReceiversOpen
  <2>2. \A w \in Vias : /\ transit'[w] = IF w = v THEN transit[w] - 1 ELSE transit[w]
                        /\ arrived'[w] = IF w = v THEN arrived[w] + 1 ELSE arrived[w]
    BY <1>b, <2>1
  <2>3. ASSUME NEW w \in Vias
        PROVE  last.inFlight[w] = transit'[w] + arrived'[w] + Cardinality(BeingSent(w)')
    <3>1. BeingSent(w)' = BeingSent(w)
      BY <2>1 DEF BeingSent
    <3>2. transit[w] + arrived[w] + Cardinality(BeingSent(w)) = last.inFlight[w]
      BY <1>a DEF Exact
    <3>3. QED
      BY <1>b, <2>2, <3>1, <3>2, BeingSentCounted
  <2>4. \A t \in Sources : Tracked(t) => Tracked(t)'
    BY <1>b, <2>1, <2>2 DEF Tracked, ArrivedAt
  <2>5. Exact(last)'
    BY <1>a, <1>b, <2>1, <2>3, <2>4 DEF Exact
  <2>6. QED
    BY <1>0, <1>a, <2>1, <2>5, ExactStays DEF LedgerNow, AllReceiversOpen
<1>2. CASE Receive(v)
  <2>1. PICK r \in Sources : r = At[v] /\ r \in Receivers
    BY <1>b
  <2>2. /\ arrived' = [arrived EXCEPT ![v] = @ - 1] /\ held' = [held EXCEPT ![r] = @ + 1]
        /\ arrived[v] > 0 /\ ToOwner(Received(v, r))
        /\ UNCHANGED <<sm, sending, dropping, transit, receiver>>
    BY <1>2, <2>1 DEF Receive
  <2>3. PICK next : next = After(last, Received(v, r))
    OBVIOUS
  <2>4. next = [sources |-> last.sources \cup {r}, inFlight |-> SM!WithoutOne(last.inFlight, v)]
    BY <2>1, <2>3, AfterCases
  <2>5. /\ Received(v, r) \in Messages
        /\ \A w \in Vias : arrived'[w] = IF w = v THEN arrived[w] - 1 ELSE arrived[w]
        /\ \A t \in Sources : held'[t] = IF t = r THEN held[t] + 1 ELSE held[t]
    BY <1>b, <2>1, <2>2, MessagesTyped
  <2>6. ASSUME NEW w \in Vias
        PROVE  next.inFlight[w] = transit'[w] + arrived'[w] + Cardinality(BeingSent(w)')
    <3>1. BeingSent(w)' = BeingSent(w) /\ transit'[w] = transit[w]
      BY <2>2 DEF BeingSent
    <3>2. transit[w] + arrived[w] + Cardinality(BeingSent(w)) = last.inFlight[w]
      BY <1>a DEF Exact
    <3>3. next.inFlight[w] = IF w # v THEN last.inFlight[w]
                             ELSE IF last.inFlight[w] = 0 THEN 0 ELSE last.inFlight[w] - 1
      BY <1>b, <2>4 DEF SM!WithoutOne
    <3>4. arrived[v] \in Nat /\ arrived[w] \in Nat /\ transit[w] \in Nat
          /\ last.inFlight[w] \in Nat /\ Cardinality(BeingSent(w)) \in Nat
      BY <1>b, BeingSentCounted
    <3>5. QED
      BY <2>2, <2>5, <3>1, <3>2, <3>3, <3>4
  <2>7. \A t \in Sources : held'[t] > 0 => t \in next.sources
    BY <1>a, <1>b, <2>4, <2>5 DEF Exact
  <2>8. ASSUME NEW t \in next.sources PROVE Tracked(t)' \/ dropping'[t] > 0
    <3>1. CASE t = r
      BY <1>b, <2>5, <3>1 DEF Tracked
    <3>2. CASE t # r
      <4>1. t \in last.sources /\ held'[t] = held[t]
        BY <1>b, <2>4, <2>5, <3>2
      <4>2. ArrivedAt(t) => ArrivedAt(t)'
        BY <2>1, <2>5, <3>2 DEF ArrivedAt
      <4>3. QED
        BY <1>a, <2>2, <4>1, <4>2 DEF Exact, Tracked
    <3>3. QED
      BY <3>1, <3>2
  <2>9. Exact(next)'
    BY <2>6, <2>7, <2>8 DEF Exact
  <2>10. QED
    BY <1>0, <1>a, <2>2, <2>3, <2>5, <2>9, ExactGrows DEF AllReceiversOpen
<1>3. ~FailToDeserialize(v) /\ ~DropReceiver(v) /\ ~FailArrived(v) /\ ~CloseReceiver(v)
  BY DEF FailToDeserialize, DropReceiver, FailArrived, CloseReceiver, Faultless, AllReceiversOpen
<1>4. QED
  BY <1>1, <1>2, <1>3 DEF ViaStep

\* The owner goes on to the next ledger, or keeps the one it has.  While all
\* channels are open it polls in vain.
LEMMA OwnerMovesOn ==
  ASSUME TypeOK, OwnerStep, AllChannelsOpen, NoFailedProbe
  PROVE  \/ UNCHANGED <<queue, LedgerNow>>
         \/ /\ queue # <<>> /\ queue' = Tail(queue)
            /\ LedgerNow' = After(LedgerNow, Head(queue))
<1>0. sm \in Machines
  BY DEF TypeOK, Machines
<1>a. /\ sm.maybe \in BOOLEAN /\ sm.sources \in SUBSET Sources
      /\ sm.inFlight \in [Vias -> Nat] /\ sm.probes \in [Vias -> Probes \cup {NoProbe}]
  BY <1>0 DEF Machines, SM!StateMachines
<1>1. CASE HandleData
  BY <1>1 DEF HandleData, Handle, After, LedgerNow
<1>2. CASE HandleSending
  <2>1. Handle("Sending") /\ Head(queue).type = "Sending" /\ Head(queue).via \in Vias
    BY <1>2, HandleTyped, HeadTyped DEF HandleSending, Handle
  <2>2. sm' = SM!ToBeSent(sm, Head(queue).via, Head(queue).via)
    BY <1>2, <2>1, AtTyped DEF HandleSending, AllChannelsOpen
  <2>3. sm'.sources = sm.sources /\ sm'.inFlight = SM!WithOne(sm.inFlight, Head(queue).via)
    BY <1>0, <2>2 DEF SM!ToBeSent, Machines, SM!StateMachines
  <2>4. QED
    BY <2>1, <2>3 DEF Handle, After, LedgerNow
<1>3. CASE HandleReceived
  <2>1. Handle("Received") /\ Head(queue).type = "Received"
    BY <1>3 DEF HandleReceived, Handle
  <2>2. /\ sm'.sources = sm.sources \cup {Head(queue).source}
        /\ sm'.inFlight = SM!WithoutOne(sm.inFlight, Head(queue).via)
    BY <1>0, <1>3 DEF HandleReceived, SM!Received, Machines, SM!StateMachines
  <2>3. QED
    BY <2>1, <2>2 DEF Handle, After, LedgerNow
<1>4. CASE HandleReceiveFailed
  <2>1. /\ Handle("ReceiveFailed") /\ Head(queue).type = "ReceiveFailed"
        /\ Head(queue).via \in Vias
    BY <1>4, HandleTyped, HeadTyped DEF HandleReceiveFailed, Handle
  <2>2. PICK x : x = [sm EXCEPT !.inFlight = SM!WithoutOne(sm.inFlight, Head(queue).via)]
    OBVIOUS
  <2>3. x \in Machines /\ sm' = SM!TakeIfVacant(x)
    BY <1>0, <1>4, <2>1, <2>2, BagsTyped
       DEF HandleReceiveFailed, SM!ReceiveFailed, Machines, SM!StateMachines
  <2>4. /\ x.sources = sm.sources
        /\ x.inFlight = SM!WithoutOne(sm.inFlight, Head(queue).via)
    BY <1>0, <2>2 DEF Machines, SM!StateMachines
  <2>5. sm'.sources = x.sources /\ sm'.inFlight = x.inFlight
    BY <2>3, TakeTyped
  <2>6. QED
    BY <2>1, <2>4, <2>5 DEF Handle, After, LedgerNow
<1>5. CASE HandleDisconnect
  <2>1. Handle("Disconnect") /\ Head(queue).type = "Disconnect"
    BY <1>5 DEF HandleDisconnect, Handle
  <2>2. PICK x : x = [sm EXCEPT !.sources = sm.sources \ {Head(queue).source}]
    OBVIOUS
  <2>3. x \in Machines /\ sm' = SM!TakeIfVacant(x)
    BY <1>0, <1>5, <2>2 DEF HandleDisconnect, SM!Disconnect, Machines, SM!StateMachines
  <2>4. x.sources = sm.sources \ {Head(queue).source} /\ x.inFlight = sm.inFlight
    BY <1>0, <2>2 DEF Machines, SM!StateMachines
  <2>5. sm'.sources = x.sources /\ sm'.inFlight = x.inFlight
    BY <2>3, TakeTyped
  <2>6. QED
    BY <2>1, <2>4, <2>5 DEF Handle, After, LedgerNow
<1>6. CASE TimeOut
  BY <1>6 DEF TimeOut, LedgerNow
<1>7. CASE Poll
  <2>1. SM!LostVias(sm, FailingProbes) = {}
    <3>1. FailingProbes = {FailedProbe}
      BY AtTyped DEF FailingProbes, AllChannelsOpen
    <3>2. QED
      BY <3>1 DEF SM!LostVias, NoFailedProbe
  <2>2. PICK x : x = SM!WriteOff(sm, {})
    OBVIOUS
  <2>3. x \in Machines /\ x.sources = sm.sources /\ x.inFlight = sm.inFlight
    BY <1>0, <1>a, <2>2 DEF SM!WriteOff, Machines, SM!StateMachines
  <2>4. sm' = SM!TakeIfVacant(x) \/ sm' = sm
    BY <1>7, <2>1, <2>2 DEF Poll, SM!Poll
  <2>5. sm'.sources = sm.sources /\ sm'.inFlight = sm.inFlight
    BY <2>3, <2>4, TakeTyped
  <2>6. QED
    BY <1>7, <2>5 DEF Poll, LedgerNow
<1>8. QED
  BY <1>1, <1>2, <1>3, <1>4, <1>5, <1>6, <1>7 DEF OwnerStep

\* The owner leaves the copies alone, and so the last ledger exact.
LEMMA OwnerExact ==
  ASSUME TypeOK, AllChannelsOpen, NoFailedProbe, OwnerStep, LedgersExact
  PROVE  LedgersExact'
<1>0. PICK future : IsFuture(future) /\ Exact(future[Len(queue)])
  BY DEF LedgersExact
<1>1. PICK last : last = future[Len(queue)]
  OBVIOUS
<1>2. UNCHANGED <<holderVars, viaVars>>
  BY DEF OwnerStep, HandleData, HandleSending, HandleReceived, HandleReceiveFailed,
         HandleDisconnect, Handle, TimeOut, Poll
<1>3. Exact(last)'
  BY <1>0, <1>1, <1>2 DEF holderVars, viaVars, Exact, Tracked, ArrivedAt, BeingSent
<1>4. QED
  BY <1>0, <1>1, <1>3, OwnerMovesOn, ExactStays, ExactShrinks

\* At first there is one ledger, with the origin's copy in it.
LEMMA InitExact == Init => AllReceiversOpen /\ LedgersExact
<1> SUFFICES ASSUME Init PROVE AllReceiversOpen /\ LedgersExact
  OBVIOUS
<1>1. sm = [maybe |-> TRUE, sources |-> {Origin}, inFlight |-> [v \in Vias |-> 0],
            probes |-> [v \in Vias |-> NoProbe]]
  BY DEF Init, SM!New
<1>2. LedgerNow \in Ledgers
  BY <1>1 DEF LedgerNow, Ledgers, Sources
<1>3. PICK future \in [0 .. 0 -> Ledgers] : future[0] = LedgerNow
  <2>1. /\ [i \in 0 .. 0 |-> LedgerNow] \in [0 .. 0 -> Ledgers]
        /\ [i \in 0 .. 0 |-> LedgerNow][0] = LedgerNow
    BY <1>2
  <2>2. QED
    BY <2>1
<1>4. Len(queue) = 0
  BY DEF Init
<1>5. \A v \in Vias : BeingSent(v) = {}
  BY LifecycleAssumption DEF Init, BeingSent
<1>6. \A v \in Vias : Cardinality(BeingSent(v)) = 0
  BY <1>5, FS_EmptySet
<1>7. Exact(LedgerNow)
  <2>1. LedgerNow.sources = {Origin} /\ LedgerNow.inFlight = [v \in Vias |-> 0]
    BY <1>1 DEF LedgerNow
  <2>2. \A s \in Sources : held[s] = IF s = Origin THEN 1 ELSE 0
    BY DEF Init
  <2>3. Origin \in Sources
    BY DEF Sources
  <2>4. QED
    BY <1>6, <2>1, <2>2, <2>3 DEF Init, Exact, Tracked
<1>8. IsFuture(future)
  BY <1>3, <1>4 DEF IsFuture
<1>9. QED
  BY <1>3, <1>4, <1>7, <1>8 DEF Init, AllReceiversOpen, LedgersExact

LEMMA ExactStep ==
  ASSUME Faultless, IInv, AllChannelsOpen, AllReceiversOpen, LedgersExact, [Next]_vars
  PROVE  AllReceiversOpen' /\ LedgersExact'
<1>0. TypeOK /\ SendersHold /\ DropsAreFinal /\ NoFailedProbe
  BY DEF IInv, LedgersSafe
<1>1. ASSUME NEW s \in Sources, HolderStep(s) PROVE AllReceiversOpen' /\ LedgersExact'
  <2>1. UNCHANGED receiver
    BY <1>1 DEF HolderStep, SendData, Clone, DropCopy, FinishDrop, BeginSend, EndSend,
                Crash, viaVars
  <2>2. QED
    BY <1>0, <1>1, <2>1, HolderExact DEF AllReceiversOpen
<1>2. ASSUME NEW v \in Vias, ViaStep(v) PROVE AllReceiversOpen' /\ LedgersExact'
  BY <1>0, <1>2, ViaExact
<1>3. ASSUME NEW r \in Receivers, LeaveChannel(r) PROVE FALSE
  BY <1>3 DEF LeaveChannel, Faultless
<1>4. CASE OwnerStep
  <2>1. UNCHANGED receiver
    BY <1>4 DEF OwnerStep, HandleData, HandleSending, HandleReceived, HandleReceiveFailed,
                HandleDisconnect, Handle, TimeOut, Poll, viaVars
  <2>2. QED
    BY <1>0, <1>4, <2>1, OwnerExact DEF AllReceiversOpen
<1>5. CASE UNCHANGED vars
  <2>1. UNCHANGED receiver /\ UNCHANGED <<queue, LedgerNow>>
    BY <1>5 DEF vars, LedgerNow
  <2>2. PICK future : IsFuture(future) /\ Exact(future[Len(queue)])
    BY DEF LedgersExact
  <2>3. PICK last : last = future[Len(queue)]
    OBVIOUS
  <2>4. Exact(last)'
    BY <1>5, <2>2, <2>3 DEF vars, Exact, Tracked, ArrivedAt, BeingSent
  <2>5. QED
    BY <1>0, <2>1, <2>2, <2>3, <2>4, ExactStays DEF AllReceiversOpen
<1>6. QED
  BY <1>1, <1>2, <1>3, <1>4, <1>5 DEF Next

\* When nothing fails and each process uses the subsender in one thread, an
\* owner that has caught up knows exactly which sources hold copies, or will
\* send their Disconnect, and how many copies are in flight on each via.
THEOREM LedgerTrue ==
  ASSUME Faultless
  PROVE  Spec => []LedgerExact
<1>1. Threaded = {} /\ ChannelsStay
  BY DEF Faultless, ChannelsStay
<1>2. Spec => [](AllReceiversOpen /\ LedgersExact)
  <2>1. Init => AllReceiversOpen /\ LedgersExact
    BY InitExact
  <2>2. /\ IInv /\ AllChannelsOpen /\ (AllReceiversOpen /\ LedgersExact) /\ [Next]_vars
        => (AllReceiversOpen /\ LedgersExact)'
    BY ExactStep
  <2>3. QED
    BY <1>1, <2>1, <2>2, InvariantHolds, ChannelsStayOpen, PTL DEF Spec
<1>3. LedgersExact => LedgerExact
  <2> SUFFICES ASSUME LedgersExact, queue = <<>> PROVE LedgerExact
    BY DEF LedgerExact
  <2>1. PICK future : IsFuture(future) /\ Exact(future[Len(queue)])
    BY DEF LedgersExact
  <2>2. Len(queue) = 0 /\ future[0] = LedgerNow
    BY <2>1 DEF IsFuture
  <2>3. PICK now : now = LedgerNow /\ Exact(now)
    BY <2>1, <2>2
  <2>4. now.sources = sm.sources /\ now.inFlight = sm.inFlight
    BY <2>3 DEF LedgerNow
  <2>5. QED
    BY <2>3, <2>4 DEF Exact, LedgerExact
<1>4. QED
  BY <1>2, <1>3, PTL
=============================================================================
