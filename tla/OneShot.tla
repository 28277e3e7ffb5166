------------------------------- MODULE OneShot -------------------------------
(***************************************************************************)
(* A one-shot server, the client that connects to it, and what the         *)
(* messages of the client carry.                                           *)
(*                                                                         *)
(* The client finds the server by its name, sends Connect and then the id  *)
(* of the subchannel (SubSender::connect), and its threads send on clones  *)
(* of the subsender.  The server's accept takes these two messages, and    *)
(* the first message of the subchannel.                                    *)
(*                                                                         *)
(* A message is serialized in two stages.  Its payload has an index in     *)
(* place of a shared memory region, a raw IPC sender or a raw IPC receiver,*)
(* and just the id of a subsender.  The handles themselves go through      *)
(* lists: serialization leaves them in lists of the sending thread, send   *)
(* takes these for the Data message, and deserialization finds them in     *)
(* lists of the receiving thread, at the index or, for subsenders, in      *)
(* order.  A serialization that fails leaves its handles in the lists.     *)
(*                                                                         *)
(* SubSender::connect must not be called twice for a server; the subsender *)
(* it makes is not sent anywhere.  One thread receives, and the local      *)
(* queue holds at most what it took from the IPC channel for itself.       *)
(*                                                                         *)
(* The owners of embedded subsenders stay: sending them Sending succeeds,  *)
(* and the receiver refuses no message for an IPC sender that does not     *)
(* resolve.                                                                *)
(***************************************************************************)
EXTENDS Naturals, Sequences, FiniteSets, SequencesExt

CONSTANTS
  Threads,   \* the threads of the client
  Bodies,    \* what messages may consist of: sequences of items
  Mute,      \* items whose serialization fails for a reason of their own
  MaxSends   \* bound: calls of send

Kinds == {"shared_memory", "sender", "receiver", "subsender"}

Handles == UNION {{body[i].handle : i \in DOMAIN body} : body \in Bodies}

Items == [kind : Kinds, handle : Handles]

ASSUME OneShotAssumption ==
  /\ Bodies \subseteq Seq(Items)
  /\ MaxSends \in Nat

VARIABLES
  client,    \* how far the client is
  holding,   \* threads that have a clone of the subsender
  lists,     \* lists[t]: the lists of thread t, one for each kind of handle
  wrapped,   \* handles of raw IPC receivers that the client has in a wrapper
  calls,     \* number of calls of send
  sent,      \* the bodies of the messages sent
  ipc,       \* the IPC channel
  open,      \* whether the server has its IPC receiver
  server,    \* how far the server is
  got        \* the bodies of the messages received

clientVars == <<client, holding, lists, wrapped, calls, sent>>
vars == <<clientVars, ipc, open, server, got>>

NoHandles == [k \in Kinds |-> <<>>]

Receivers(body) == {body[i].handle : i \in {j \in DOMAIN body : body[j].kind = "receiver"}}

Init ==
  /\ client = "new" /\ holding = {} /\ lists = [t \in Threads |-> NoHandles]
  /\ wrapped = UNION {Receivers(body) : body \in Bodies}
  /\ calls = 0 /\ sent = <<>> /\ ipc = <<>> /\ open = TRUE
  /\ server = "listening" /\ got = <<>>
-----------------------------------------------------------------------------
(* Serialization and deserialization.                                      *)

Failed(progress) == [progress EXCEPT !.failed = TRUE]

\* Faulty variant (README, Mutants): leaves the receiver in its wrapper.
WriteCopy(progress, item) ==
  IF progress.failed \/ item \in Mute THEN Failed(progress)
  ELSE [progress EXCEPT
          !.payload = Append(@, [kind |-> item.kind, id |-> item.handle,
                                 index |-> Len(progress.lists[item.kind]) + 1]),
          !.lists[item.kind] = Append(@, item.handle)]

\* Serialize of the wrappers: a receiver is moved out, all else is cloned.  The
\* id stands for that of a subsender, and is used for subsenders only.
Write(progress, item) ==
  IF \/ progress.failed \/ item \in Mute
     \/ item.kind = "receiver" /\ item.handle \notin progress.wrapped
  THEN Failed(progress)
  ELSE [progress EXCEPT
          !.payload = Append(@, [kind |-> item.kind, id |-> item.handle,
                                 index |-> Len(progress.lists[item.kind]) + 1]),
          !.lists[item.kind] = Append(@, item.handle),
          !.wrapped = IF item.kind = "receiver" THEN @ \ {item.handle} ELSE @]

\* The progress of serialization, item by item.
Writing(body, before) ==
  LET progress[n \in 0 .. Len(body)] ==
        IF n = 0 THEN [payload |-> <<>>, lists |-> before, wrapped |-> wrapped, failed |-> FALSE]
        ELSE Write(progress[n - 1], body[n])
  IN  progress

Serialize(body, before) == Writing(body, before)[Len(body)]

\* What is found in the list at an index: an option, which is taken.
Present(list, i) == i \in DOMAIN list /\ list[i] # {}

\* A subsender is put together from the id in the payload and the next IPC
\* sender; items whose halves do not match are not those that were sent.
Read(progress, entry) ==
  LET list == progress.lists[entry.kind]
      next == IF entry.kind = "subsender" THEN 1 ELSE entry.index
      found == CHOOSE h \in list[next] : TRUE
      rest == IF entry.kind = "subsender" THEN Tail(list) ELSE [list EXCEPT ![next] = {}]
  IN  IF progress.failed \/ ~Present(list, next) THEN Failed(progress)
      ELSE [progress EXCEPT
              !.body = Append(@, IF entry.kind = "subsender" /\ found # entry.id
                                 THEN [kind |-> "mismatch", handle |-> entry.id]
                                 ELSE [kind |-> entry.kind, handle |-> found]),
              !.lists[entry.kind] = rest]

Options(list) == [i \in DOMAIN list |-> {list[i]}]

Reading(m) ==
  LET progress[n \in 0 .. Len(m.payload)] ==
        IF n = 0 THEN [body |-> <<>>, lists |-> [k \in Kinds |-> Options(m.handles[k])],
                       failed |-> FALSE]
        ELSE Read(progress[n - 1], m.payload[n])
  IN  progress

Deserialize(m) == Reading(m)[Len(m.payload)]
-----------------------------------------------------------------------------
(* The client.                                                             *)

Connect      == [type |-> "Connect"]
SubChannelId == [type |-> "SubChannelId"]
Disconnect   == [type |-> "Disconnect"]

Put(m) == ipc' = IF open THEN Append(ipc, m) ELSE ipc

\* Faulty variant (README, Mutants): the subsender is there before its id is sent.
BeginConnectEarly ==
  /\ client = "new" /\ client' = "connecting" /\ Put(Connect) /\ holding' = Threads
  /\ UNCHANGED <<lists, wrapped, calls, sent, open, server, got>>

BeginConnect ==
  /\ client = "new" /\ client' = "connecting" /\ Put(Connect)
  /\ UNCHANGED <<holding, lists, wrapped, calls, sent, open, server, got>>

\* The threads get their clones of the subsender.
EndConnect ==
  /\ client = "connecting" /\ client' = "connected" /\ Put(SubChannelId)
  /\ holding' = Threads
  /\ UNCHANGED <<lists, wrapped, calls, sent, open, server, got>>

\* Faulty variants (README, Mutants): one for each property they must break.
StartListsKeeping(t) == lists[t]

StartListsOfSubSenders(t) == [lists[t] EXCEPT !["subsender"] = <<>>]

\* send clears what a failed serialization may have left.
StartLists(t) == NoHandles

\* The handles leave the lists when all of the message is serialized; if the
\* server is gone they go with the message.
Send(t, body) ==
  LET done == Serialize(body, StartLists(t)) IN
  /\ t \in holding /\ calls < MaxSends /\ calls' = calls + 1
  /\ wrapped' = done.wrapped
  /\ lists' = [lists EXCEPT ![t] = IF done.failed THEN done.lists ELSE NoHandles]
  /\ IF done.failed THEN UNCHANGED <<ipc, sent>>
     ELSE /\ Put([type |-> "Data", payload |-> done.payload, handles |-> done.lists])
          /\ sent' = IF open THEN Append(sent, body) ELSE sent
  /\ UNCHANGED <<client, holding, open, server, got>>

\* Faulty variants (README, Mutants): one for each property they must break.
DropEachSaying(t) ==
  /\ t \in holding /\ holding' = holding \ {t} /\ Put(Disconnect)
  /\ client' = IF holding = {t} THEN "done" ELSE client
  /\ UNCHANGED <<lists, wrapped, calls, sent, open, server, got>>

DropSilently(t) ==
  /\ t \in holding /\ holding' = holding \ {t}
  /\ client' = IF holding = {t} THEN "done" ELSE client
  /\ UNCHANGED <<lists, wrapped, calls, sent, ipc, open, server, got>>

\* The last clone disconnects: the MultiSender has no proxy for the subreceiver,
\* and takes it to be connected.
Drop(t) ==
  /\ t \in holding /\ holding' = holding \ {t}
  /\ IF holding = {t} THEN client' = "done" /\ Put(Disconnect) ELSE UNCHANGED <<client, ipc>>
  /\ UNCHANGED <<lists, wrapped, calls, sent, open, server, got>>

\* The process terminates; what it sent can still be received.
Die ==
  /\ client \in {"connecting", "connected", "done"} /\ client' = "dead"
  /\ holding' = {} /\ lists' = [t \in Threads |-> NoHandles] /\ wrapped' = {}
  /\ UNCHANGED <<calls, sent, ipc, open, server, got>>
-----------------------------------------------------------------------------
(* The server.                                                             *)

Take(m) == ipc # <<>> /\ Head(ipc) = m /\ ipc' = Tail(ipc)

\* The server has dropped its end, as accept fails or its caller is done.
Close == open' = FALSE /\ ipc' = <<>>

HungUp == ipc = <<>> /\ client = "dead"

AcceptConnect ==
  /\ server = "listening" /\ Take(Connect) /\ server' = "connected"
  /\ UNCHANGED <<clientVars, open, got>>

\* receive_sub_channel, and attach.  Its error is not returned but panics.
AcceptSubChannel ==
  /\ server = "connected" /\ (ipc # <<>> \/ HungUp)
  /\ IF ipc # <<>> /\ Head(ipc) = SubChannelId
     THEN server' = "attached" /\ ipc' = Tail(ipc) /\ UNCHANGED open
     ELSE server' = "panicked" /\ Close
  /\ UNCHANGED <<clientVars, got>>

\* The first message, which accept returns, and those after it.
Receive ==
  /\ server \in {"attached", "accepted"} /\ ipc # <<>> /\ Head(ipc).type = "Data"
  /\ LET result == Deserialize(Head(ipc)) IN
       /\ got' = Append(got, IF result.failed THEN <<>> ELSE result.body)
       /\ IF result.failed /\ server = "attached" THEN server' = "failed" /\ Close
          ELSE server' = "accepted" /\ ipc' = Tail(ipc) /\ UNCHANGED open
  /\ UNCHANGED clientVars

HearDisconnect ==
  /\ server \in {"attached", "accepted"}
  /\ (ipc # <<>> /\ Head(ipc) = Disconnect) \/ HungUp
  /\ server' = (IF server = "attached" THEN "failed" ELSE "told") /\ Close
  /\ UNCHANGED <<clientVars, got>>

DropReceiver ==
  /\ server = "accepted" /\ server' = "dropped" /\ Close
  /\ UNCHANGED <<clientVars, got>>

Accept == AcceptConnect \/ AcceptSubChannel \/ Receive \/ HearDisconnect

Next ==
  \/ BeginConnect \/ EndConnect \/ Die
  \/ \E t \in Threads : Drop(t) \/ \E body \in Bodies : Send(t, body)
  \/ Accept \/ DropReceiver

\* The server's thread stays in accept, and then receives; a client that has
\* begun to connect goes on, unless it dies.
Spec == Init /\ [][Next]_vars /\ WF_vars(Accept) /\ WF_vars(EndConnect)
-----------------------------------------------------------------------------
(* Properties.                                                             *)

\* The messages received are the first of those sent, each with the items it was
\* sent with, whatever sends failed before it on the same thread (README: the
\* deserializer "reads the index from the payload and retrieves the
\* corresponding handle").
ReceivedAsSent == IsPrefix(got, sent)

\* A message carries the handles of its own items and no others: none left by a
\* message that could not be serialized goes to the server.
CarriesItsOwn ==
  \A i \in DOMAIN ipc : ipc[i].type = "Data" => \A k \in Kinds :
    Len(ipc[i].handles[k]) = Cardinality({j \in DOMAIN ipc[i].payload :
                                             ipc[i].payload[j].kind = k})

\* Where the handle of a raw receiver is.
Places(h) ==
       {<<"wrapper">> : w \in wrapped \cap {h}}
  \cup {<<"list", t>> : t \in {u \in Threads : Contains(lists[u]["receiver"], h)}}
  \cup {<<"message", i>> : i \in {j \in DOMAIN ipc :
          ipc[j].type = "Data" /\ Contains(ipc[j].handles["receiver"], h)}}
  \cup {<<"received", i>> : i \in {j \in DOMAIN got : h \in Receivers(got[j])}}

\* The handle of a raw receiver is in one place at most, however often the wrapper
\* is sent and whatever fails (IpcReceiver: "may only be serialized once").
ReceiverInOnePlace ==
  \A h \in UNION {Receivers(body) : body \in Bodies} : Cardinality(Places(h)) <= 1

\* accept returns after the client connected and then sent, dropped the subsender
\* or died.
AcceptReturns ==
  (client # "new" /\ (client \in {"done", "dead"} \/ sent # <<>>))
    ~> server \notin {"listening", "connected", "attached"}

\* accept panics only if the client dies while it connects.
PanicsOnlyIfClientDied == server = "panicked" => client = "dead"

\* The client's messages have all been received when the server hears that there
\* is no subsender left, or that the client has died.
ToldAfterAll == server \in {"told", "failed"} => got = sent
=============================================================================
