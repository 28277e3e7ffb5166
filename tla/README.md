# Verification of ipc-channel-mux

TLA+ modules for `ipc-channel-mux`: what the multiplexer does with subchannels,
with the subsenders that move between processes, and with the threads that
receive from one IPC channel together, the router included. TLC checks the modules on
small instances, TLAPS proves the central safety properties for all of them.

Paths below are relative to `src/src/mux/` unless they begin otherwise.

## 1. The system

A *subchannel* is a channel inside an IPC channel. `mux::Channel` makes an IPC
channel and any number of subchannels in it; a `SubSender` can be cloned, sent
to another process inside a message of another subchannel (its *via*), or
wrapped into an `IpcChannelSubSender` and sent over a raw IPC channel. The
process with the `SubReceiver` (the *owner*) must find out when no subsender is
left anywhere, to let `recv` return `Disconnected`.

| Component | State | Operations | What makes it correct |
|---|---|---|---|
| subsender state machine (`subchannel_lifecycle.rs`) | sources, in-flight bag, probes, the sender of the local queue; a mutex for each | `to_be_sent`, `received`, `disconnect`, `receive_failed`, `poll` | takes the sender when, and only when, no source and no copy in flight is left |
| subsender lifecycle (`sender/mod.rs`, `demux.rs`, `subchannel_lifecycle.rs`) | trackers per source, copies, `Sending` / `Data` / `Received` / `ReceiveFailed` / `Disconnect` messages | clone, send, receive, drop, drop of a via's subreceiver | the owner's ledger and the copies out in the world agree, in spite of messages still under way |
| UUID transmission (`sender/sender_id.rs`) | `Source` at the sending end, `Target` at the receiving end | `insert`, `add`, `look_up` | an IPC sender named by UUID is known already |
| transport over raw IPC channels (`ipc_channel_sub_sender.rs`, `subchannel_endpoint.rs`) | the keepalive channel, a shared key in the in-flight bag | wrap, unwrap, drop of a wrapper | a wrapper counts as a copy; its loss is found out |
| demultiplexer and subreceivers (`demux.rs`) | IPC channel, `Demuxer` mutex, local queues, response channels | `recv`, `try_recv`, `try_recv_timeout`, drop | messages arrive, in order, whichever thread takes them off; drops are announced |
| one-shot servers (`channel.rs`) | how far the handshake of two messages is | `accept`, `connect` | the client ends up with the server's subchannel, and `accept` returns whatever becomes of the client |
| router (`subchannel_router/`) | the proxy's `comm` mutex and message queue, the `SubReceiverSet` (ids, local queue, state machines), the `MultiReceiverSet`, handlers | `add_route`, `shutdown`, `run` with `select` and `add_opaque` | each message reaches its handler, once and in order; a route is in place before its subsender is used; a handler goes when its route is over; no caller waits in vain |
| serialization contexts (`sender/mod.rs`, `demux.rs`, `shared_memory.rs`, `ipc_channel.rs`) | thread-local lists of handles | `send`, `to`, and the `Serialize` and `Deserialize` of the wrappers | a message comes out with the handles it went in with, also after a send that failed |
| shared memory, raw IPC endpoints (`shared_memory.rs`, `ipc_channel.rs`) | a handle, which an `IpcReceiver` can give away once | serialize, deserialize | a handle is in one place at a time |
| errors, API, helper processes of the tests | — | conversions | — |

Interactions: everyone who has a subsender talks to the owner through one FIFO,
the owner's IPC channel; the owner answers through one response channel for
each client; processes pass copies to each other through other FIFOs. Inside
the owner, threads share the `Demuxer` and the state machines. The hard
behaviours are those between FIFOs (`Sending` from one process against
`Received` from another), the time-out that turns silence into probes, locks
that are released in the middle of a method, processes and channels that go
away, subreceivers dropped while others receive, and the router thread, which
callers talk to through one queue, wake through another, and may shut down
meanwhile.

`PROJECT.json` lists the hazards, each at its line with the properties that
would catch it.

## 2. The modules

| Module | Models | Lines of code it stands for |
|---|---|---|
| `SubSenderStateMachine` | the state machine as a value; each method an operator | `subchannel_lifecycle.rs:88-232` |
| `Lifecycle` | one subchannel, its owner, the processes copies go to, the vias they go on, and faults | `sender/mod.rs` `clone`, `send`, drop; `demux.rs` `handle`, drop, `poll` |
| `Subchannel` | the abstract specification: a channel that disconnects once, last | the README's account of disconnection |
| `LifecycleInvariant` | the inductive invariant | — |
| `LifecycleProofs` | its induction, what follows while IPC channels stay open, the safety of `Subchannel`, and exact ledgers | — |
| `OwnerThreads` | `Lifecycle` with its owner taken apart: threads and the critical sections of the four mutexes | `subchannel_lifecycle.rs:139-232`, statement by statement |
| `OwnerThreadsProofs` | the calls of one thread implement `Lifecycle`; what holds with any number of threads | — |
| `SenderIds` | which mentions of an IPC sender are in full and which by UUID | `sender_id.rs`, `sender/mod.rs:323-389`, `demux.rs:223-262`, `388-416` |
| `SenderIdsProofs` | its type correctness, and its three invariants for one thread | — |
| `IpcTransport` | wrapped subsenders and keepalives | `ipc_channel_sub_sender.rs`, `subchannel_endpoint.rs:288-344`, `demux.rs:357-373` |
| `IpcTransportProofs` | its types, wrappers watched where transports do not overlap, and disconnection and payloads where they do | — |
| `Demux` | the receiving threads of several subreceivers, and drops | `demux.rs:212-378`, `686-1015`; `sender/mod.rs:99-171` |
| `DemuxProofs` | its types, the order of messages, disconnections and the announcement of drops | — |
| `Router` | the router thread, those who add routes or shut it down, and those who use the routes | `subchannel_router/mod.rs:54-375`, `receiver_set.rs:43-260`, `select.rs:53-430`, `demux.rs:298-519` |
| `RouterProofs` | its types, and that routes are in place before use | — |
| `RouterDelivery` | its wakeups, messages, ends and removals | — |
| `OneShot` | a one-shot server, its client, and the two stages of serialization | `channel.rs:119-200`, `sender/mod.rs:99-121`, `310-450`, `ipc_channel.rs:119-241`, `shared_memory.rs`, `demux.rs:659-747` |
| `OneShotProofs` | serialization and deserialization of any body, and its five invariants | — |
| `MC...` | instances of these for TLC | — |

`Lifecycle` and `IpcTransport` each instantiate `SubSenderStateMachine` for
their owner, `Demux` and `Router` one for each subchannel. `OwnerThreads` extends `Lifecycle`:
everyone but the owner stays, and `ImplementsLifecycle` maps its owner back.
`Lifecycle` implements `Subchannel`.

### State and code

- A message is a record, an IPC channel a sequence of them. In `Lifecycle` the
  owner's channel is `queue`; of the channels at the ends of vias only the
  number of copies in them matters (`transit`), as does the number of copies in
  messages that were demultiplexed but not received (`arrived`), because those
  messages keep a tracker alive.
- A *source* is the identity a copy is held under: `ORIGIN`, or the UUID of the
  IPC receiver it was demultiplexed from (`demux.rs:230-257`). `held[s]` counts
  the strong references that user code has to the tracker of `s`,
  `dropping[s]` the trackers that are gone but have not sent `Disconnect` yet
  (`SubSenderTracker`'s drop is not atomic with the last reference going).
- `sending[s]` is the gap between `Sending` and `Data` in
  `SubChannelSender::send`.
- `polling` is the gap between the owner's time-out and its probes: the
  `Demuxer` is unlocked, `poll` has not begun (`demux.rs:717-774`).
- A probe is the name of what it probes. It fails when that is gone.
- `at[t]` in `OwnerThreads` names the next critical section, `at[s]` in `Demux`
  the next statement that touches something shared.
- `Router`: the router thread is at `router`, a step of its loop, with `events`
  what it has yet to handle of what `select` returned. `ipc[k]` is the IPC
  channel of a `RouterChannel` (several routes can share one) or of the wakeup
  subchannel; `local` is the one queue that all switched subchannels deliver
  to, and `switched` says which do: before, they deliver to a queue whose other
  end `attach` has dropped. `ids` are those of the `SubReceiverSet`, `handlers`
  the map of `Router::run`. A caller of `add_route` is at `at[r]`, that of
  `shutdown` at `stop`; `comm` is the mutex that each holds for a while,
  `shutdown` until it has joined the thread; `acks` are the acknowledgements.
  The subsender of a route may be lent to another process (`Lent`), which drops
  it, or is gone without receiving it, and its messages may carry a subsender
  whose owner can go (`Carrying`): the one message that ends the router.
- `OneShot`: `lists[t]` are the thread-local lists of a sending thread;
  serialization goes through the items of a message (`Writing`, a recursive
  function of the number of items done), appends to the list of the item's kind
  and leaves an index in the payload. At the other end (`Reading`)
  the lists are sequences of options, of which deserialization takes the one at
  the index or, for subsenders, the next. `wrapped` are the handles of raw
  receivers that are still in their wrapper.

### What is abstracted

Payloads are numbers (`Demux`) or nothing. One subchannel at a time has copies
that move (`Lifecycle`, and one copy for each route of `Router`); the others
are vias. Response channels that only carry
`SubReceiverDisconnected` are left out of `Lifecycle`. The `SubChannelId` and
UUIDs are model values. `HashBag` is a function to naturals. Thread-local
serialization contexts are the subject of `OneShot`; elsewhere their effect is
part of `BeginSend` and `Demultiplex`. Durations (100 ms, one second) are
replaced by the possibility to time out on an empty channel. `Router` takes
`select` of the operating system as giving a batch of any size, from any of the
channels that have messages. A state machine in `Router` is polled as a whole,
with the probes of its one via. Poisoned mutexes, and panics other than the one
in `accept`, are left out.

## 3. The runs

| Run | Shows |
|---|---|
| `LifecycleFaultless` | `NoPrematureDisconnect`, `NoDataLost`: disconnection waits for every copy and every payload. `ReceiptFindsItsEntry`: `Received` never overtakes the `Sending` of the same copy, though another process sent it. `LedgerExact`: a caught-up owner knows exactly which sources hold copies and how many are in flight on each via. `ImplementsSubchannel`: refinement of `Subchannel`, liveness included |
| `LifecycleFaults` | the origin and one receiver may crash, a via's subreceiver may be dropped, its IPC channel left, messages may be of the wrong type. `SafeWhileChannelsOpen`: no error of the first two kinds until an IPC channel has gone. `InductiveInvariant`: what the proof is about. `ProbedLossDetected`, `DisconnectedOrStuck`: probes write off what they watch, and the only thing that keeps the subchannel connected for good is an entry of a kind named in `StuckEntry` |
| `OwnerThreadsOne` | one receiving thread: `CallsAreOneStep`, `ImplementsLifecycle` justify treating each method as one step |
| `OwnerThreadsTwo` | two threads: with polls and handlers overlapping, `LedgerExactAtRest` and `TakenWithNoneInFlight` still hold when nothing fails |
| `OwnerThreadsDeadlock` | finding: lock order inversion |
| `SenderIdsOneThread` | one sending thread, channels going away at any time: UUIDs in `Sending` are known; UUIDs in `Data` are known but for those that went missing with a failed send or a refused message |
| `IpcTransportSerial` | each transport starts after the owner has handled the end of the last one: nothing premature, `WrapperWatched`, and losses are found out, unless a process crashes after unwrapping. `NoDataLost` is not among the properties: it fails (section 6) |
| `IpcTransportShared` | finding: two wrappers at once, `NoDisconnectInTransit` |
| `DemuxProgress` | `RecvReturns`: a `recv` that found the `Demuxer` locked is not left behind. `DisconnectedIsTrue` |
| `DemuxDrop` | `InOrder`: nothing lost, doubled or overtaken, with `try_recv` and a drop in between. `DropAnnounced` |
| `RouterRoutes` | two routes are added, used and closed while the router is shut down or ended by a message. `EveryMessageHandledInOrder`, `MessagesHandled`: none is lost, doubled, overtaken or left lying. `RouteInPlaceBeforeUse`: the acknowledgement comes late enough for nothing to go to the queue nobody reads. `RemovedWhenOver`, `HandlersRemoved`: a handler goes when no subsender is left, the lent one included, not before, and in the end. `WakeupsMatchMessages`: the router blocks on its message queue only for a message that is coming. `AddRouteReturns`, `ShutdownReturns`: nor do callers wait in vain, though the router may end at any time. `EndsForAReason`: nothing else ends it |
| `OneShotServer` | `ReceivedAsSent`, `CarriesItsOwn`: what a failed send left in the thread's lists goes with no other message, and indices find what they stand for. `ReceiverInOnePlace`: a raw receiver is moved, not copied, whichever step fails. `AcceptReturns`, `PanicsOnlyIfClientDied`, `ToldAfterAll`: the handshake against a client whose threads drop their clones in any order, or that dies |

### Bounds

- `MaxSent` bounds payloads plus copies sent. With 3, a copy can go to B and on
  to C while a payload is under way, or two copies be on one via; each message
  on its way can interleave with all others. Faults multiply the states, so
  `LifecycleFaults` has 2.
- `MaxHeld` is 2: whether a copy is the last one at its source is all that
  matters, and two tell the cases apart.
- Two receivers and one via to each: a copy can be passed on, and two ledger
  entries can be wrong independently. Two vias to one receiver differ from two
  to different ones only in sharing a tracker, which `held` covers.
- `Transports` are three in `IpcTransportSerial`: the third is carried by a
  source that the second made. There the scenario `OneAtATime` has a transport
  start only when the owner has handled the end of the last one; more
  transports repeat the same. No code enforces it: a holder cannot see the
  owner's ledger and channel, which the guard `NoneUnderWay` of `Wrap` looks at.
- `IpcTransportShared` needs two wrappers at once, hence two copies (`MaxHeld`
  2).
- `MaxSends` in `SenderIds` is 4: two sends to settle who knows what, one to
  fail, one to suffer from it. `MaxEmbedded` is 2, the least with which a
  message can fail halfway.
- `Demux` has two subreceivers, the client of the channel and a guest that
  connects. `MaxSends` is 2 where order matters, 1 under fairness.
- `RouterRoutes` has two routes on two `RouterChannel`s, so that the second
  route comes with an IPC channel to merge while the first is in use. One is
  lent, carries subsenders and has two messages, to have one in front of
  another; the second is there to be disturbed by the first. `Exiting` is empty:
  a copy whose process exits is one of the disagreements below.
- `OneShotServer` has two threads and three sends: one that fails, one that must
  not suffer from it, on the same thread or another, and one more; the five
  bodies have each kind of handle, two of a kind in a different order, the same
  raw receiver in two, twice in one, and one item that fails after two that do
  not.
- No bound is needed elsewhere; in particular the number of messages about
  copies follows from the above, and threads may time out and call forever.

`CHECK_DEADLOCK FALSE` is set where a program may be done: all sends used up
and every channel empty (`SenderIds`), all subreceivers dropped (`Demux`
with drops), the router ended or the server done (`Router`, `OneShot`), and
where threads can block each other (`OwnerThreads` with two
threads: the deadlock is the finding). Everywhere else the owner can always
time out and poll, so TLC's check for deadlock is on.

### Fairness

- `WF(OwnerStep)`, `WF(ThreadStep(t))`: the owner keeps calling `recv`. Without
  that the promise to report disconnection is void. `recv` itself loops until
  it has something to return.
- `WF` of `FinishDrop`, of `FailArrived`, `CloseReceiver` and of `Demultiplex`
  while a subreceiver is being dropped: these are the rest of a `Drop::drop`
  that has begun, and it runs unless the process dies.
- Nothing makes holders send, drop, receive or connect: clients may keep a
  subsender forever.
- `Demux`: `WF(ThreadStep(s))` for the steps inside a call. Weak fairness is
  enough for the mutex since `recv` and `try_recv_timeout` try it (`try_lock`)
  instead of queueing for it, and who fails goes through its local queue again;
  `try_recv` does queue, and is left to the runs without fairness. No thread is
  assumed to call again.
- `Router`: `WF(Run)`, the router thread does not stop of itself; `WF(AddRoute(r))`
  and `WF(Stop)`, the rest of a call that has begun. `SendRoute` needs the lock
  of `comm`, which is free again and again only until `shutdown` keeps it: then
  it is free for good at the end, as the router is, so that weak fairness is
  enough. Nobody has to begin a call, to send or to drop.
- `OneShot`: `WF(Accept)`, the server's thread is in `accept` and then receives;
  `WF(EndConnect)`, the rest of `connect`, unless the client dies. Nobody has
  to send or to drop.

## 4. What is proved

`LifecycleProofs`, for every finite set of receivers, any vias, any bounds and
any choice of faults (`LifecycleAssumption` is all that is assumed of the
constants):

- `TypeCorrect`: `TypeOK`, with `SendersHold`: the copy being sent is held, so
  that giving it up leaves a natural number.
- `InvariantHolds` and `DisconnectionSafe`: if each process uses the subsender
  in one thread (`Threaded = {}`), then as long as no IPC channel has gone
  there is no premature disconnection and no data lost, whatever subreceivers
  are dropped and messages mistyped.

The second half draws the conclusion for systems in which the condition
holds for good (`ChannelsStay`: no process that receives copies dies or drops
its IPC channel; the creator of the subsender may die):

- `SubchannelSafe`: `NoPrematureDisconnect` and `NoDataLost`, unconditionally.
- `ReceiptsMatched`: `ReceiptFindsItsEntry`.
- `ImplementsSafeSubchannel`: `Lifecycle` implements the safety part of
  `Subchannel`. A step of a holder or at a via sends, loses the last subsender
  or does nothing (`Outside`): no such step makes a subsender where there was
  none. A step of the owner delivers, or disconnects, and then
  `SafeWhileChannelsOpen` of the next state says that nothing was left.
- `PayloadsDelivered`: `NoDataLost` on its own.
- `LedgerTrue`: `LedgerExact`, when nothing fails at all (`Faultless`).

The argument. `NoPrematureDisconnect` is not inductive: the owner's ledger
(sources and in-flight bag) lags behind the copies by the messages in its
channel. The invariant (`LifecycleInvariant`) speaks of the sequence of
ledgers it will go through as it handles those messages. The last of them
covers all copies (`Covers`). A vacant ledger has only vacant ones after it
(`VacantForGood`) and no payload (`NoPayloadBehindVacant`). Each `Received`
finds its copy in flight in the ledger before it (`ReceiptsFindEntries`). So a vacant ledger
now means a vacant one in the end, which covers no copies: there are none. A
step of a holder appends a message, and with it one ledger, which covers the
copies as they are after the step: `Sending` comes before its copy is counted
as under way, `Received` adds the source as it takes away the entry, and
`Disconnect` comes only when the tracker has no use left (`DropsAreFinal`, which
needs one thread per process). A step of the owner drops the first ledger.
While all channels are open no probe fails (`NoFailedProbe`), so `poll` takes
nothing away.

There is one lemma for each step's effect on types (`HolderTyped`, `ViaTyped`,
`OwnerTyped`), one for each on the ledgers (`HolderLedgers`, `ViaLedgers`,
`OwnerLedgers`), and three on sequences of ledgers (`FutureGrows`,
`FutureStays`, `FutureShrinks`). TLC checks the invariant in `LifecycleFaults`,
where the existential quantifier over sequences of ledgers is replaced by the
one there is (`Future` in `MCLifecycle`).

`LedgerTrue` needs the other direction too, that the owner believes nothing that
is not so. Its invariant (`LedgersExact`) is about the same sequence: the last
ledger does not only cover the copies. Each source in it has a tracker or one that
is being dropped, and the number in flight on a via is that of the copies being
sent on it, in its channel, or demultiplexed and not received.

`OwnerThreadsProofs`, for any threads:

- `ThreadsTypeCorrect`: types, with what a thread at each label knows of the
  message it handles (`Handling`), and that it has the `Demuxer` (`OneHandler`).
- `TakenSafely`: `TakenWithNoneInFlight`, with any number of threads and any
  faults. A thread that is about to take the sender has seen the bag empty, and has
  had locked since then what inserting into it needs: the bag, or the `Demuxer`
  (`TakersSure`).
- `SingleThreadCalls` and `SingleThreadImplements`: with one thread,
  `CallsAreOneStep`, and each critical section is a step of `Lifecycle` or none,
  if the last section of a method is what counts. `CallUnderWay` says of each
  label what the state machine looked like when the method began and how much of
  the method is done.
- `SingleThreadSafe`: hence `NoPrematureDisconnect` as long as no IPC channel has
  gone, from `DisconnectionSafe` under the refinement mapping.
- `ThreadsLedgerTrue`: `LedgerExactAtRest`, with any number of threads, when nothing
  fails. As handlers exclude each other and polls then take nothing away, the
  state machine with the one call under way completed keeps the invariant of
  `LedgerTrue` (`LedgerUnderWay`). `NoPrematureDisconnect` does not follow: it is
  false with two threads (section 6).

`RouterProofs`, for any finite set of routes, any `RouterChannel`s and any
messages (`RouterAssumption`):

- `TypeCorrect`: `TypeOK`, with `EventsLeft`: the thread is in its loop over the
  events only while it has one. That `events` and `local` are sequences of
  wakeups, messages and closings, and the wakeup channel one of wakeups, says
  that no lifecycle message reaches a handler.
- `RoutesInPlace`: `RouteInPlaceBeforeUse`. The invariant (`InPlaceInv`) follows
  the acknowledgement back to the router: a message under way is about a route
  whose call has returned, in the channel of that route (`UsedWhenRouted`); a
  call that has returned was acknowledged, and one that fails finds the router
  ended (`CallsAnswered`); a route that was acknowledged is switched and its
  channel registered (`AcknowledgedInPlace`); and a caller that fails has not
  taken the queue for gone because of a shutdown that was never sent
  (`Locked`). A failing call drops its subsender and sends `Disconnect` on a
  route that is not in place: only to a router that has ended.

`RouterDelivery`, from there:

- `WakeupsMatch`: `WakeupsMatchMessages`. Each message in the router's queue has a
  wakeup in the wakeup channel, in `local`, in `events`, or about to be sent by the
  caller that has the lock of `comm`; once the loop over the events is left, no
  events are (`EventsHandled`).
- `MessagesInOrder`: `EveryMessageHandledInOrder`, whatever exits. The messages of a
  route are in `events`, `local` and its IPC channel, in that order: the numbers
  in them increase, from one to the next as well, and together with those
  handled are all that were sent (`Numbered`). None is behind the closing of its
  route (`Orderly`), as the queue is closed when the state machine gives up its
  sender.
- `EndsOnlyForAReason`: `EndsForAReason`, and `RemovedOnlyWhenOver`: `RemovedWhenOver`,
  if no process exits with its copy (`Exiting = {}`); otherwise they are false
  (section 6). The invariant (`Tracked`) relates a route's state machine to who
  has its subsender, through the reports in the channel: the source and the
  copy are known or announced, and nothing of a holder comes after its
  `Disconnect`. So a message for a route whose sender was taken, the one thing
  that ends the router without a reason, is never there.

`IpcTransportProofs`, for any transports, copies, messages and crashes
(`IpcTransportAssumption`):

- `TypeCorrect`: `TypeOK`.
- `WrappersWatched`: `WrapperWatched`, where a transport starts only after the
  owner has handled the end of the last one (`OneAtATime`). Of the one under way
  the owner has yet to handle the announcement, watches the keepalive, or has
  written it off with the receipt still in its channel (`OneUnderWay`).
- `EarlyOnlyPastWriteOff`: `NoPrematureDisconnect`, and `LostOnlyPastWriteOff`:
  `NoDataLost`, for transports that overlap as they like, from
  `TrueLossesSpec`: no poll writes off the entries while a transport is under
  way (`WritesOffUnderWay`): none in which the probe fails while a transport that
  the owner was told of is wrapped or has its receipt in the channel. The finding
  `IpcTransportShared` and the race of section 6 are such polls, and they are the
  only way to go wrong. The
  entries are as many as the transports under way at least (`Counted`), and a
  poll that removes any finds none under way. A source with copies is known or
  comes with a `Received`, and no `Disconnect` of it is in the channel
  (`SourcesKnown`). The announcement of a wrapper, and a payload, reach the
  owner ahead of the `Disconnect` of the source they come from, and that source
  is known, or its `Received` is ahead of them (`SentFromSource`, `Ordered`);
  the first report in the channel has nothing ahead of it, so that the ledger
  is not vacant before. The theorem does not use `OneAtATime`, under which
  `NoPrematureDisconnect` is checked without the condition
  (`IpcTransportSerial`), but not proved; the runs in turn do not check
  `TrueLossesSpec`.

`DemuxProofs`, for any subchannels, clients, methods and bounds
(`DemuxAssumption`):

- `TypeCorrect`: `TypeOK`, with `Locked`: only the thread that has the `Demuxer`
  locked has a message in its hand. So the message in hand and those in the IPC
  channel can be seen as one queue (`Pipe`): a step adds at its end, handles the
  first, or does not touch it.
- `ReceivedInOrder`: `InOrder`, whatever is dropped. The payloads of a client that
  are in a subchannel's local queue and in `Pipe` have increasing numbers, those
  of the local queue first, and are the ones not yet received (`Numbered`).
- `DisconnectedTruly`: `DisconnectedIsTrue`, if no subreceiver is dropped
  (`Dropping = {}`; otherwise false, section 6). A state machine tracks each client
  that has a subsender of its subchannel, or messages about it on the way, and the
  guests that are yet to get one (`Tracked`); the news of the disconnect is the last
  in a local queue (`LocalInOrder`); and when a thread has reported it, that queue is
  empty and the state machine without its sender (`Told`).
- `DropsAnnounced`: `DropAnnounced`, if at most one subreceiver is dropped
  (otherwise false, section 6). The `Connect` of a client that is to be told has been
  handled or is in `Pipe` while the dropper drains that, and has been handled when
  it goes on to tell those it knows (`DueKnown`). With one dropper no drain meets
  an error, which would end it early.

`SenderIdsProofs`, for any embeddable subsenders, any numbers of messages and any
channels that go (`SenderIdsAssumption`), from the one assumption that no two
threads send (`OneThread`): with two, the properties are false (section 6).

- `TypeCorrect`: `TypeOK`, with `Announcing`, however many threads send.
- `IdsInSending`: `IdsInSendingKnown`. What an embedded subsender's `Source` has
  seen of the carrier, its owner knows or gets next, or it is in the call that is
  under way (`MentionedVia`); a call that names the carrier by UUID does so to an
  owner of the first kind (`ByIdToAcquainted`). Between asking the `Source` and
  sending, the one thread does nothing else.
- `IdsInData`: `IdsInDataKnownUnlessMissed`. `Promised` is what the receiver will
  know when it has handled what is in the channel. What the `Source` has seen is
  promised, or in the call under way, or missed (`SourceGrounded`). So a UUID put
  into a call is promised or comes after its mention in full in that call
  (`CallsGrounded`), and stays so on its way through the channel
  (`DataGrounded`), as handling a message makes known, or missed, all that it
  mentions in full.
- `Agreement`: `SourcesAndTargetsAgree`, from these invariants and the converse:
  only what a `Source` has seen is mentioned in full (`SeenFirst`,
  `SeenFirstVia`).

`OneShotProofs`, for any threads, any bodies of any length, and any items whose
serialization fails (`OneShotAssumption`); no other hypothesis:

- The library's induction takes a predicate as a parameter, which the provers do
  not instantiate. So induction is stated of sets of numbers (`Induct`,
  `InductUpTo`, `InductDown`) and follows from a least counterexample (`Least`, from
  `WFMin`). With it, `Writing` and `Reading` are shown to satisfy their recursive
  definitions (`WritingSteps`, `ReadingSteps`).
- Serialization (`Serialized`): each item written adds its entry to the payload and
  its handle to the list of its kind, or nothing changes any more (`WriteCases`).
  So after n items the lists have as many handles of a kind as the payload has
  entries of it (`CourseGood`), raw receivers are in a list only if they have left
  their wrapper (`CourseMoved`), and what is written is never changed again
  (`CourseGrows`).
- Deserialization (`ReadsBack`): read and written side by side (`Aligned`), the lists
  at the receiving end lack just what the first n items had put there: empty options
  in front, or for subsenders a list that is shorter (`Remains`). So the next entry
  finds the handle of its item.
- `ReceivedAsSentHolds`, `CarriesItsOwnHolds`, `PanicsOnlyIfClientDiedHolds` and
  `ToldAfterAllHolds`: from the invariant (`InductiveInvariant`) that the channel has
  what is left of the handshake, then the messages sent and not received, each
  reading back as its body (`Carries`), then a `Disconnect` only if nobody can send
  (`Line`). So `accept` finds the message it expects unless the client died, and
  whoever hears the `Disconnect` has taken all that was before it.
- `ReceiverInOnePlaceHolds`: in each step a raw receiver moves from one place to
  one place at most (`OneListed`, `OneSent`, `OneReceived`), or stays or goes
  (`OneKept`).

Only model-checked:

- All liveness, and refinement where fairness is part of it: out of the prover's
  reach.
- `InductiveInvariant` of `MCLifecycle` is what TLC checks in place of the invariant
  that `InvariantHolds` is about.

## 5. Mutants

Each property of a passing run has a mutant: an operator that stands next to
the definition it replaces, marked "Faulty variant", with which the property
must fail. They are bugs one could have written: removing an absent element
from the bag and going below zero (`WithoutOneUnguarded`), asking for sources
only (`DisconnectIgnoringInFlight`), a `poll` that forgets to look whether the
ledger is vacant now (`PollWithoutTaking`), telling the owner of the last copy
only (`BeginSendUncounted`), dropping before counting (`WrapDropsFirst`),
unlocking too soon (`RemoveProbesUnlocking`), one record for all channels
(`MentionCarrierOnce`), draining one message (`DrainOnce`), sending a wakeup
only if none is under way (`SendWakeupIfNone`), returning before the
acknowledgement (`AwaitNothing`), leaving the loop over the events after the
first (`NextEventAfterSelect`), keeping the lists of a send that failed
(`StartListsKeeping`), and so on.

## 6. Known disagreements

Two runs show, with a counterexample, where the code does something else than
its documentation says (`PROJECT.json`, findings):

1. `OwnerThreadsDeadlock`: `poll` locks `sources` while it holds `in_flight`
   (`subchannel_lifecycle.rs:216,227`), `disconnect` the other way round
   (`165-167`).
2. `IpcTransportShared`: all transports of a subchannel use
   `EMPTY_SUBCHANNEL_ID` (`demux.rs:364`). With two wrappers announced, the bag
   has two entries under the key and the probe is that of the second. When the
   second is lost, its probe fails, `poll` removes both entries, and the
   subchannel disconnects while the first wrapper is alive.

More were met on the way. They are reproduced by setting constants of a
configuration, and the property, as follows (MaxHeld is 1 unless given):

| Module, constants | Fails | Because |
|---|---|---|
| `Lifecycle`; Closing = {toB}, Leaving = {B}, MaxSent = 2 | `NoPrematureDisconnect` | a copy was received from the channel that is gone, and its `Received` comes after the owner wrote it off (`demux.rs:328`) |
| `Lifecycle`; Threaded = {B}, MaxSent = 3 | `NoPrematureDisconnect` | `disconnectors` holds trackers weakly: a new tracker for the source is made before the `Disconnect` of the old one was sent (`demux.rs:234`) |
| `Lifecycle`; Crashing = {B}, MaxSent = 1 | `EventuallyDisconnected` | a source has no probe (`subchannel_lifecycle.rs:153`) |
| `Lifecycle`; Mistyped = {toB}, MaxSent = 1 | `EventuallyDisconnected` | a payload that does not deserialize takes its subsenders with it in silence (`demux.rs:85`) |
| `Lifecycle`; Closing = {toB}, MaxSent = 1 | `EventuallyDisconnected` | so does one that reaches a dropped subreceiver: `ReceiveFailed` is for unknown ids only (`demux.rs:263`) |
| `Lifecycle`; Crashing = {B}, MaxSent = 2, MaxHeld = 2 | `LossDetected` | `received` removes the probe of a via with another copy on it (`subchannel_lifecycle.rs:154`), against `PROTOCOL.md:242-243` |
| `OwnerThreads`; two threads, no faults, MaxSent = 1 | `NoPrematureDisconnect` | `received` removes the entry, then adds the source; a poll in between finds neither (`subchannel_lifecycle.rs:152`) |
| `SenderIds`; two threads, MaxSends = 2 | `IdsInSendingKnown` | a message with the UUID only overtakes the one in full (`sender/mod.rs:378`) |
| `IpcTransport`; Transports = {k1}, MayCrash = {k1} | `EventuallyDisconnected` | `Received` removes the keepalive's probe, against `protocol.rs:124-127` |
| `IpcTransport`; Transports = {k1, k2}, OneAtATime = FALSE, MaxSent = 0 | `NoPrematureDisconnect` | probes run after a time-out without another look into the channel (`demux.rs:717-721`): a wrapper that is unwrapped in between, its subsender wrapped again as k2 and dropped, looks lost, while `SendingViaIpcChannel` of k2 is in the channel. There are never two wrappers, and a key for each would not help |
| `IpcTransport`; Transports = {k1}, MaxSent = 1 | `NoDataLost` | the same race: a quick arrival, use and drop after the time-out looks like a loss, with a payload behind it (`demux.rs:720`) |
| `Demux`; Proxied = {}, Dropping = {b}, MaxSends = 1 | `DroppedRefusesSends` | clients without a proxy, or connecting late, are not told (`sender/mod.rs:139`) |
| `Demux`; Dropping = {a, b}, MaxSends = 1 | `DropAnnounced` | `drain` stops at the first error (`demux.rs:732`), before a `Connect` behind it |
| `Demux`; as `DemuxDrop.cfg` | `DisconnectedIsTrue` | the Disconnect of a dropped subreceiver, or data its queue does not take, is an error to whichever subreceiver takes it off the channel (`demux.rs:292`) |
| `SenderIds`; as `SenderIdsOneThread.cfg` | `IdsInDataKnown` | a `send` that fails leaves the IPC senders it was going to name in full recorded as sent (`sender/mod.rs:340`) |
| `Router`; as `RouterRoutes.cfg` | `RunsUntilShutdown` | one message with a subsender whose owner has gone makes `select` fail, and `run` leaves its loop, for all routes (`mod.rs:324`) |
| `Router`; as `RouterRoutes.cfg`, Carrying = {}, Exiting = {r1} | `RemovedWhenOver`, `EndsForAReason` | the copy was received, used and dropped by a process that has exited since: connecting to its probe fails while the owner is still at `Sending`, the in-flight entry goes, and a `Disconnect` removes the route with a message behind it, which then ends the router (`demux.rs:328`) |

Three more concern calls that the models leave out:

- A handler runs in the router thread. If it calls `add_route` (`mod.rs:92`) or
  `shutdown`, or drops the last `RouterProxy`, it waits for the thread it is in.
- `add_opaque` that fails is acknowledged like one that succeeds
  (`mod.rs:334-352`): the caller of `add_route` has a subsender without a
  handler, against `mod.rs:110-112`.
- `is_receiver_connected` ignores what `drain_responses` returned
  (`sender/mod.rs:138`). So it does not return false once the response channel
  is closed, as `select.rs:164-167` and `receiver_set.rs:256-257` say it does;
  the send that follows fails on the IPC channel instead.

## 7. Not modelled

- Errors of the operating system: of the receiver set of the router
  (`select`, `add`), of creating channels and threads. `add_opaque` does not fail
  in `Router`, and the `Weak` reference of a `SelectableMultiReceiver` in
  `merge_receiver` always has its receiver.
- Handlers that call back into the router, which wait for themselves.
- More than one client of a one-shot server: `connect` documents one.
- That transports over raw IPC channels do not overlap is the scenario of
  `IpcTransportSerial` and of `WrappersWatched`: no code sees to it.
- `OneShot` assumes that the owners of embedded subsenders stay, so that their
  IPC senders resolve and the `Demuxer` refuses no message (`demux.rs:231-261`,
  `388-416`); `SenderIds` and `Router` have messages that are refused. Its `Send`
  leaves out that an announcement (`Sending`) can fail after the lists were taken
  (`sender/mod.rs:340-348`), with which the handles of the message go, and its
  `AcceptSubChannel` the check of the server's name (`channel.rs:137-141`): there is
  one client and one name.
- `Router.DataRefused` refuses every message with a subsender whose owner has
  left. The code resolves an IPC sender it knows by UUID without connecting
  (`demux.rs:402-413`), so it refuses fewer: the router of the model ends in all the
  cases in which that of the code does, and more.
- A send nested in a `Serialize`: it would take the lists of the outer one.
- Two threads at a via's end in `Lifecycle`, and so the race between the last
  `try_recv` of a drop and its end (`demux.rs:816`); what it does to the ledger
  is that of `CloseReceiver` with messages left, a `StuckEntry`.
- Sibling traffic without end, which postpones polling (`demux.rs:718`): it
  needs an unbounded number of messages.
- The content of shared memory, which is the operating system's; errors and
  re-exports, which are types; the tests' helper processes.
- The operating system's channels: FIFO, reliable, and closed when the last
  handle goes, as `ipc-channel` has them.

## 8. Plan

Done: the modules above, in the order of section 2, and their proofs. Every
safety property that a run checks is stated by a theorem, but for
`InductiveInvariant` of `MCLifecycle` (section 4), the liveness properties, and the
two refinements, of which the safety parts are proved (`ImplementsSafeSubchannel`,
`SingleThreadImplements`). What could come next:

1. Several owners in `Lifecycle`, with copies of two subchannels in one message.
2. Handlers that call back into the router.

## 9. Running the checks

`tlc -config <Run>.cfg MC<Module>` for a run of `PROJECT.json`;
`tlapm M.tla` for the proofs, with M one of `LifecycleProofs`,
`OwnerThreadsProofs`, `SenderIdsProofs`, `IpcTransportProofs`, `DemuxProofs`,
`RouterProofs`, `RouterDelivery` and `OneShotProofs`.
