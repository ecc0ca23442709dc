# A TLA+ development of logos-libp2p-module

The module wraps nim-libp2p for a Logos host: a C++ class, `Libp2pModuleImpl`,
whose methods submit requests to a libp2p *context* (a Nim runtime with its own
threads) and wait for the replies. The specifications here model the part of it
that is hard to test: who owns a context, a promise, a queued stream or a queued
message when host threads, Nim threads, timeouts and an unload interleave; and the
values that cross the boundary (addresses, configurations, keys, records, numbers), where
one spelling or one width in many goes wrong.

Paths such as `plugin.cpp:239` are under `src/` of the repository; `README.md:195`
is the repository's README.

## The system

| Part | State | Operations | Works with |
| --- | --- | --- | --- |
| Context lifecycle (`plugin.h`, `plugin.cpp`) | `ctx` under `m_ctxLock`; the config and the buffers it borrows under `m_createLock`; `m_initError`; `m_gate` | constructor, `start`, `newPrivateKey`, `createNode`, `status`, `stop`, destructor; `applyOptions`, `spawnContext`, `createContext`, `destroyContext`, `reapLateContext` | submits to the binding; the binding answers through `cbCreate` |
| Synchronous operations (`plugin.h:111-158, 380-454`) | one heap promise per operation, a future, a timeout | `callSync`, `callSyncWith`, `callStaticWith`, `callAsync`, `awaitReply`, `finishPromise` | every method of the module; callbacks on binding threads |
| Pubsub backlog (`topic_queues.*`, `gossipsub.cpp`) | per topic a queue, its bytes, its drop counter; the two bounds | `push`, `pop` with timeout, `release`, `releaseAll`, `setBounds` | filled by the pubsub listener; drained by `gossipsubNextMessage`; released by unsubscribe and stop |
| Inbound streams (`stream_queues.*`, `stream.cpp`, `protocol_bridge.cpp`) | per protocol a queue of handles and a drop counter | `push`, `pop` with timeout, `remove`, `releaseAll`; `streamRelease`, `releaseStreamNoWait` | filled by the stream listener; drained by `protocolAcceptStream`; the streams are the node's |
| Events (`callbacks.cpp`, `plugin.cpp:62-77`) | the listener gate and its owner; `emitEvent` and its snapshot | `onIncomingStream`, `onPubsubMessage`, `publishEmitEvent`, `emitEventSafe`, `detachListeners` | run on the context's event thread, inside the module; published by start, subscribe and mountProtocol |
| Metrics (`metrics.cpp`) | none; samples both kinds of queues | `collectMetrics` | the registry's answer and the queues' own series |
| Protocol bridge (`protocol_bridge.cpp`) | none of its own; owns the stream it dials | `protocolRequest`, `pingPeer`, the JSON forms of the stream operations | dial, write, read, release in one call |
| Address filter (`addr_filter.*`, `plugin.h:174-213`, `utils.h`, `callbacks.cpp`) | none | `classify`, `filter`, `screenDialAddrs`, `screenPublishAddrs`, `seqDialable` | calls that carry addresses to the node, replies that bring some back |
| Configuration (`config.h`) | the options | `load`, `fromJson`, `apply` | `LIBP2P_MODULE_CONFIG` at construction, the argument of `createNode` |
| Codecs, timeouts (`utils.cpp`, `plugin.h:155`) | none | base64, hex, `awaitTimeoutFor`, `withinReadCap` | records, keys and messages in JSON; every operation with a timeout of its own |
| Kademlia, peerstore, service discovery, custom handlers | none of their own; mounts are the node's | the marshalling of one submit each, but for `createXpr`, which resolves and screens first | synchronous operations, address filter |
| Log level | one atomic | `setLogLevel` | read when a context is created |

Hard behaviours, and what would be correct:

* *Creation.* Two threads may create at once; a create may be refused, may fail, may
  answer after its caller's timeout. Correct: at most one node, with the options the
  module holds; no context without an owner; a late one destroyed.
* *Use against unload.* Any thread may submit while the destructor swaps the context
  out; the event thread may be anywhere. Correct: nothing is handed a context being
  destroyed; no listener is in the module after its teardown; the gate lives as long
  as the thread that reads it; unload and calls end.
* *Promises.* Binding threads never stop early and callers do. Correct: one resolve, one
  delete, by the one owner, and no reply crosses to another call.
* *Queues.* Consumers of several topics share a condition variable, bounds are in bytes
  and in messages, releases interleave with everything. Correct: bounds, order,
  accounting, no lost wake-up, counters that never go back, pops that return.
* *Stream handles.* A handle is known to the queue, to the event, to the host and to the
  node. Correct: nobody gets a handle that someone has or has released; no open
  stream is forgotten, unless its release was refused or failed.
* *Owned streams.* A protocol request dials, writes, reads and releases in one call, and
  each step may fail or outlive its caller. Correct: every way out asks for the release of
  the stream, and not before its last use.
* *Messages and their events.* The listener queues a message, then reads a snapshot of the
  host's handler and calls it unlocked; subscriptions, unsubscribes and stops outlive
  their callers; a payload may not serialize, a handler may throw, the registry may fail.
  Correct: no text is lost uncounted, no event goes to an older handler than its
  subscription's, and metrics report the drops whatever fails.
* *Addresses.* The code reads an address by its segments, and a value may look like a
  protocol; an IPv6 host has many spellings. Correct: what goes out, and what comes back,
  is what the components allow, and a caller's list never becomes libp2p's choice.
* *Values.* A configuration is read key by key and may fail at the last; numbers are wider
  than their types; a key goes out as text and comes back over a restart. Correct: options
  are one document's, as written; the node has the identity it had; one text per
  record; a number arrives whole or is refused (three kinds do not, and are named below).

## Modules

| Module | What it is |
| --- | --- |
| `NodeHandle` | abstract: what the host may rely on about its one node |
| `ContextLifecycle` | the lifecycle, with its actors and locks; implements `NodeHandle` |
| `SyncBridge` | the promise behind an operation |
| `Backlog` | abstract: what a bounded poll queue promises, key by key |
| `TopicQueues` | the pubsub backlog with its producer, consumers and releases; implements `Backlog` |
| `InboundStreams` | node, listener, queues and host threads around inbound streams; implements `Backlog` |
| `PubsubEvents` | subscriptions, listener, handler and metrics, over `Backlog` |
| `ProtocolBridge` | the calls that own a stream, and the node that serves it |
| `IpLiterals` | the parsers of IP literals and ports |
| `AddrScreen` | the address filter, the calls it screens and the replies it filters; over `IpLiterals` |
| `Codecs` | base64 and hex, for units of any width |
| `ModuleConfig` | the config loader, key by key; over `Codecs` |
| `HostValues` | values that cross the host's boundary, over restarts; over `ModuleConfig` |
| `MC*` | small instances for TLC |
| `*Proofs` | theorems and proofs of the module they extend |

`PROJECT.json` maps every definition to its lines. Definitions commented "Mutant" are
plausible bugs that no specification uses: each property is shown to notice one.

**ContextLifecycle.** A host thread's `pc` walks through the code: `lockCreate`,
`hasCtx`, `apply`, `create`, `spawn`, `await`, `fail` or `adopt`, `install` for a
call that may create; `submit`, `invoke`, `awaitReply` for one that uses the
context; `status`, `statusRead`. The shared mutex is not a variable: it is held
exactly while a thread is at `invoke` (shared) or `install` (unique), so its guards
are predicates on `pc`. `nim[c]` is the state of a context on the Nim side: it is
`creating` until the reply, then `live` or `failed`; a destroy ends in `destroyed`,
or in `zombie` when it reports failure and its event thread goes on. `reapers` are
the detached threads of `reapLateContext`. The destructor has a `pc` of its own.
All operations that only submit are the one call `use`.
The host contract the code relies on and does not enforce is in `BeginUnload`: no
unload during the create path, no new call after the unload began, and the object
is reclaimed when the calls that were running have returned.

**NodeHandle.** Three actions: options change while there is no node, a node appears
with the options in force, the module is unloaded. The mapping (`Handle`) takes `ctx`
for the phase, `cfg` for what is requested, and the options the Nim side copied at
the spawn for what runs. A `createNode` that failed has still replaced the options:
`Configure` allows it, and the next `start` runs them.

**SyncBridge.** Addresses are a small set and are reused; `shared` is the future's
shared state, which outlives the promise. `SetValue` and `Delete` are the two steps
of `finishPromise`; a refused submit may have called back on the caller's own
thread or not at all. `Ready` is the zero wait of `plugin.h:431`.

**Backlog.** What waits and what was turned away, per key, under one bound that may only
change while nothing waits. A drop needs no full queue, since a payload may be over the
byte bound by itself.

**TopicQueues.** Each method holds the mutex from end to end and is one action; `pop`
is `Pop`, a wait, and `Resume` after a notification or the deadline (`Expire`). An
entry of the map (`entries`) is separate from what is in it, because `retire` keeps an
entry for its counter. `seq`, `end`, `arrived`, `taken`, `lastOut` and `poured` are
history.

**InboundStreams.** The node (external) opens streams and handles requests in any
order, long after their callers left. The listener's `push`, its notification outside
the mutex (`stream_queues.cpp:17`), its event, and its release of a stream over the cap
are four steps; a `streamRelease` is a request, its reply, refusal or timeout, and the
`remove` after it (`Erase` of one place, as the code stops at the first); a `stop` is a
request, its reply and the `releaseAll` after it. A release that the binding refuses, or the
node answers with an error, leaves its stream open: `stranded` has it, unless it waits in a
queue or is on its way through the listener. `overtaking` are the streams a node opened that
was started between the reply to a stop and its `releaseAll`, and `cleared` those that a
`releaseAll` dropped. `NoStreamForgotten` excuses the stranded ones and those that are both
cleared and overtaking, no other.
`polled` says of each protocol whether the host follows the queue or the events:
README.md:237-239 asks it never to do both.

**PubsubEvents.** A handler is a number, larger for a later one; 0 is none. The listener's
`Steps` are push, read the snapshot, call. The call `start` stands for `mountProtocol` as
well: both publish the handler and submit. The node (external) serves requests
in any order, those of callers that left too, and delivers what it is subscribed to,
started or not. A payload that is no text makes the listener throw before the push
(`Throw`): such bytes are in no queue and no counter, and `texts` does not count them.
`collectMetrics` is two steps, the registry's answer and the sample of the queues; `floor`
is what was dropped when it began. The module always has a context here: what happens without
one is `ContextLifecycle`'s.

**ProtocolBridge.** A call is at one operation (`stage`), which is still to be submitted or
`waiting`; `After` is the chain of protocolRequest and pingPeer, as what follows an
operation that ended well or not. The node (external) has requests (`jobs`) until it
handles them, in any order; a timeout changes the caller only, and `Awaited` says whether a
reply still finds the one that asked. The module's own `timeoutMs` only sets how long a
wait is. `late` and `stranded` are history: streams of a dial nobody waited for, and of a
release the binding refused or the node failed.

**IpLiterals, AddrScreen.** A segment is a shape and a body: a word, a number, a number with text
behind it, the fields of a dotted literal, the tokens of one with colons. `ParseIp6` is the loop of `parseIp6` with
its gap, its dotted tail and its scope. `Protocols` is the walk of `classify`: a segment is
a protocol unless it is the value of the one before. `Admissible` judges the same address
by what its author said of each component, and is what walk and parsers are checked
against. Calls go both ways: those that carry addresses screen them, those that bring some
filter the reply as their callback does. `Announced` is what peerInfo returns under an
announce policy. It goes by the binding's own rules (`IsDialableMA`, `IsRoutableMA`, from
`nix/patches/announced-addresses.patch`), which are not `classify`'s: they look at wire
addresses only and condemn no relay hop and no name. `bound` is what the node was bound to
when createXpr resolved its addresses.

**Codecs, ModuleConfig, HostValues.** Characters are a class and a value, and the
codecs count in units of two bits: a hex digit has two of them, a base64 symbol three, a
byte four. A unit has `Radix` values and the digits that are no letters are `Decimals`, 4
and 10 in the code, so that an instance can be small. A JSON value is a kind and
a payload; options are the function of the keys that were put, so an absent key is one
that kept its default. `Apply` puts the keys that come, in the code's order, before the
first that throws; `FromJson` then drops everything. In `HostValues` each call is one step,
as the interleaving of calls is the other modules' matter, and a refused `createNode` is no
step. A host may upper-case letters of the key it was issued, lose one, or damage one.
Requests on values record what the host gave and what libp2p was handed. A number of the
bridge is read out of JSON first (`AsInt64`, `AsReadMax`, `AsStreamId`): an unsigned one over
an int64 wraps, a float is cut, and what is no number is refused or gives way to a default.

Composition. `TopicQueues!Listen` and `SetBounds` rest on `ContextLifecycle!LockInv` (the
options change only while there is no context, so no listener); `InboundStreams` rests on
`ListenerSafety` for the listener's calls into the module and on `SyncBridge` for a reply
reaching only a caller that still waits, as `ProtocolBridge` and `PubsubEvents` do.
`PubsubEvents` uses the backlog only through `Backlog`, which `TopicQueues` is proved to
implement. `HostValues` gives a node the options it was built with, which is
`ContextLifecycle`'s `NodeRunsItsOptions`.

## Runs

| Run | Instance | Question |
| --- | --- | --- |
| `context_safety` | 2 threads, 2 contexts, 2 option sets, 2 calls each; 345 thousand states under symmetry | is the lifecycle safe, and does it implement `NodeHandle`? |
| `context_liveness` | 2 threads, 2 contexts, 1 option set, 1 call each; 52 thousand states | do calls and unloads end, are late contexts destroyed? |
| `topic_queues` | 2 topics, 2 consumers, 3 arrivals each; 295 thousand states | is the backlog bounded, ordered, accounted, live, and a `Backlog`? |
| `sync_bridge` | 3 calls, 2 addresses; 29 thousand states | is every promise resolved and deleted once? |
| `inbound_streams` | 2 protocols, 2 host threads, 3 streams, cap 1, 1 stop; 1.6 million states under symmetry | is any stream handed out twice, or forgotten; is the accept queue a `Backlog`? |
| `protocol_bridge` | 2 host threads, 3 streams, 2 calls each; 284 thousand states under symmetry | is a dialled stream always released, and never too early? |
| `pubsub_events` | 2 topics, 2 threads, bounds 0 and 1, 1 handler after none, 1 text; 2.0 million states under symmetry | is a message lost uncounted, does its event find its handler, do metrics tell? |
| `addr_screen` | addresses of up to 3 of 12 components, 11 IPv6 and 6 IPv4 hosts in every spelling, lists of up to 3 of 5; 318 thousand states | does the screening judge hosts and ports, whatever their spelling; is what one call hands out what the next accepts? |
| `host_values` | every key with values of every kind and at every limit, texts of up to 5 characters; 37 thousand states | are options, keys, records and numbers what the host wrote? |
| `status_race`, `stop_race`, `xpr_fallback` | the instances of `context_safety`, `inbound_streams` and `addr_screen` | the disagreements below |

Why the bounds are enough. Races over `ctx` are between two parties; a third thread
would wait on the same locks. Two contexts are needed for a late one and its successor;
two calls per thread for a call after a failed create. Three calls over two
addresses are the least in which an address is reused while another call's callback is
still to come. Two topics and two consumers are the least in which a notification may
reach the wrong consumer. Message bounds 1 and 3, byte bounds 0 and 4, sizes 2 and 5
and a six-valued `size_t` give a disabled queue, each bound reached first, a payload
over the bound and a sum that wraps. Queues of one handle make the second stream the one
over the cap; the code's 1024 is the constant `Cap`. Three streams for two threads
give a dial that comes late while both hold one, and two calls per thread a call that
meets the requests of an earlier one. Two handlers (none, and one) and two threads give a
snapshot that is older than a subscription under way; `Drop` needs no full queue, so
one text is queued or counted, and its queue let go of, in every order.
Three components are the least in which a value read
as a protocol takes the protocol that follows for its value and hides a port. Symbols of 3
bits and bytes of 4 (`Radix` 2) have the same groups of three, tails of one and two bytes
and unused bits as 6 and 8; `Words`, `Ints` and `MaxDuration` keep the order of the code's widths
(an int below the longest duration, that below an int64), and the samples sit on both
sides of each.
The proofs below have none of these
bounds. `MaxCalls`, `MaxArrivals`, `MaxStops` and `MaxHandlers` only bound the behaviours, as
do one collection of metrics at a time and one caller that left at a time in `PubsubEvents`.

The type invariants of `ContextLifecycle`, `TopicQueues`, `InboundStreams`, `ProtocolBridge`
and `PubsubEvents` are proved (`TypeCorrect`) and not run; that of `SyncBridge` is both, since there it
says that no promise is deleted twice.

Deadlock is checked except in `sync_bridge` and `protocol_bridge`, where all calls may have
been made.
After an unload the lifecycle has the explicit step `Terminated`.

### Fairness

`ContextLifecycle!Fairness`: a runnable host thread, listener, reaper and destructor take
their next step (threads are scheduled), and a lock that is free again and again is
obtained in the end (strong fairness on `LockCreate`, `Adopt` and the destructor's
locks; the C++ library does not promise this of `shared_mutex`, so a writer starved by
readers for ever is outside the model). No fairness on calls by the host, on
the Nim side's answer to a create, on events, on the unload, or on a teardown's failure:
`CallsReturn` holds because of timeouts. `TopicQueues!Fairness`: time passes and a
consumer that was woken runs; no fairness on messages.
`SyncBridge!CallerFairness`: callers run; `PromisesReclaimed` assumes in addition that
handlers complete, which plugin.h:40-42 states (a handler is never cancelled).
The other runs check safety only.

### Where the code and its documents disagree

Shown by a run:

* `status_race`: status() reads `m_initError` unsynchronised (plugin.cpp:337) while a create
  assigns it.
* `stop_race`: stop clears the queues after its reply, with nothing held: a start in
  between loses streams that are open (stream_queues.h:31).
* `xpr_fallback`: createXpr without addresses, on a node whose sockets the announce policy
  leaves none of, hands libp2p the empty list (service_discovery.cpp:108-113); the test of it
  says it must not (tests/integration_service_discovery.cpp:341-343).

Met while modelling, in the models as the code has it, and without a run of their own:

* createNode on a module with a node is refused (plugin.cpp:249); README.md:195 and
  metadata.json:21 say it replaces the node.
* The backlog after an overflow need not be a prefix of the stream (topic_queues.h:16): a
  smaller message gets in after a larger one was dropped (topic_queues.cpp:19-27).
* A stop that timed out, or an event in flight when a stop succeeds, leaves handles queued
  on a stopped node (plugin.cpp:324; README.md:233-234 says the stop removes them).
  `QueuedAlive` therefore speaks of streams open or lost to a stop.
* config.h:92-93 says a wrong-typed field makes fromJson fail. The connection counts take
  a bool or a float and cut a wide number to an int (config.h:246-249); a document that is
  no object, a bootstrap list that is no array and an unknown transport or announce policy
  are passed over. `OptionsAsWritten` leaves the last three, and counts that no int holds, out.
* Within the slack of an int64's top the sum in awaitTimeoutFor is undefined (plugin.h:157),
  and the wait may be shorter than the operation it is to outlast (plugin.h:153-154).
  `AwaitTimeoutFor` is then any int, and `NumbersReachWhole` says nothing of it.
* The bridge's reads have no cap (protocol_bridge.cpp:113, 145), though stream.cpp:4-6 gives
  the reason for one: a size over int64 arrives negative. `NumbersReachWhole` says that, and
  that it arrives as no other size.
* A message may go to the handler that the host has just replaced: emitEventSafe calls the
  snapshot it read after it gave up the lock (plugin.cpp:71). No document promises otherwise,
  and a property that forbids it would be false of the code; `EventReachesHandler` says that
  the handler is no older than the subscription the message came of.

## Proofs

The theorems hold for every value of the constants, from the named assumptions on them
(`None` and `"nobody"` are no context, thread, option set, call or address; bounds and sizes
are naturals, those of payloads below the width of a `size_t`). Each proof
module has the same shape: `IInv` is inductive (a lemma per action or group of actions), and
each property follows from it. The properties are seldom inductive by themselves; what
`IInv` adds is this:

* `ContextLifecycleProofs`. Who holds `m_createLock` is exactly who is on the create path, and
  past the check it has seen no context (`LockInv`); what a thread has in hand is `ctx`
  while it holds the lock, or the context it spawned (`HandInv`); reapers wait for contexts
  that are not the module's (`ReapInv`); the module's context is live (`CtxInv`); gates,
  owners and listeners go together (`GateInv`); the destructor's position (`DtorInv`).
  From it: `TypeCorrect`, `SubmitSafety`, `ListenerSafety`, `GateSafety`, `NoContextLost`,
  `SingleNode`, `NodeRunsItsOptions`, `BufferSafety`, `WholeContext`,
  `ContextNeverReplaced`, `EnsureContextSafety`, and the refinement `ImplementsHandle`.
  That a second create finds the first one's context needs the lock and the unload contract.
* `TopicQueuesProofs`. The byte count of a queue is a sum over its payloads; to prove that
  `bytes -= size` never wraps without induction over sequences, the model numbers
  the bytes ever queued (`end`, `poured`), and `ContiguousInv` says that a queue spans an
  interval of them whose length is `bytes`. From it and the bounds: `TypeCorrect`,
  `BoundSafety`, `OrderSafety`, `WakeUpSafety`, `DropsKept`, `TimeoutSafety`, and the
  refinement `ImplementsBacklog`. `BytesSafety`, that the count is the sum of the sizes in
  the queue, is the same interval read as a sum (`SizesSpan`).
* `SyncBridgeProofs`. `OwnershipInv` says by the progress of the callback and of the caller
  where the promise is. From it: `TypeCorrect` (one delete), `OwnershipSafety`,
  `AnswerSafety`, `ReclaimSafety`.
* `InboundStreamsProofs`. No handle waits twice, in one queue or in two (`UniqueInv`), so
  that `remove`, which erases one place, leaves none behind; a handle the
  node has not given out, or the listener not yet queued, is known nowhere else
  (`FreshInv`); one in a polled queue is neither announced nor asked to be released
  (`PolledInv`); a thread's step says what it has in hand, and a request that has a caller is
  the one its caller waits for (`PhaseInv`, `JobInv`). These are `HandleInv`. What was cleared
  is excused only if it is also overtaking: that is a second part, `OvertakenInv`. While a
  stop has its reply and not yet run its `releaseAll`, every open stream is overtaking, since
  the stop closed all that were open; so an open stream that was cleared always is. The
  sequence facts it rests on
  (`Appended`, `Taken`, `Erased`) are lemmas on their own. From it: `TypeCorrect`,
  `HandOutSafety`, `StreamsKept`, `AliveSafety`, `WakeUpSafety`, `ImplementsBacklog`.
* `PubsubEventsProofs`. A subscription's handler is at or before the snapshot from its submit
  on, and so is every promise (`PublishedInv`); a request that has a caller is the one it waits for
  (`RequestInv`); what the listener holds is no older than what it owes (`ListenerInv`); no
  depth is over the bound (`DepthInv`); a collection's floor was the drops once
  (`MetricsInv`). From it: `TypeCorrect`, `TextsKept`, `HandlerSafety`, `MetricsSafety`.
  `UsesBacklog` shows that every step is a step of `Backlog` or leaves the queues alone, so
  what is said here holds of any queues that implement it, as `TopicQueues` is proved to.
* `ProtocolBridgeProofs`. `OrderInv` says that what the node still has of a call is earlier
  in the chain (`Place`) than where the call is, so no reply of an earlier operation passes
  for a later one's; `ReleaseInv`, that a release nobody waits for is of a stream no call
  has. One lemma, `EndedStep`, serves every way an operation ends. From it: `TypeCorrect`,
  `ReleaseSafety`, `StreamSafety`. That a fresh handle is nobody's rests on the node giving
  each handle out once. `ReleaseSafety` is about the request: that a release which was refused
  or failed leaves its stream open is the node's, and `stranded` counts it.
* `HostValuesProofs`. The options are those of one document, whose key is a text of
  characters (`OptionsInv`); a node is up in a module that is loaded, runs on those options and
  has the identity their key gives it (`NodeInv`); what was issued are keys with the text hexEncode
  writes of them (`IssuedInv`). From it: `OptionsSafety`, `IdentitySafety`,
  `RecordTextSafety`, `NumbersSafety`. They rest on what the codecs do for texts of any
  length: `HexReads`, `HexReturns`, `Base64Reads` and `Base64Returns` say that decoding and
  encoding undo each other, and that a text which decodes is the one text of its bytes. The
  base64 proof follows the loop: `Packing` and `Unpacking` are the arithmetic of a group of
  four symbols, `SymbolsRun` and `PaddingRun` what the loop holds after so many rounds,
  `FailedRun` that a round that failed stays so. That every kind of request hands numbers on
  is a case split over the integers' ranges. `OptionsSafety` says nothing of a connection
  count that no int holds, and `NumbersSafety` nothing of an await whose sum leaves an int64;
  of the bridge's size over int64 it says that it is negative.
* `AddrScreenProofs`. The screening has a small invariant (`Screening`): what was kept is the
  admissible part of what was seen. Its one hard step is that `classify` judges an address as
  its components do (`ClassifyReads`). `WalkReads` shows that the walk over the segments takes
  for protocols with a value exactly those that begin a component, whatever their values look
  like; `Ip4Reads` and `Ip6Reads` that the parsers read each literal as the host it stands
  for. `Ip6Reads` cuts a text at its gap and its scope (`Cuts`), lays the groups of each side
  out (`FlatLaid`, `SegmentsPlaced`), and follows the loop over a side round by round
  (`PartedReads`, `Stretch`). `HandsOutSafety` adds that the port found by a scan of the
  segments is the one of the component that has it (`PortReads`).
  The theorems assume of the addresses only what makes `says` the truth (`Screenable`): a
  component is a protocol and, if it takes one, its value, which only the last may lack; a host says
  what the octets or groups of its literal are, and a value that is no host says nothing. All
  addresses of the `addr_screen` run are of this kind. Two kinds are not. parseIp6 also reads
  a text with one separator too many at its end (`::1:`, or a third colon after the gap),
  which stands for no host; such a component has no truth to compare with. And
  extractPort takes the first segment that reads `tcp` or `udp` even where it is another's
  value: `HandsOutSafety` assumes of the switch's sockets that they have one port, and no
  value with those names (`OnePort`).

Induction. The prover takes no induction theorem whose parameter is an operator, so where a
proof needs one (a sum over a queue, a loop over a text) it is made from two facts it does
take: a set of naturals that is not empty has a least element (`Least`), proved from the
well-foundedness of `<`; and a recursive function is what its equation says
(`FiniteNatInductiveDef`, cited with the right-hand side named in a definition). `FoldRuns`
packs the two into what the fold of a loop is: a function of the rounds, from its start; `UpTo` and
`FlatRuns` do so for a walk over places and for `FlattenSeq`.

Left to TLC: the liveness properties (the prover has no fairness or ENABLED). Every
invariant that a passing run checks is a theorem.

## Not modelled

* The binding and nim-libp2p: external, given the behaviour the code relies on (any order,
  any delay, refusals, failures). The wire protocols are theirs.
* The log level: one atomic, read when a context is created.
* The marshalling of kademlia, peerstore, service discovery, dialling and relay operations:
  each is one call of `SyncBridge` and `ContextLifecycle`, whose effect is the node's. Their
  addresses, records and numbers are in `AddrScreen` and `HostValues`; the empty key of
  `toCid` and the direction of `connectedPeers` are guards with no state behind them.
* `SecureBytes` and the borrowed views of arguments: storage, no behaviour.
* The registry's own series in `collectMetrics`, which pass through.
* Wording of errors, and the syntax of JSON.

## What is left

* One specification that puts lifecycle, listener and queues together over a stop, a restart
  and an unload; today each module states what it takes from the other (Composition). The
  product of their states needs coarser versions of each, of which `NodeHandle` and `Backlog`
  are the first.
* Several handlers in `pubsub_events` by TLC; the proofs cover any number.
