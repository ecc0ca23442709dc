---------------------------- MODULE InboundStreams ----------------------------
(***************************************************************************)
(* Inbound streams: the node opens them, the listener queues their handles *)
(* per protocol, host threads accept and release them, and a stop that     *)
(* succeeds drops what is queued (stream_queues.cpp, callbacks.cpp:159,    *)
(* stream.cpp:73-85, protocol_bridge.cpp:193, plugin.cpp:319).             *)
(*                                                                         *)
(* The queue's mutex covers one method; between a request to the node, its *)
(* reply and the queue update that follows, every other thread may move.   *)
(* A request that outlives its caller's timeout still runs.                *)
(*                                                                         *)
(* The host keeps to README.md:237-239: it drives the streams of a         *)
(* protocol from the queue or from the events, never from both.            *)
(***************************************************************************)
EXTENDS Integers, Sequences, SequencesExt

CONSTANTS Protos, Hosts,
          Streams,    \* handles, each given out once
          Cap,        \* kMaxInboundStreamsPerProtocol
          MaxStops,   \* calls of stop (bounds the behaviours)
          None

ASSUME CapAssumption == Cap \in Nat \ {0} /\ MaxStops \in Nat
ASSUME NoneAssumption == None \notin Streams \cup Hosts

VARIABLES
    running,   \* the node is started
    open,      \* streams open on the Nim side
    unborn,    \* handles the node has not given out yet
    jobs,      \* requests the node has accepted: [op, stream, by]
    listener,  \* "idle" | "event" | "pushed" | "notified" | "full"
    event,     \* the stream event it handles: [proto, stream]
    queue,     \* per protocol, the handles of p.streams
    dropped,   \* per protocol, p.dropped
    polled,    \* the protocols the host polls; it follows the events of the rest
    pc,        \* per host thread: see Phases
    arg,       \* the protocol it accepts from, or the stream it releases
    stops,     \* calls of stop so far
    accepted, announced, \* streams the host got from a queue it polls, from an
                         \* event of a protocol it does not
    released,  \* streams whose streamRelease has returned
    stopped,   \* streams closed by the node stopping
    cleared,   \* streams taken from a queue by releaseAll
    stranded,  \* streams the listener could not release: the binding refused it, or
               \* the node answered with an error
    overtaking \* streams of a start that overtook a stop, opened between its reply and
               \* its releaseAll; of those, what it dropped.  A history: no guard reads it

nvars == <<running, open, unborn, jobs, stopped>>
lvars == <<listener, event>>
qvars == <<queue, dropped, cleared>>
hvars == <<pc, arg, stops>>
kvars == <<accepted, announced, released, stranded>>
vars == <<running, open, unborn, jobs, listener, event, queue, dropped, polled, overtaking,
          pc, arg, stops, accepted, announced, released, stopped, cleared, stranded>>

Phases == {"idle", "waiting", "woken", "releasing", "removing", "stopping", "clearing"}

Queued == UNION {ToSet(queue[p]) : p \in Protos}

NoEvent == [proto |-> None, stream |-> None]

Init ==
    /\ running = TRUE /\ open = {} /\ unborn = Streams /\ jobs = {}
    /\ listener = "idle" /\ event = NoEvent
    /\ queue = [p \in Protos |-> <<>>] /\ dropped = [p \in Protos |-> 0]
    /\ polled \in SUBSET Protos
    /\ pc = [h \in Hosts |-> "idle"] /\ arg = [h \in Hosts |-> None]
    /\ stops = 0
    /\ accepted = {} /\ announced = {} /\ released = {}
    /\ stopped = {} /\ cleared = {} /\ stranded = {} /\ overtaking = {}

-----------------------------------------------------------------------------
(* The node (external): handlers of the requests, in any order.            *)

\* A peer opens a stream; the event thread calls onIncomingStream.
Incoming(p, s) ==
    /\ running /\ listener = "idle" /\ s \in unborn
    /\ unborn' = unborn \ {s} /\ open' = open \cup {s}
    /\ listener' = "event" /\ event' = [proto |-> p, stream |-> s]
    /\ overtaking' = IF \E h \in Hosts : pc[h] = "clearing"
                     THEN overtaking \cup {s} ELSE overtaking
    /\ UNCHANGED <<running, jobs, stopped, qvars, polled, hvars, kvars>>

\* The reply of a request reaches the host thread that still waits for it.
Reply(job, phase) ==
    /\ jobs' = jobs \ {job}
    /\ pc' = IF job.by = None THEN pc ELSE [pc EXCEPT ![job.by] = phase]
    /\ UNCHANGED <<unborn, lvars, qvars, polled, overtaking, arg, stops,
                   accepted, announced, released>>

StreamReleased(job) ==
    /\ job \in jobs /\ job.op = "release"
    /\ open' = open \ {job.stream}
    /\ Reply(job, "removing")
    /\ UNCHANGED <<running, stopped, stranded>>

\* The node answers the release with an error: the stream stays as it was.
ReleaseFailed(job) ==
    /\ job \in jobs /\ job.op = "release"
    /\ stranded' = stranded \cup ({job.stream} \ (accepted \cup announced))
    /\ Reply(job, "removing")
    /\ UNCHANGED <<running, open, stopped>>

NodeStopped(job) ==
    /\ job \in jobs /\ job.op = "stop"
    /\ running' = FALSE /\ open' = {} /\ stopped' = stopped \cup open
    /\ Reply(job, "clearing")
    /\ UNCHANGED stranded

\* Mutant: releaseAll whatever the stop came to.
StopFailedClears(job) ==
    /\ job \in jobs /\ job.op = "stop"
    /\ Reply(job, "clearing")
    /\ UNCHANGED <<running, open, stopped, stranded>>

\* A node that failed to stop keeps its backlog (plugin.cpp:323-324).
StopFailed(job) ==
    /\ job \in jobs /\ job.op = "stop"
    /\ Reply(job, "idle")
    /\ UNCHANGED <<running, open, stopped, stranded>>

\* The handler of a start call completes.
NodeStarted ==
    /\ ~running /\ running' = TRUE
    /\ UNCHANGED <<open, unborn, jobs, stopped, lvars, qvars, polled, overtaking, hvars, kvars>>

-----------------------------------------------------------------------------
(* The listener, onIncomingStream.                                         *)

\* Mutant: the oldest handle makes room, and the newest stream is released.
PushRefusedOldest(p, s) ==
    /\ Len(queue[p]) >= Cap
    /\ dropped' = [dropped EXCEPT ![p] = @ + 1]
    /\ queue' = [queue EXCEPT ![p] = Append(Tail(@), s)]
    /\ listener' = "full"

PushAccepted(p, s) ==
    /\ Len(queue[p]) < Cap
    /\ queue' = [queue EXCEPT ![p] = Append(@, s)]
    /\ listener' = "pushed"
    /\ UNCHANGED dropped

PushRefused(p, s) ==
    /\ Len(queue[p]) >= Cap
    /\ dropped' = [dropped EXCEPT ![p] = @ + 1]
    /\ listener' = "full"
    /\ UNCHANGED queue

Push ==
    /\ listener = "event"
    /\ PushAccepted(event.proto, event.stream) \/ PushRefused(event.proto, event.stream)
    /\ UNCHANGED <<nvars, event, cleared, polled, overtaking, hvars, kvars>>

\* Mutant: one waiter is notified, whatever it waits for.
NotifyOne ==
    /\ listener = "pushed" /\ listener' = "notified"
    /\ IF \E h \in Hosts : pc[h] = "waiting"
       THEN \E h \in Hosts : pc[h] = "waiting" /\ pc' = [pc EXCEPT ![h] = "woken"]
       ELSE UNCHANGED pc
    /\ UNCHANGED <<nvars, event, qvars, polled, overtaking, arg, stops, kvars>>

\* notify_all, with the mutex already given up.
Notify ==
    /\ listener = "pushed" /\ listener' = "notified"
    /\ pc' = [h \in Hosts |-> IF pc[h] = "waiting" THEN "woken" ELSE pc[h]]
    /\ UNCHANGED <<nvars, event, qvars, polled, overtaking, arg, stops, kvars>>

\* The listener returns to the event thread.
Leave == listener' = "idle" /\ event' = NoEvent

\* emitEventSafe: a host that follows the events knows the handle from here on.
Announce ==
    /\ listener = "notified" /\ Leave
    /\ announced' = IF event.proto \in polled
                    THEN announced ELSE announced \cup {event.stream}
    /\ UNCHANGED <<nvars, qvars, polled, overtaking, hvars, accepted, released, stranded>>

\* Mutant: a stream over the cap is counted and left open.
ReleaseDroppedNot ==
    /\ listener = "full" /\ Leave
    /\ UNCHANGED <<nvars, qvars, polled, overtaking, hvars, kvars>>

\* releaseStreamNoWait.  The listener holds the gate, so there is a context; the
\* result of the submit is not looked at.
ReleaseDropped ==
    /\ listener = "full" /\ Leave
    /\ jobs' = jobs \cup {[op |-> "release", stream |-> event.stream, by |-> None]}
    /\ UNCHANGED <<running, open, unborn, stopped, qvars, polled, overtaking, hvars, kvars>>

ReleaseDroppedRefused ==
    /\ listener = "full" /\ Leave
    /\ stranded' = stranded \cup {event.stream}
    /\ UNCHANGED <<nvars, qvars, polled, overtaking, hvars, accepted, announced, released>>

-----------------------------------------------------------------------------
(* The host threads.                                                       *)

\* The call returns.
Return(h) == pc' = [pc EXCEPT ![h] = "idle"] /\ arg' = [arg EXCEPT ![h] = None]

\* The front of the queue goes to the host.
Take(h, p) ==
    /\ queue' = [queue EXCEPT ![p] = Tail(@)]
    /\ accepted' = accepted \cup {Head(queue[p])}
    /\ Return(h)

\* protocolAcceptStream, pop.
Accept(h, p) ==
    /\ pc[h] = "idle" /\ p \in polled
    /\ IF queue[p] # <<>>
       THEN Take(h, p)
       ELSE /\ pc' = [pc EXCEPT ![h] = "waiting"] /\ arg' = [arg EXCEPT ![h] = p]
            /\ UNCHANGED <<queue, accepted>>
    /\ UNCHANGED <<nvars, lvars, dropped, cleared, polled, overtaking, stops, announced,
                   released, stranded>>

\* It was notified, or its deadline has passed: the predicate decides.
Resume(h) ==
    /\ pc[h] \in {"waiting", "woken"}
    /\ IF queue[arg[h]] # <<>>
       THEN Take(h, arg[h])
       ELSE /\ \/ /\ pc[h] = "woken"
                  /\ pc' = [pc EXCEPT ![h] = "waiting"] /\ UNCHANGED arg
               \/ Return(h)
            /\ UNCHANGED <<queue, accepted>>
    /\ UNCHANGED <<nvars, lvars, dropped, cleared, polled, overtaking, stops, announced,
                   released, stranded>>

\* streamRelease: the request, its refusal, its reply or its timeout; then remove,
\* whichever it was.
CallRelease(h, s, phase) ==
    /\ pc[h] = "idle" /\ s \in accepted \cup announced
    /\ pc' = [pc EXCEPT ![h] = phase] /\ arg' = [arg EXCEPT ![h] = s]
    /\ UNCHANGED <<running, open, unborn, stopped, lvars, qvars, polled, overtaking,
                   stops, kvars>>

Release(h, s) ==
    /\ CallRelease(h, s, "releasing")
    /\ jobs' = jobs \cup {[op |-> "release", stream |-> s, by |-> h]}

ReleaseRefused(h, s) == CallRelease(h, s, "removing") /\ UNCHANGED jobs

\* remove, under the mutex: the first place of the handle, in the first queue that has it.
Erase(s) ==
    \/ \E p \in Protos : \E i \in 1 .. Len(queue[p]) :
           /\ queue[p][i] = s /\ \A j \in 1 .. i - 1 : queue[p][j] # s
           /\ queue' = [queue EXCEPT ![p] = RemoveAt(@, i)]
    \/ s \notin Queued /\ UNCHANGED queue

\* Mutant: a release that timed out leaves the handle queued.
RemoveAnswered(h) ==
    /\ pc[h] = "removing" /\ Return(h)
    /\ IF arg[h] \in open THEN UNCHANGED queue ELSE Erase(arg[h])
    /\ released' = released \cup {arg[h]}
    /\ UNCHANGED <<nvars, lvars, dropped, cleared, polled, overtaking, stops, accepted,
                   announced, stranded>>

RemoveHandle(h) ==
    /\ pc[h] = "removing" /\ Return(h)
    /\ Erase(arg[h])
    /\ released' = released \cup {arg[h]}
    /\ UNCHANGED <<nvars, lvars, dropped, cleared, polled, overtaking, stops, accepted,
                   announced, stranded>>

\* stop; a request the binding refuses changes nothing.
Stop(h) ==
    /\ pc[h] = "idle" /\ stops < MaxStops /\ stops' = stops + 1
    /\ pc' = [pc EXCEPT ![h] = "stopping"]
    /\ jobs' = jobs \cup {[op |-> "stop", stream |-> None, by |-> h]}
    /\ UNCHANGED <<running, open, unborn, stopped, lvars, qvars, polled, overtaking,
                   arg, kvars>>

\* awaitResult gives up: the job stays, nobody waits for its reply.
Timeout(h) ==
    /\ pc[h] \in {"releasing", "stopping"}
    /\ pc' = [pc EXCEPT ![h] = IF @ = "releasing" THEN "removing" ELSE "idle"]
    /\ jobs' = {[job EXCEPT !.by = IF @ = h THEN None ELSE @] : job \in jobs}
    /\ UNCHANGED <<running, open, unborn, stopped, lvars, qvars, polled, overtaking,
                   arg, stops, kvars>>

\* Mutant: the drop counters go with the handles.
ReleaseAllForgets(h) ==
    /\ pc[h] = "clearing"
    /\ pc' = [pc EXCEPT ![h] = "idle"]
    /\ queue' = [p \in Protos |-> <<>>] /\ dropped' = [p \in Protos |-> 0]
    /\ cleared' = cleared \cup Queued
    /\ UNCHANGED <<nvars, lvars, polled, overtaking, arg, stops, kvars>>

\* releaseAll of stop, after the reply; retire keeps what was counted.
ReleaseAll(h) ==
    /\ pc[h] = "clearing"
    /\ pc' = [pc EXCEPT ![h] = "idle"]
    /\ queue' = [p \in Protos |-> <<>>]
    /\ cleared' = cleared \cup Queued
    /\ overtaking' = IF \E o \in Hosts \ {h} : pc[o] = "clearing"
                     THEN overtaking ELSE overtaking \cap cleared'
    /\ UNCHANGED <<nvars, lvars, dropped, polled, arg, stops, kvars>>

-----------------------------------------------------------------------------
NodeStep == \/ \E p \in Protos, s \in Streams : Incoming(p, s)
            \/ \E job \in jobs : \/ StreamReleased(job) \/ ReleaseFailed(job)
                                \/ NodeStopped(job) \/ StopFailed(job)
            \/ NodeStarted

ListenerStep == Push \/ Notify \/ Announce \/ ReleaseDropped \/ ReleaseDroppedRefused

HostStep(h) == \/ \E p \in Protos : Accept(h, p)
               \/ \E s \in Streams : Release(h, s) \/ ReleaseRefused(h, s)
               \/ Resume(h) \/ RemoveHandle(h) \/ Stop(h) \/ Timeout(h) \/ ReleaseAll(h)

Next == NodeStep \/ ListenerStep \/ \E h \in Hosts : HostStep(h)

Spec == Init /\ [][Next]_vars

-----------------------------------------------------------------------------
(* Properties.                                                             *)

\* Every variable stays in its type, and every queue within its cap.
TypeOK ==
    /\ running \in BOOLEAN /\ open \subseteq Streams /\ unborn \subseteq Streams
    /\ jobs \subseteq [op : {"release", "stop"}, stream : Streams \cup {None},
                       by : Hosts \cup {None}]
    /\ listener \in {"idle", "event", "pushed", "notified", "full"}
    /\ event \in [proto : Protos \cup {None}, stream : Streams \cup {None}]
    /\ queue \in [Protos -> Seq(Streams)] /\ \A p \in Protos : Len(queue[p]) <= Cap
    /\ dropped \in [Protos -> Nat] /\ polled \subseteq Protos
    /\ pc \in [Hosts -> Phases] /\ arg \in [Hosts -> Protos \cup Streams \cup {None}]
    /\ stops \in 0 .. MaxStops
    /\ accepted \subseteq Streams /\ announced \subseteq Streams
    /\ released \subseteq Streams /\ stranded \subseteq Streams
    /\ stopped \subseteq Streams /\ cleared \subseteq Streams /\ overtaking \subseteq Streams

\* A handle that was accepted, or whose streamRelease has returned, is in no
\* queue, timed out or not: no two consumers ever drive one stream, and a release
\* never races the push that would queue the handle after it.
NotHandedAgain == Queued \cap (accepted \cup released) = {}

\* While it is open a stream is on its way through the listener, queued, known to
\* the host or being released.  Two ways lead out of everybody's sight, and no
\* other: its release was refused or failed, which nothing retries, or a start
\* overtook the stop whose releaseAll dropped its handle (see DropsOnlyFreed).  A
\* stop in any other order, or one that failed, drops no open stream.
NoStreamForgotten ==
    \A s \in open :
        \/ listener # "idle" /\ event.stream = s
        \/ s \in Queued \cup accepted \cup announced
        \/ \E job \in jobs : job.op = "release" /\ job.stream = s
        \/ s \in stranded \cup (cleared \cap overtaking)

\* A handle that waits in a polled queue is one nobody released: only a stop can
\* have closed its stream.
QueuedAlive == \A p \in polled : ToSet(queue[p]) \subseteq open \cup stopped

\* No consumer sleeps on a queue that has a stream, but for the moment between
\* the push and its notification.
NoSleeperOnStream ==
    \A h \in Hosts : pc[h] = "waiting" /\ queue[arg[h]] # <<>> => listener = "pushed"

\* The accept queues are the backlog their callers were promised, through accepts,
\* releases and stops in any order: no protocol past the cap, and every stream that
\* did not fit counted once, for good (stream_queues.h:24).  The depth and the drops
\* are those metrics() samples.
BL == INSTANCE Backlog WITH
        Keys <- Protos, Bounds <- {Cap}, most <- Cap,
        depth <- [p \in Protos |-> Len(queue[p])]
BacklogSpec == BL!Spec

\* stream_queues.h:31: releaseAll drops handles once the node is gone, which is
\* what frees the streams.  What it dropped is open no more.
DropsOnlyFreed == cleared \cap open = {}
=============================================================================
