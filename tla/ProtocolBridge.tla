---------------------------- MODULE ProtocolBridge ----------------------------
(***************************************************************************)
(* The calls that own a stream from its dial to its release:               *)
(* protocolRequest and pingPeer (protocol_bridge.cpp:58-125, 217-258).     *)
(* Each is a chain of operations, and each operation is submitted, then    *)
(* answered, refused or given up at its timeout (SyncBridge).  What was    *)
(* given up still runs on the node, at any later time.                     *)
(*                                                                         *)
(* The node is external: it handles its requests in any order, and what is *)
(* asked of a stream it does not have fails.                               *)
(***************************************************************************)
EXTENDS Integers

CONSTANTS Hosts,
          Streams,   \* handles, each given out once (bounds the dials)
          None,
          MaxCalls   \* calls made by one host thread (bounds the behaviours)

ASSUME NoneAssumption == None \notin Streams
ASSUME MaxCallsAssumption == MaxCalls \in Nat

VARIABLES
    open, unborn, \* streams the node has, and has not given out yet
    jobs,     \* requests the node has accepted: [op, stream, by, call]
    call,     \* per host thread: "none" | "request" | "oneway" | "ping"
    stage,    \* per host thread, the operation it is at, "idle" when at none
    waiting,  \* per host thread, the operation is submitted and awaited
    handle,   \* per host thread, the stream it has dialled
    calls,    \* per host thread, calls made so far
    late,     \* streams whose dial was answered after its caller left
    stranded  \* streams whose release the binding refused or the node failed

nvars == <<open, unborn, jobs>>
gvars == <<late, stranded>>
hvars == <<call, stage, waiting, handle, calls>>
vars == <<open, unborn, jobs, call, stage, waiting, handle, calls, late, stranded>>

Ops == {"connect", "dial", "write", "read", "closeEOF", "release"}

Init ==
    /\ open = {} /\ unborn = Streams /\ jobs = {}
    /\ call = [h \in Hosts |-> "none"] /\ stage = [h \in Hosts |-> "idle"]
    /\ waiting = [h \in Hosts |-> FALSE] /\ handle = [h \in Hosts |-> None]
    /\ calls = [h \in Hosts |-> 0]
    /\ late = {} /\ stranded = {}

-----------------------------------------------------------------------------
\* Mutant: a write that failed is returned at once.
AfterLeaks(c, op, ok) ==
    CASE op = "connect" /\ ok -> "dial"
      [] op = "dial" /\ ok -> "write"
      [] op = "write" /\ ok -> IF c = "oneway" THEN "closeEOF" ELSE "read"
      [] op \in {"read", "closeEOF"} -> "release"
      [] OTHER -> "idle"

\* Mutant: the stream of a one-way request is released before it is closed.
AfterReleasesFirst(c, op, ok) ==
    CASE op = "connect" /\ ok -> "dial"
      [] op = "dial" /\ ok -> "write"
      [] op = "write" /\ ok -> IF c = "oneway" THEN "release" ELSE "read"
      [] op = "release" /\ c = "oneway" -> "closeEOF"
      [] op = "read" \/ (op = "write" /\ ~ok) -> "release"
      [] OTHER -> "idle"

\* The operation that follows op in a call of kind c, by how op went.  Without a
\* stream a failure ends the call; with one, every way out goes by its release.
After(c, op, ok) ==
    CASE op = "connect" /\ ok -> "dial"
      [] op = "dial" /\ ok -> "write"
      [] op = "write" /\ ok -> IF c = "oneway" THEN "closeEOF" ELSE "read"
      [] op \in {"read", "closeEOF"} \/ (op = "write" /\ ~ok) -> "release"
      [] OTHER -> "idle"

\* The operation of h ended, with stream s in hand: h goes on, or returns.
Ended(h, ok, s) ==
    LET next == After(call[h], stage[h], ok) IN
    /\ stage' = [stage EXCEPT ![h] = next]
    /\ waiting' = [waiting EXCEPT ![h] = FALSE]
    /\ handle' = [handle EXCEPT ![h] = IF next = "idle" THEN None ELSE s]
    /\ call' = [call EXCEPT ![h] = IF next = "idle" THEN "none" ELSE @]
    /\ UNCHANGED calls

\* protocolRequest connects first when it was given addresses; pingPeer never.
Call(h) ==
    /\ stage[h] = "idle" /\ calls[h] < MaxCalls
    /\ calls' = [calls EXCEPT ![h] = @ + 1]
    /\ \E c \in {"request", "oneway", "ping"} :
         /\ call' = [call EXCEPT ![h] = c]
         /\ \E op \in IF c = "ping" THEN {"dial"} ELSE {"connect", "dial"} :
              stage' = [stage EXCEPT ![h] = op]
    /\ UNCHANGED <<nvars, waiting, handle, gvars>>

\* The request of h's present operation; an operation occurs once in a call.
Request(h) == [op |-> stage[h], stream |-> handle[h], by |-> h, call |-> calls[h]]

Submit(h) ==
    /\ stage[h] # "idle" /\ ~waiting[h]
    /\ waiting' = [waiting EXCEPT ![h] = TRUE]
    /\ jobs' = jobs \cup {Request(h)}
    /\ UNCHANGED <<open, unborn, call, stage, handle, calls, gvars>>

\* The binding refuses, or there is no context, or connectPeer finds no address
\* to dial.
Refuse(h) ==
    /\ stage[h] # "idle" /\ ~waiting[h]
    /\ Ended(h, FALSE, handle[h])
    /\ stranded' = IF stage[h] = "release" THEN stranded \cup {handle[h]} ELSE stranded
    /\ UNCHANGED <<nvars, late>>

\* The wait is over; the request stays, and nobody waits for its reply.
Timeout(h) ==
    /\ waiting[h]
    /\ Ended(h, FALSE, handle[h])
    /\ UNCHANGED <<nvars, gvars>>

-----------------------------------------------------------------------------
(* The node.                                                               *)

\* Whether the thread that asked still waits for this reply.
Awaited(job) == waiting[job.by] /\ Request(job.by) = job

\* A reply is for the operation that asked, if its thread still waits for it.
Reply(job, ok, s) ==
    /\ jobs' = jobs \ {job}
    /\ IF Awaited(job) THEN Ended(job.by, ok, s) ELSE UNCHANGED hvars

\* A dial opens a stream and answers with its handle.
Dialled(job, s) ==
    /\ job \in jobs /\ job.op = "dial" /\ s \in unborn
    /\ open' = open \cup {s} /\ unborn' = unborn \ {s}
    /\ late' = IF Awaited(job) THEN late ELSE late \cup {s}
    /\ Reply(job, TRUE, s)
    /\ UNCHANGED stranded

Released(job) ==
    /\ job \in jobs /\ job.op = "release"
    /\ open' = open \ {job.stream}
    /\ Reply(job, TRUE, job.stream)
    /\ UNCHANGED <<unborn, gvars>>

\* Connects, writes, reads and closes: a closed stream is still the node's.
Served(job) ==
    /\ job \in jobs /\ job.op \in {"connect", "write", "read", "closeEOF"}
    /\ job.op = "connect" \/ job.stream \in open
    /\ Reply(job, TRUE, job.stream)
    /\ UNCHANGED <<open, unborn, gvars>>

\* A request fails, or a dial answers without a stream.  A release that failed
\* leaves the stream as it was.
Failed(job) ==
    /\ job \in jobs
    /\ stranded' = IF job.op = "release" THEN stranded \cup {job.stream} ELSE stranded
    /\ Reply(job, FALSE, job.stream)
    /\ UNCHANGED <<open, unborn, late>>

-----------------------------------------------------------------------------
HostStep(h) == Call(h) \/ Submit(h) \/ Refuse(h) \/ Timeout(h)

NodeStep == \E job \in jobs :
    \/ \E s \in Streams : Dialled(job, s)
    \/ Released(job) \/ Served(job) \/ Failed(job)

Next == NodeStep \/ \E h \in Hosts : HostStep(h)

Spec == Init /\ [][Next]_vars

-----------------------------------------------------------------------------
(* Properties.                                                             *)

\* Every variable stays in its type, and a thread waits exactly while the node
\* has the request it is at.
TypeOK ==
    /\ open \subseteq Streams /\ unborn \subseteq Streams /\ open \cap unborn = {}
    /\ jobs \subseteq [op : Ops, stream : Streams \cup {None}, by : Hosts, call : 1 .. MaxCalls]
    /\ call \in [Hosts -> {"none", "request", "oneway", "ping"}]
    /\ stage \in [Hosts -> Ops \cup {"idle"}] /\ waiting \in [Hosts -> BOOLEAN]
    /\ handle \in [Hosts -> Streams \cup {None}] /\ calls \in [Hosts -> 0 .. MaxCalls]
    /\ late \subseteq Streams /\ stranded \subseteq Streams
    /\ \A h \in Hosts : waiting[h] <=> Request(h) \in jobs

\* No way out of a call, by a failure, a refusal or a timeout of any operation of
\* the chain, leaves the stream it dialled open with no release on its way.  Two
\* streams stay behind, for nothing retries: one whose dial was answered after its
\* caller had left, and one whose release was refused or failed.
NoStreamLeft ==
    \A s \in open :
        \/ \E h \in Hosts : handle[h] = s
        \/ \E job \in jobs : job.op = "release" /\ job.stream = s
        \/ s \in late \cup stranded

\* An operation that somebody waits for is on a stream that has not been released:
\* neither the release of an earlier call, come late, nor the call's own is ahead
\* of it.
AwaitedOnOpen ==
    \A job \in jobs : Awaited(job) /\ job.op \notin {"connect", "dial"}
                        => job.stream \in open

\* Two calls never drive one stream.
StreamsUnshared ==
    \A g, h \in Hosts : g # h /\ handle[g] # None => handle[g] # handle[h]

\* Where an operation stands in a call.
Place == [connect |-> 1, dial |-> 2, write |-> 3, read |-> 4, closeEOF |-> 4,
          release |-> 5, idle |-> 6]

\* The inductive invariant.  A call past its dial has a stream, which is open until
\* its release.
ChainInv == \A h \in Hosts :
    /\ stage[h] \in {"write", "read", "closeEOF", "release"} <=> handle[h] # None
    /\ handle[h] # None => handle[h] \in open
    /\ stage[h] # "idle" => calls[h] > 0

\* The requests of a call are those before the operation it is at, and that one
\* while it waits; none is of a stream still to be given out.
OrderInv == \A job \in jobs :
    /\ job.call <= calls[job.by]
    /\ job.call = calls[job.by] =>
         Awaited(job) \/ Place[job.op] < Place[stage[job.by]]
    /\ job.stream \notin unborn

\* A release nobody waits for is of a stream that no call has.
ReleaseInv == \A job \in jobs : job.op = "release" /\ ~Awaited(job) =>
    /\ job.stream # None
    /\ \A h \in Hosts : handle[h] # job.stream

IInv == TypeOK /\ StreamsUnshared /\ ChainInv /\ OrderInv /\ ReleaseInv /\ NoStreamLeft
=============================================================================
