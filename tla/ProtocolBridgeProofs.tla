------------------------- MODULE ProtocolBridgeProofs -------------------------
(***************************************************************************)
(* The streams of protocolRequest and pingPeer, for any number of threads, *)
(* streams and calls.                                                      *)
(***************************************************************************)
EXTENDS ProtocolBridge, TLAPS

HasStream == {"write", "read", "closeEOF", "release"}

\* The chain goes forward; it has a stream from a dial that succeeded to the
\* release, and ends from there by the release only.
LEMMA AfterChain ==
  ASSUME NEW c, NEW op \in Ops, NEW ok \in BOOLEAN
  PROVE  /\ After(c, op, ok) \in Ops \cup {"idle"}
         /\ Place[op] < Place[After(c, op, ok)]
         /\ op \in HasStream \ {"release"} => After(c, op, ok) \in HasStream
         /\ op = "release" => After(c, op, ok) = "idle"
         /\ op = "connect" => After(c, op, ok) \in {"dial", "idle"}
         /\ op = "dial" => After(c, op, ok) = IF ok THEN "write" ELSE "idle"
<1>1. CASE op = "connect"
  <2>1. After(c, op, ok) = IF ok THEN "dial" ELSE "idle"
    BY <1>1, Zenon DEF After
  <2> QED
    BY <1>1, <2>1 DEF Ops, Place, HasStream
<1>2. CASE op = "dial"
  <2>1. After(c, op, ok) = IF ok THEN "write" ELSE "idle"
    BY <1>2, Zenon DEF After
  <2> QED
    BY <1>2, <2>1 DEF Ops, Place, HasStream
<1>3. CASE op = "write"
  <2>1. After(c, op, ok) = IF ok THEN IF c = "oneway" THEN "closeEOF" ELSE "read"
                                 ELSE "release"
    BY <1>3, Zenon DEF After
  <2> QED
    BY <1>3, <2>1 DEF Ops, Place, HasStream
<1>4. CASE op \in {"read", "closeEOF"}
  <2>1. After(c, op, ok) = "release"
    BY <1>4, Zenon DEF After
  <2> QED
    BY <1>4, <2>1 DEF Ops, Place, HasStream
<1>5. CASE op = "release"
  <2>1. After(c, op, ok) = "idle"
    BY <1>5, Zenon DEF After
  <2> QED
    BY <1>5, <2>1 DEF Ops, Place, HasStream
<1> QED
  BY <1>1, <1>2, <1>3, <1>4, <1>5 DEF Ops

\* Places are numbers.
LEMMA PlaceNat == \A op \in Ops \cup {"idle"} : Place[op] \in Nat
  BY DEF Ops, Place

\* Nothing is open or asked before the first call.
LEMMA InitIInv == Init => IInv
  BY NoneAssumption, MaxCallsAssumption
  DEF Init, IInv, TypeOK, StreamsUnshared, ChainInv, OrderInv, ReleaseInv, NoStreamLeft,
      Request, Ops

\* What the end of an operation changes: the thread's own part, and no other's.
LEMMA EndedThread ==
  ASSUME TypeOK, NEW h \in Hosts, stage[h] # "idle", NEW ok \in BOOLEAN,
         NEW s \in Streams \cup {None}, Ended(h, ok, s)
  PROVE  /\ stage[h] \in Ops /\ calls' = calls
         /\ stage'[h] = After(call[h], stage[h], ok) /\ waiting'[h] = FALSE
         /\ handle'[h] = IF stage'[h] = "idle" THEN None ELSE s
         /\ \A g \in Hosts \ {h} : /\ stage'[g] = stage[g] /\ waiting'[g] = waiting[g]
                                   /\ handle'[g] = handle[g]
                                   /\ Request(g)' = Request(g)
         /\ call' \in [Hosts -> {"none", "request", "oneway", "ping"}]
         /\ stage' \in [Hosts -> Ops \cup {"idle"}] /\ waiting' \in [Hosts -> BOOLEAN]
         /\ handle' \in [Hosts -> Streams \cup {None}]
<1>1. stage[h] \in Ops
  BY DEF TypeOK
<1>2. After(call[h], stage[h], ok) \in Ops \cup {"idle"}
  BY <1>1, AfterChain
<1> QED
  BY <1>1, <1>2 DEF Ended, TypeOK, Request

\* An operation of a thread ended: answered, refused or given up.  The thread's
\* stream stays its own, or is released, or has its release on its way.
LEMMA EndedStep ==
  ASSUME IInv, NEW h \in Hosts, stage[h] # "idle", NEW ok \in BOOLEAN,
         NEW s \in Streams \cup {None}, Ended(h, ok, s),
         jobs' \subseteq jobs,
         \A g \in Hosts \ {h} : Request(g) \in jobs => Request(g) \in jobs',
         \A job \in jobs \ jobs' : job.op = "release" => job.stream \notin open' \ stranded',
         late \subseteq late', late' \subseteq Streams,
         stranded \subseteq stranded', stranded' \subseteq Streams,
         \/ /\ stage[h] = "dial" /\ ok /\ s \in unborn
            /\ open' = open \cup {s} /\ unborn' = unborn \ {s}
         \/ /\ stage[h] = "dial" => ~ok
            /\ s = handle[h] /\ unborn' = unborn
            /\ open' = open \/ (stage[h] = "release" /\ open' = open \ {s}),
         stage[h] = "release" =>
            \/ handle[h] \notin open' \/ handle[h] \in stranded' \/ Request(h) \in jobs'
  PROVE  IInv'
<1> USE NoneAssumption
<1>1. TypeOK /\ StreamsUnshared /\ ChainInv /\ OrderInv /\ ReleaseInv /\ NoStreamLeft
  BY DEF IInv
<1>2. /\ stage[h] \in Ops /\ calls' = calls
      /\ stage'[h] = After(call[h], stage[h], ok) /\ waiting'[h] = FALSE
      /\ handle'[h] = IF stage'[h] = "idle" THEN None ELSE s
      /\ \A g \in Hosts \ {h} : /\ stage'[g] = stage[g] /\ waiting'[g] = waiting[g]
                                /\ handle'[g] = handle[g] /\ Request(g)' = Request(g)
      /\ call' \in [Hosts -> {"none", "request", "oneway", "ping"}]
      /\ stage' \in [Hosts -> Ops \cup {"idle"}] /\ waiting' \in [Hosts -> BOOLEAN]
      /\ handle' \in [Hosts -> Streams \cup {None}]
  BY <1>1, EndedThread
<1>3. /\ stage'[h] \in Ops \cup {"idle"} /\ Place[stage[h]] < Place[stage'[h]]
      /\ stage[h] \in HasStream \ {"release"} => stage'[h] \in HasStream
      /\ stage[h] = "release" => stage'[h] = "idle"
      /\ stage[h] = "connect" => stage'[h] \in {"dial", "idle"}
      /\ stage[h] = "dial" => stage'[h] = IF ok THEN "write" ELSE "idle"
  BY <1>2, AfterChain
<1>4. handle'[h] \in {None, handle[h]} \/ (handle'[h] = s /\ s \in unborn /\ s \notin unborn')
  BY <1>2
<1>5. \A job \in jobs : job.by = h /\ job.call = calls[h] => Place[job.op] < Place[stage'[h]]
  <2> SUFFICES ASSUME NEW job \in jobs, job.by = h, job.call = calls[h]
               PROVE  Place[job.op] < Place[stage'[h]]
    OBVIOUS
  <2>1. job.op \in Ops
    BY <1>1 DEF TypeOK
  <2>2. Place[job.op] \in Nat /\ Place[stage[h]] \in Nat /\ Place[stage'[h]] \in Nat
    BY <1>2, <1>3, <2>1, PlaceNat
  <2>3. Place[job.op] <= Place[stage[h]]
    BY <1>1, <2>2 DEF OrderInv, Awaited, Request
  <2> QED
    BY <1>3, <2>2, <2>3
<1>6. \A job \in jobs' : ~(job.by = h /\ Request(h)' = job)
  <2> SUFFICES ASSUME NEW job \in jobs', job.by = h, Request(h)' = job PROVE FALSE
    OBVIOUS
  <2>1. job \in jobs /\ job.call = calls[h] /\ job.op = stage'[h]
    BY <1>2 DEF Request
  <2>2. Place[stage'[h]] \in Nat
    BY <1>3, PlaceNat
  <2> QED
    BY <1>5, <2>1, <2>2
<1>7. \A job \in jobs' : job.by # h => Awaited(job)' = Awaited(job)
  BY <1>1, <1>2 DEF Awaited, TypeOK
<1>8. TypeOK'
  <2>1. open' \subseteq Streams /\ unborn' \subseteq Streams /\ open' \cap unborn' = {}
    BY <1>1 DEF TypeOK
  <2>2. jobs' \subseteq [op : Ops, stream : Streams \cup {None}, by : Hosts, call : 1 .. MaxCalls]
    BY <1>1 DEF TypeOK
  <2>3. \A g \in Hosts : waiting'[g] <=> Request(g)' \in jobs'
    <3> SUFFICES ASSUME NEW g \in Hosts PROVE waiting'[g] <=> Request(g)' \in jobs'
      OBVIOUS
    <3>1. CASE g = h
      <4>1. Request(h)' \notin jobs'
        BY <1>6 DEF Request
      <4> QED
        BY <1>2, <3>1, <4>1
    <3>2. CASE g # h
      BY <1>1, <1>2, <3>2 DEF TypeOK
    <3> QED
      BY <3>1, <3>2
  <2> QED
    BY <1>1, <1>2, <2>1, <2>2, <2>3 DEF TypeOK
<1>9. StreamsUnshared'
  <2>1. \A g \in Hosts : handle[g] # None => handle[g] \in open /\ handle[g] \notin unborn
    BY <1>1 DEF ChainInv, TypeOK
  <2> QED
    BY <1>1, <1>2, <1>4, <2>1 DEF StreamsUnshared
<1>10. ChainInv'
  <2> SUFFICES ASSUME NEW g \in Hosts
               PROVE  /\ stage'[g] \in HasStream <=> handle'[g] # None
                      /\ handle'[g] # None => handle'[g] \in open'
                      /\ stage'[g] # "idle" => calls'[g] > 0
    BY DEF ChainInv, HasStream
  <2>1. CASE g = h
    BY <1>1, <1>2, <1>3, <2>1 DEF ChainInv, TypeOK, HasStream, Ops
  <2>2. CASE g # h
    BY <1>1, <1>2, <2>2 DEF ChainInv, StreamsUnshared, HasStream
  <2> QED
    BY <2>1, <2>2
<1>11. OrderInv'
  <2> SUFFICES ASSUME NEW job \in jobs'
               PROVE  /\ job.call <= calls'[job.by]
                      /\ job.call = calls'[job.by] =>
                           Awaited(job)' \/ Place[job.op] < Place[stage'[job.by]]
                      /\ job.stream \notin unborn'
    BY DEF OrderInv, Place
  <2>1. CASE job.by = h
    BY <1>1, <1>2, <1>5, <2>1 DEF OrderInv
  <2>2. CASE job.by # h
    <3>1. job.by \in Hosts
      BY <1>1 DEF TypeOK
    <3> QED
      BY <1>1, <1>2, <1>7, <2>2, <3>1 DEF OrderInv
  <2> QED
    BY <2>1, <2>2
<1>12. ReleaseInv'
  <2> SUFFICES ASSUME NEW job \in jobs', job.op = "release", ~Awaited(job)'
               PROVE  job.stream # None /\ \A g \in Hosts : handle'[g] # job.stream
    BY DEF ReleaseInv
  <2>1. job \in jobs /\ job.stream \notin unborn
    BY <1>1 DEF OrderInv
  <2>2. CASE Awaited(job)
    <3>1. job.by = h /\ stage[h] = "release" /\ job.stream = handle[h]
      BY <1>7, <2>1, <2>2 DEF Awaited, Request
    <3>2. handle[h] # None /\ handle'[h] = None
      BY <1>1, <1>2, <1>3, <3>1 DEF ChainInv
    <3> QED
      BY <1>1, <1>2, <3>1, <3>2 DEF StreamsUnshared
  <2>3. CASE ~Awaited(job)
    BY <1>1, <1>2, <1>4, <2>1, <2>3 DEF ReleaseInv
  <2> QED
    BY <2>2, <2>3
<1>13. NoStreamLeft'
  <2> SUFFICES ASSUME NEW t \in open'
               PROVE  \/ \E g \in Hosts : handle'[g] = t
                      \/ \E job \in jobs' : job.op = "release" /\ job.stream = t
                      \/ t \in late' \cup stranded'
    BY DEF NoStreamLeft
  <2>1. CASE t \notin open
    BY <1>2, <1>3, <2>1
  <2>2. CASE t \in open /\ handle[h] = t
    <3>1. t # None /\ stage[h] \in HasStream
      BY <1>1, <2>2 DEF ChainInv, TypeOK, HasStream
    <3>2. CASE stage[h] = "release"
      BY <2>2, <3>2 DEF Request
    <3>3. CASE stage[h] # "release"
      <4>1. stage'[h] # "idle" /\ s = handle[h]
        BY <1>3, <3>1, <3>3 DEF HasStream
      <4> QED
        BY <1>2, <2>2, <4>1
    <3> QED
      BY <3>2, <3>3
  <2>3. CASE t \in open /\ handle[h] # t
    BY <1>1, <1>2, <2>3 DEF NoStreamLeft
  <2> QED
    BY <2>1, <2>2, <2>3
<1> QED
  BY <1>8, <1>9, <1>10, <1>11, <1>12, <1>13 DEF IInv

\* The node handled a request that nobody waits for any more.
LEMMA UnheardStep ==
  ASSUME IInv, NEW job \in jobs, ~Awaited(job), jobs' = jobs \ {job}, UNCHANGED hvars,
         stranded' \in {stranded, stranded \cup {job.stream}},
         stranded' = stranded \/ job.op = "release",
         \/ \E s \in unborn : /\ open' = open \cup {s} /\ unborn' = unborn \ {s}
                              /\ late' = late \cup {s} /\ job.op # "release"
         \/ /\ unborn' = unborn /\ late' = late
            /\ open' = open /\ (job.op # "release" \/ job.stream \in stranded')
         \/ /\ unborn' = unborn /\ late' = late
            /\ open' = open \ {job.stream} /\ job.op = "release"
  PROVE  IInv'
<1>1. TypeOK /\ StreamsUnshared /\ ChainInv /\ OrderInv /\ ReleaseInv /\ NoStreamLeft
  BY DEF IInv
<1>2. /\ UNCHANGED <<call, stage, waiting, handle, calls>>
      /\ \A h \in Hosts : Request(h)' = Request(h)
      /\ \A j \in jobs' : Awaited(j)' = Awaited(j)
  BY DEF hvars, Request, Awaited
<1>3. \A h \in Hosts : waiting[h] => Request(h) # job
  BY DEF Awaited, Request
<1>4. TypeOK'
  <2>1. \A h \in Hosts : waiting'[h] <=> Request(h)' \in jobs'
    BY <1>1, <1>2, <1>3 DEF TypeOK
  <2>2. /\ open' \subseteq Streams /\ unborn' \subseteq Streams /\ open' \cap unborn' = {}
        /\ late' \subseteq Streams
    BY <1>1 DEF TypeOK
  <2>3. stranded' \subseteq Streams
    BY <1>1 DEF TypeOK, ReleaseInv
  <2> QED
    BY <1>1, <1>2, <2>1, <2>2, <2>3 DEF TypeOK
<1>5. StreamsUnshared'
  BY <1>1, <1>2 DEF StreamsUnshared
<1>6. ChainInv'
  BY <1>1, <1>2 DEF ChainInv, ReleaseInv
<1>7. OrderInv'
  <2> SUFFICES ASSUME NEW j \in jobs'
               PROVE  /\ j.call <= calls'[j.by]
                      /\ j.call = calls'[j.by] =>
                           Awaited(j)' \/ Place[j.op] < Place[stage'[j.by]]
                      /\ j.stream \notin unborn'
    BY DEF OrderInv, Place
  <2> QED
    BY <1>1, <1>2 DEF OrderInv
<1>8. ReleaseInv'
  BY <1>1, <1>2 DEF ReleaseInv
<1>9. NoStreamLeft'
  <2> SUFFICES ASSUME NEW t \in open'
               PROVE  \/ \E h \in Hosts : handle'[h] = t
                      \/ \E j \in jobs' : j.op = "release" /\ j.stream = t
                      \/ t \in late' \cup stranded'
    BY DEF NoStreamLeft
  <2>1. CASE t \in open
    <3>1. CASE \E j \in jobs : j.op = "release" /\ j.stream = t
      <4>1. PICK j \in jobs : j.op = "release" /\ j.stream = t
        BY <3>1
      <4>2. j # job \/ t \in stranded'
        BY <4>1
      <4> QED
        BY <4>1, <4>2
    <3>2. CASE ~ \E j \in jobs : j.op = "release" /\ j.stream = t
      BY <1>1, <1>2, <2>1, <3>2 DEF NoStreamLeft
    <3> QED
      BY <3>1, <3>2
  <2>2. CASE t \notin open
    BY <2>2
  <2> QED
    BY <2>1, <2>2
<1> QED
  BY <1>4, <1>5, <1>6, <1>7, <1>8, <1>9 DEF IInv

\* A request that somebody waits for is its thread's own.
LEMMA AwaitedRequest ==
  ASSUME TypeOK, NEW job \in jobs, Awaited(job)
  PROVE  /\ job.by \in Hosts /\ stage[job.by] = job.op /\ handle[job.by] = job.stream
         /\ stage[job.by] # "idle" /\ job.op \in Ops
         /\ job.stream \in Streams \cup {None}
         /\ \A g \in Hosts \ {job.by} : Request(g) # job
  BY DEF TypeOK, Awaited, Request, Ops

\* The node's steps: each ends the operation that waits for it, or goes unheard.
LEMMA NodeStepKeeps == IInv /\ NodeStep => IInv'
<1> SUFFICES ASSUME IInv, NEW job \in jobs,
                    \/ \E s \in Streams : Dialled(job, s)
                    \/ Released(job) \/ Served(job) \/ Failed(job)
             PROVE  IInv'
  BY DEF NodeStep
<1>1. TypeOK
  BY DEF IInv
<1>2. CASE ~Awaited(job)
  <2>1. /\ jobs' = jobs \ {job} /\ UNCHANGED hvars
        /\ stranded' \in {stranded, stranded \cup {job.stream}}
        /\ stranded' = stranded \/ job.op = "release"
    BY <1>2 DEF Dialled, Released, Served, Failed, Reply, gvars
  <2>2. \/ \E s \in unborn : /\ open' = open \cup {s} /\ unborn' = unborn \ {s}
                             /\ late' = late \cup {s} /\ job.op # "release"
        \/ /\ unborn' = unborn /\ late' = late
           /\ open' = open /\ (job.op # "release" \/ job.stream \in stranded')
        \/ /\ unborn' = unborn /\ late' = late
           /\ open' = open \ {job.stream} /\ job.op = "release"
    BY <1>2 DEF Dialled, Released, Served, Failed, gvars
  <2> QED
    BY <1>2, <2>1, <2>2, UnheardStep
<1>3. CASE Awaited(job)
  <2> DEFINE h == job.by
  <2>1. /\ h \in Hosts /\ stage[h] = job.op /\ handle[h] = job.stream
        /\ stage[h] # "idle" /\ job.stream \in Streams \cup {None}
        /\ \A g \in Hosts \ {h} : Request(g) # job
    BY <1>1, <1>3, AwaitedRequest
  <2>2. /\ jobs' = jobs \ {job} /\ late' = late
        /\ \/ stranded' = stranded
           \/ stranded' = stranded \cup {job.stream} /\ job.op = "release"
    BY <1>3 DEF Dialled, Released, Served, Failed, Reply, gvars
  <2>3. /\ jobs' \subseteq jobs
        /\ \A g \in Hosts \ {h} : Request(g) \in jobs => Request(g) \in jobs'
        /\ \A j \in jobs \ jobs' : j = job
        /\ late \subseteq late' /\ late' \subseteq Streams
        /\ stranded \subseteq stranded' /\ stranded' \subseteq Streams
    BY <1>1, <2>1, <2>2 DEF TypeOK, IInv, ChainInv
  <2>4. CASE \E s \in Streams : Dialled(job, s)
    <3>1. PICK s \in Streams : Dialled(job, s)
      BY <2>4
    <3>2. /\ Ended(h, TRUE, s) /\ stage[h] = "dial" /\ s \in unborn
          /\ open' = open \cup {s} /\ unborn' = unborn \ {s}
      BY <1>3, <2>1, <3>1 DEF Dialled, Reply
    <3> QED
      BY <2>1, <2>3, <3>2, EndedStep
  <2>5. CASE Released(job)
    <3>1. /\ Ended(h, TRUE, handle[h]) /\ stage[h] = "release" /\ unborn' = unborn
          /\ open' = open \ {handle[h]} /\ handle[h] \notin open'
      BY <1>3, <2>1, <2>5 DEF Released, Reply, gvars
    <3> QED
      BY <2>1, <2>3, <3>1, EndedStep
  <2>6. CASE Served(job)
    <3>1. /\ Ended(h, TRUE, handle[h]) /\ stage[h] \notin {"dial", "release"}
          /\ open' = open /\ unborn' = unborn
      BY <1>3, <2>1, <2>6 DEF Served, Reply, gvars
    <3> QED
      BY <2>1, <2>3, <3>1, EndedStep
  <2>7. CASE Failed(job)
    <3>1. /\ Ended(h, FALSE, handle[h])
          /\ stage[h] = "release" => handle[h] \in stranded'
          /\ open' = open /\ unborn' = unborn
      BY <1>3, <2>1, <2>7 DEF Failed, Reply, gvars
    <3> QED
      BY <2>1, <2>3, <3>1, EndedStep
  <2> QED
    BY <2>4, <2>5, <2>6, <2>7
<1> QED
  BY <1>2, <1>3

\* A call begins without a stream, and after its thread's earlier requests.
LEMMA CallKeeps == ASSUME IInv, NEW h \in Hosts, Call(h) PROVE IInv'
<1>1. TypeOK /\ StreamsUnshared /\ ChainInv /\ OrderInv /\ ReleaseInv /\ NoStreamLeft
  BY DEF IInv
<1>2. /\ stage[h] = "idle" /\ calls[h] < MaxCalls /\ calls' = [calls EXCEPT ![h] = @ + 1]
      /\ call' \in [Hosts -> {"none", "request", "oneway", "ping"}]
      /\ \E op \in {"connect", "dial"} : stage' = [stage EXCEPT ![h] = op]
      /\ UNCHANGED <<open, unborn, jobs, waiting, handle, late, stranded>>
  <2>1. call \in [Hosts -> {"none", "request", "oneway", "ping"}]
    BY <1>1 DEF TypeOK
  <2>2. PICK c \in {"request", "oneway", "ping"} :
          /\ call' = [call EXCEPT ![h] = c]
          /\ \E op \in IF c = "ping" THEN {"dial"} ELSE {"connect", "dial"} :
               stage' = [stage EXCEPT ![h] = op]
    BY DEF Call
  <2>3. call' \in [Hosts -> {"none", "request", "oneway", "ping"}]
    BY <2>1, <2>2
  <2>4. PICK op \in IF c = "ping" THEN {"dial"} ELSE {"connect", "dial"} :
          stage' = [stage EXCEPT ![h] = op]
    BY <2>2
  <2>5. op \in {"connect", "dial"}
    OBVIOUS
  <2>6. /\ stage[h] = "idle" /\ calls[h] < MaxCalls /\ calls' = [calls EXCEPT ![h] = @ + 1]
        /\ UNCHANGED <<open, unborn, jobs, waiting, handle, late, stranded>>
    BY DEF Call, nvars, gvars
  <2> QED
    BY <2>3, <2>4, <2>5, <2>6
<1>3. calls[h] \in 0 .. MaxCalls /\ calls'[h] = calls[h] + 1
  BY <1>1, <1>2 DEF TypeOK
<1>4. \A job \in jobs : job.by = h => job.call < calls'[h]
  BY <1>1, <1>3, MaxCallsAssumption DEF OrderInv, TypeOK
<1>5. ~waiting[h]
  BY <1>1, <1>2 DEF TypeOK, Request, Ops
<1>6. \A g \in Hosts \ {h} : Request(g)' = Request(g) /\ calls'[g] = calls[g]
                             /\ stage'[g] = stage[g]
  BY <1>1, <1>2 DEF TypeOK, Request
<1>7. Request(h)' \notin jobs
  BY <1>3, <1>4 DEF Request
<1>8. \A job \in jobs : Awaited(job)' = Awaited(job)
  BY <1>1, <1>2, <1>5, <1>6 DEF Awaited, TypeOK
<1>9. TypeOK'
  <2>1. \A g \in Hosts : waiting'[g] <=> Request(g)' \in jobs'
    BY <1>1, <1>2, <1>5, <1>6, <1>7 DEF TypeOK
  <2>2. calls' \in [Hosts -> 0 .. MaxCalls]
    BY <1>1, <1>2, <1>3, MaxCallsAssumption DEF TypeOK
  <2>3. stage' \in [Hosts -> Ops \cup {"idle"}]
    BY <1>1, <1>2 DEF TypeOK, Ops
  <2> QED
    BY <1>1, <1>2, <2>1, <2>2, <2>3 DEF TypeOK
<1>10. StreamsUnshared'
  BY <1>1, <1>2 DEF StreamsUnshared
<1>11. ChainInv'
  BY <1>1, <1>2 DEF ChainInv, TypeOK
<1>12. OrderInv'
  <2> SUFFICES ASSUME NEW job \in jobs
               PROVE  /\ job.call <= calls'[job.by]
                      /\ job.call = calls'[job.by] =>
                           Awaited(job)' \/ Place[job.op] < Place[stage'[job.by]]
                      /\ job.stream \notin unborn'
    BY <1>2 DEF OrderInv, Place
  <2>1. CASE job.by = h
    <3>1. job.call \in Nat /\ calls'[h] \in Nat
      BY <1>1, <1>3, MaxCallsAssumption DEF TypeOK
    <3> QED
      BY <1>1, <1>2, <1>4, <2>1, <3>1 DEF OrderInv
  <2>2. CASE job.by # h
    <3>1. job.by \in Hosts
      BY <1>1 DEF TypeOK
    <3> QED
      BY <1>1, <1>2, <1>6, <1>8, <2>2, <3>1 DEF OrderInv
  <2> QED
    BY <2>1, <2>2
<1>13. ReleaseInv'
  BY <1>1, <1>2, <1>8 DEF ReleaseInv
<1>14. NoStreamLeft'
  BY <1>1, <1>2 DEF NoStreamLeft
<1> QED
  BY <1>9, <1>10, <1>11, <1>12, <1>13, <1>14 DEF IInv

\* What is submitted was not asked before, and is of the thread's own open stream.
LEMMA SubmitKeeps == ASSUME IInv, NEW h \in Hosts, Submit(h) PROVE IInv'
<1>1. TypeOK /\ StreamsUnshared /\ ChainInv /\ OrderInv /\ ReleaseInv /\ NoStreamLeft
  BY DEF IInv
<1>2. /\ stage[h] # "idle" /\ ~waiting[h] /\ waiting' = [waiting EXCEPT ![h] = TRUE]
      /\ jobs' = jobs \cup {Request(h)}
      /\ UNCHANGED <<open, unborn, call, stage, handle, calls, late, stranded>>
  BY DEF Submit, gvars
<1>3. /\ \A g \in Hosts : Request(g)' = Request(g)
      /\ \A g \in Hosts \ {h} : waiting'[g] = waiting[g]
      /\ waiting'[h] /\ Request(h) \notin jobs
  BY <1>1, <1>2 DEF TypeOK, Request
<1>4. /\ Request(h).op = stage[h] /\ Request(h).stream = handle[h]
      /\ Request(h).by = h /\ Request(h).call = calls[h]
  BY DEF Request
<1>5. \A job : job = Request(h) => Awaited(job)'
  BY <1>2, <1>3, <1>4 DEF Awaited
<1>6. \A job \in jobs : Awaited(job)' = Awaited(job)
  BY <1>1, <1>2, <1>3 DEF Awaited, TypeOK
<1>7. handle[h] \notin unborn
  BY <1>1, NoneAssumption DEF ChainInv, TypeOK
<1>8. TypeOK'
  <2>1. Request(h) \in [op : Ops, stream : Streams \cup {None}, by : Hosts,
                        call : 1 .. MaxCalls]
    BY <1>1, <1>2, MaxCallsAssumption DEF TypeOK, ChainInv, Request
  <2>2. \A g \in Hosts \ {h} : Request(g) # Request(h)
    BY DEF Request
  <2>3. \A g \in Hosts : waiting'[g] <=> Request(g)' \in jobs'
    BY <1>1, <1>2, <1>3, <2>2 DEF TypeOK
  <2> QED
    BY <1>1, <1>2, <2>1, <2>3 DEF TypeOK
<1>9. StreamsUnshared'
  BY <1>1, <1>2 DEF StreamsUnshared
<1>10. ChainInv'
  BY <1>1, <1>2 DEF ChainInv
<1>11. OrderInv'
  <2> SUFFICES ASSUME NEW job \in jobs'
               PROVE  /\ job.call <= calls'[job.by]
                      /\ job.call = calls'[job.by] =>
                           Awaited(job)' \/ Place[job.op] < Place[stage'[job.by]]
                      /\ job.stream \notin unborn'
    BY DEF OrderInv, Place
  <2>1. CASE job = Request(h)
    <3>1. calls[h] \in Nat
      BY <1>1, MaxCallsAssumption DEF TypeOK
    <3> QED
      BY <1>2, <1>4, <1>5, <1>7, <2>1, <3>1
  <2>2. CASE job # Request(h)
    BY <1>1, <1>2, <1>6, <2>2 DEF OrderInv
  <2> QED
    BY <2>1, <2>2
<1>12. ReleaseInv'
  BY <1>1, <1>2, <1>5, <1>6 DEF ReleaseInv
<1>13. NoStreamLeft'
  BY <1>1, <1>2 DEF NoStreamLeft
<1> QED
  BY <1>8, <1>9, <1>10, <1>11, <1>12, <1>13 DEF IInv

\* A refused operation failed; a refused release leaves its stream stranded.
LEMMA RefuseKeeps == ASSUME IInv, NEW h \in Hosts, Refuse(h) PROVE IInv'
<1>1. TypeOK /\ ChainInv
  BY DEF IInv
<1>2. /\ stage[h] # "idle" /\ Ended(h, FALSE, handle[h]) /\ handle[h] \in Streams \cup {None}
      /\ jobs' = jobs /\ open' = open /\ unborn' = unborn /\ late' = late
      /\ late \subseteq Streams /\ stranded \subseteq stranded'
  BY <1>1 DEF Refuse, nvars, TypeOK
<1>3. /\ stranded' \subseteq Streams
      /\ stage[h] = "release" => handle[h] \in stranded'
  BY <1>1 DEF Refuse, TypeOK, ChainInv
<1> QED
  BY <1>2, <1>3, EndedStep

\* What was given up stays with the node; a release among it is still on its way.
LEMMA TimeoutKeeps == ASSUME IInv, NEW h \in Hosts, Timeout(h) PROVE IInv'
<1>1. TypeOK
  BY DEF IInv
<1>2. waiting[h] /\ Request(h) \in jobs
  BY <1>1 DEF Timeout, TypeOK
<1>3. stage[h] # "idle" /\ handle[h] \in Streams \cup {None}
  BY <1>1, <1>2 DEF TypeOK, Request, Ops
<1>4. /\ Ended(h, FALSE, handle[h])
      /\ jobs' = jobs /\ open' = open /\ unborn' = unborn
      /\ late' = late /\ stranded' = stranded
      /\ late \subseteq Streams /\ stranded \subseteq Streams
  BY <1>1 DEF Timeout, nvars, gvars, TypeOK
<1> QED
  BY <1>2, <1>3, <1>4, EndedStep

\* A step that changes nothing keeps what was.
LEMMA StutterKeeps == IInv /\ UNCHANGED vars => IInv'
  BY DEF vars, IInv, TypeOK, StreamsUnshared, ChainInv, OrderInv, ReleaseInv,
         NoStreamLeft, Awaited, Request, Place

\* The inductive invariant holds of every behaviour.
THEOREM IInvInvariant == Spec => []IInv
<1>1. IInv /\ [Next]_vars => IInv'
  BY NodeStepKeeps, CallKeeps, SubmitKeeps, RefuseKeeps, TimeoutKeeps, StutterKeeps
  DEF Next, HostStep
<1> QED
  BY InitIInv, <1>1, PTL DEF Spec

\* Every variable stays in its type, and a thread waits exactly while the node
\* has its request: no reply of an earlier operation reaches it (plugin.h:127-134).
THEOREM TypeCorrect == Spec => []TypeOK
<1>1. IInv => TypeOK
  BY DEF IInv
<1> QED
  BY <1>1, IInvInvariant, PTL

\* Every way out of protocolRequest and pingPeer asks for the release of the stream it
\* dialled (protocol_bridge.cpp:99-119, 226-246).
THEOREM ReleaseSafety == Spec => []NoStreamLeft
<1>1. IInv => NoStreamLeft
  BY DEF IInv
<1> QED
  BY <1>1, IInvInvariant, PTL

\* No operation that is waited for finds its stream released (protocol_bridge.cpp:
\* 105-119).
THEOREM StreamSafety == Spec => []AwaitedOnOpen
<1>1. IInv => AwaitedOnOpen
  <2> SUFFICES ASSUME IInv, NEW job \in jobs, Awaited(job),
                      job.op \notin {"connect", "dial"}
               PROVE  job.stream \in open
    BY DEF AwaitedOnOpen
  <2>1. TypeOK /\ ChainInv
    BY DEF IInv
  <2>2. /\ job.by \in Hosts /\ stage[job.by] = job.op /\ handle[job.by] = job.stream
        /\ job.op \in Ops
    BY <2>1, AwaitedRequest
  <2> QED
    BY <2>1, <2>2 DEF ChainInv, Ops
<1> QED
  BY <1>1, IInvInvariant, PTL
===============================================================================
