------------------------- MODULE PubsubEventsProofs -------------------------
(***************************************************************************)
(* The safety of a message on its way to the host, for any topics, bounds, *)
(* threads, handlers and number of messages.                               *)
(***************************************************************************)
EXTENDS PubsubEvents, TLAPS

\* The handler that a subscription counts on is published before its request goes out,
\* and stays published: what a thread or a request has in hand is at or before the
\* snapshot, and so is every promise.
PublishedInv ==
    /\ snapshot <= handler
    /\ \A t \in Threads :
        /\ call[t].with <= handler
        /\ pc[t] \in {"submit", "await", "ok"} => call[t].with <= snapshot
    /\ \A r \in requests : r.call.with <= snapshot
    /\ \A x \in Keys : promised[x] <= snapshot

\* A request that has a caller is the one its caller waits for.
RequestInv ==
    /\ \A r \in requests : r.by \in Threads => pc[r.by] = "await"
    /\ \A r, q \in requests : r.by = q.by /\ r.by \in Threads => r = q

\* What the listener holds was read at or after the promise it has to keep.
ListenerInv == ev.step = "invoke" => ev.due <= ev.fn

\* No queue is past its bound.
DepthInv == \A x \in Keys : depth[x] <= most

\* One thread at a time collects metrics, and its floor was the drops once.
MetricsInv ==
    /\ \A t, u \in Threads :
           pc[t] \in {"registry", "returned"} /\ pc[u] \in {"registry", "returned"} => t = u
    /\ (\E t \in Threads : pc[t] \in {"registry", "returned"}) =>
           \A x \in Keys : floor[x] <= dropped[x]

\* The inductive invariant.
IInv ==
    /\ TypeOK /\ PublishedInv /\ RequestInv /\ ListenerInv /\ DepthInv /\ MetricsInv
    /\ MessagesAccounted /\ DropsReported

-----------------------------------------------------------------------------
(* The parts of a step.                                                    *)

\* What the listener does next.
LEMMA ListenerOrder ==
  /\ Steps[1] = "push" /\ Steps[3] = "invoke"
  /\ ev.step = "push" => Proceed = [ev EXCEPT !.step = "read"]
  /\ ev.step = "read" => Proceed = [ev EXCEPT !.step = "invoke"]
  /\ ev.step = "invoke" => Proceed = Quiet
<1>1. Steps[1] = "push" /\ Steps[2] = "read" /\ Steps[3] = "invoke"
  BY DEF Steps
<1>2. 1 \in 1 .. 2 /\ 2 \in 1 .. 2 /\ \A i \in 1 .. 2 : i = 1 \/ i = 2
  OBVIOUS
<1>3. ev.step = "push" => (CHOOSE i \in 1 .. 2 : Steps[i] = ev.step) = 1
  BY <1>1, <1>2
<1>4. ev.step = "read" => (CHOOSE i \in 1 .. 2 : Steps[i] = ev.step) = 2
  BY <1>1, <1>2
<1> QED
  BY <1>1, <1>3, <1>4 DEF Proceed

\* A thread that goes on within its call, or leaves it, disturbs no count and no metrics.
LEMMA CallFacts ==
  /\ NoCall \in Calls /\ NoCall.with = 0
  /\ \A c \in Calls : c.with \in Nat /\ (c.op = "subscribe" => c.topic \in Keys)
  /\ Zero \in [Keys -> Nat] /\ NoSeries \in [Keys -> [depth : Nat, dropped : Nat]]
  BY DEF NoCall, Calls, Zero, NoSeries

-----------------------------------------------------------------------------
(* The host's threads.                                                     *)

\* A new handler is not before the snapshot.
LEMMA SetHandlerKeeps ==
  ASSUME IInv, SetHandler
  PROVE  IInv'
<1> USE DEF IInv, SetHandler, bkvars, nodevars, thrvars, hvars, mvars
<1>1. handler' \in Nat /\ handler' > handler
  BY DEF TypeOK
<1>2. TypeOK'
  BY <1>1 DEF TypeOK
<1>3. PublishedInv'
  BY <1>1 DEF PublishedInv, TypeOK, Calls
<1>4. /\ RequestInv' /\ ListenerInv' /\ DepthInv' /\ MetricsInv' /\ MessagesAccounted'
      /\ DropsReported'
  BY DEF RequestInv, ListenerInv, DepthInv, MetricsInv, MessagesAccounted, DropsReported
<1> QED
  BY <1>2, <1>3, <1>4

\* A subscribe begins with the handler of the moment, and publishes first.
LEMMA BeginKeeps ==
  ASSUME IInv, NEW t \in Threads, Call(t)
  PROVE  IInv'
<1> USE DEF IInv, bkvars, nodevars, hvars, mvars
<1>1. PICK op \in {"start", "stop", "subscribe", "unsubscribe"}, x \in Keys \cup {"none"} :
        /\ Begin(t, op, x, FirstStep(op))
        /\ IF op \in {"start", "stop"} THEN x = "none" ELSE x \in Keys
  BY DEF Call
<1> DEFINE begun == [op |-> op, topic |-> x, with |-> IF op = "subscribe" THEN handler ELSE 0]
<1>2. /\ pc[t] = "idle" /\ pc' = [pc EXCEPT ![t] = FirstStep(op)]
      /\ call' = [call EXCEPT ![t] = begun]
      /\ UNCHANGED <<most, depth, dropped, handler, snapshot, subscribed, requests, ev,
                     promised, texts, served, released, floor, payload>>
  BY <1>1 DEF Begin
<1>3. /\ begun \in Calls /\ begun.with <= handler
      /\ \/ FirstStep(op) = "publish"
         \/ FirstStep(op) = "submit" /\ begun.with = 0
  <2>1. begun \in Calls /\ begun.with = IF op = "subscribe" THEN handler ELSE 0
    BY <1>1 DEF Calls, TypeOK
  <2> HIDE DEF begun
  <2> QED
    BY <2>1 DEF FirstStep, TypeOK
<1> HIDE DEF begun
<1>4. TypeOK'
  BY <1>2, <1>3 DEF TypeOK, Calls
<1>5. PublishedInv'
  BY <1>2, <1>3 DEF PublishedInv, TypeOK
<1>6. RequestInv'
  BY <1>2 DEF RequestInv, TypeOK
<1>7. ListenerInv' /\ DepthInv' /\ MessagesAccounted'
  BY <1>2 DEF ListenerInv, DepthInv, MessagesAccounted
<1>8. MetricsInv' /\ DropsReported'
  BY <1>2, <1>3 DEF MetricsInv, DropsReported, TypeOK
<1> QED
  BY <1>4, <1>5, <1>6, <1>7, <1>8

\* The snapshot only moves forward, to the handler of now.
LEMMA PublishKeeps ==
  ASSUME IInv, NEW t \in Threads, Publish(t)
  PROVE  IInv'
<1> USE DEF IInv, Publish, bkvars, nodevars, hvars, mvars
<1>1. TypeOK'
  BY DEF TypeOK
<1>2. PublishedInv'
  <2>1. /\ snapshot \in Nat /\ handler \in Nat /\ snapshot <= handler
        /\ \A u \in Threads : call[u].with \in Nat
        /\ \A r \in requests : r.call.with \in Nat
        /\ promised \in [Keys -> Nat]
    BY CallFacts DEF TypeOK, PublishedInv
  <2>2. ASSUME NEW u \in Threads, pc'[u] \in {"submit", "await", "ok"}
        PROVE  call[u].with <= snapshot'
    BY <2>1 DEF PublishedInv
  <2>3. \A r \in requests : r.call.with <= snapshot'
    BY <2>1 DEF PublishedInv
  <2>4. \A x \in Keys : promised[x] <= snapshot'
    BY <2>1 DEF PublishedInv
  <2> QED
    BY <2>1, <2>2, <2>3, <2>4 DEF PublishedInv
<1>3. ListenerInv' /\ DepthInv' /\ MessagesAccounted'
  BY DEF ListenerInv, DepthInv, MessagesAccounted
<1>4. RequestInv' /\ MetricsInv' /\ DropsReported'
  BY DEF RequestInv, MetricsInv, DropsReported, TypeOK
<1> QED
  BY <1>1, <1>2, <1>3, <1>4

\* A request goes out with what was published.
LEMMA SubmitKeeps ==
  ASSUME IInv, NEW t \in Threads, Submit(t)
  PROVE  IInv'
<1> USE DEF IInv
<1> DEFINE made == [by |-> t, call |-> call[t]]
<1>1. /\ pc[t] = "submit"
      /\ \/ /\ pc' = [pc EXCEPT ![t] = "await"] /\ UNCHANGED call
            /\ requests' = requests \cup {made}
         \/ /\ pc' = [pc EXCEPT ![t] = "idle"] /\ call' = [call EXCEPT ![t] = NoCall]
            /\ UNCHANGED requests
      /\ UNCHANGED <<most, depth, dropped, handler, snapshot, subscribed, ev, promised,
                     texts, served, released, floor, payload>>
  BY DEF Submit, Leave, bkvars, hvars, mvars
<1>2. /\ made \in [by : Threads \cup {"nobody"}, call : Calls]
      /\ made.call.with <= snapshot
  BY <1>1 DEF TypeOK, Calls, PublishedInv
<1> HIDE DEF made
<1>3. TypeOK'
  <2>1. requests' \subseteq [by : Threads \cup {"nobody"}, call : Calls]
    BY <1>1, <1>2 DEF TypeOK, Calls
  <2>2. call' \in [Threads -> Calls]
    BY <1>1, CallFacts DEF TypeOK, Calls
  <2> QED
    BY <1>1, <2>1, <2>2 DEF TypeOK, Calls
<1>4. PublishedInv'
  <2>1. \A r \in requests' : r.call.with <= snapshot
    BY <1>1, <1>2 DEF PublishedInv
  <2>2. ASSUME NEW u \in Threads
        PROVE  /\ call'[u].with <= handler
               /\ pc'[u] \in {"submit", "await", "ok"} => call'[u].with <= snapshot
    <3>1. \/ call'[u] = call[u] /\ (pc'[u] = pc[u] \/ pc[u] = "submit")
          \/ call'[u] = NoCall
      BY <1>1 DEF TypeOK
    <3>2. snapshot \in Nat /\ handler \in Nat
      BY DEF TypeOK
    <3> QED
      BY <3>1, <3>2, CallFacts DEF PublishedInv
  <2> QED
    BY <1>1, <2>1, <2>2 DEF PublishedInv
<1>5. ListenerInv' /\ DepthInv' /\ MessagesAccounted'
  BY <1>1 DEF ListenerInv, DepthInv, MessagesAccounted
<1>6. MetricsInv' /\ DropsReported'
  BY <1>1 DEF MetricsInv, DropsReported, TypeOK
<1>7. RequestInv'
  <2>1. made.by = t /\ \A r \in requests : r.by # t
    BY <1>1 DEF RequestInv, made
  <2>2. \A r \in requests' : \/ r \in requests /\ r.by # t
                             \/ r = made /\ pc'[t] = "await"
    BY <1>1, <2>1 DEF TypeOK
  <2>3. \A u \in Threads \ {t} : pc'[u] = pc[u]
    BY <1>1 DEF TypeOK
  <2> QED
    BY <2>1, <2>2, <2>3 DEF RequestInv
<1> QED
  BY <1>3, <1>4, <1>5, <1>6, <1>7

\* A caller leaves; its request keeps what it counts on.
LEMMA TimeoutKeeps ==
  ASSUME IInv, NEW t \in Threads, Timeout(t)
  PROVE  IInv'
<1> USE DEF IInv, Timeout, Leave, bkvars, hvars, mvars
<1> DEFINE left(r) == IF r.by = t THEN [r EXCEPT !.by = "nobody"] ELSE r
<1>1. \A r \in requests : /\ left(r) \in [by : Threads \cup {"nobody"}, call : Calls]
                          /\ left(r).call = r.call
  BY DEF TypeOK, Calls
<1>2. requests' = {left(r) : r \in requests}
  OBVIOUS
<1> HIDE DEF left
<1>0. TypeOK'
  <2>1. requests' \subseteq [by : Threads \cup {"nobody"}, call : Calls]
    BY <1>1, <1>2
  <2>2. call' \in [Threads -> Calls]
    BY CallFacts DEF TypeOK, Calls
  <2> QED
    BY <2>1, <2>2 DEF TypeOK, Calls
<1>3. PublishedInv'
  <2>1. \A r \in requests' : r.call.with <= snapshot
    BY <1>1, <1>2 DEF PublishedInv
  <2> QED
    BY <2>1, CallFacts DEF PublishedInv, TypeOK, Calls
<1>4. ListenerInv' /\ DepthInv' /\ MessagesAccounted'
  BY DEF ListenerInv, DepthInv, MessagesAccounted
<1>5. MetricsInv' /\ DropsReported'
  BY DEF MetricsInv, DropsReported, TypeOK
<1>6. RequestInv'
  <2>1. \A r \in requests : left(r).by \in Threads => left(r) = r /\ r.by # t
    BY NobodyAssumption DEF TypeOK, left
  <2> HIDE DEF left
  <2>2. \A q \in requests' : q.by \in Threads => q \in requests /\ q.by # t
    BY <1>2, <2>1
  <2>3. \A u \in Threads \ {t} : pc'[u] = pc[u]
    BY <1>0, <1>1 DEF TypeOK
  <2> QED
    BY <2>2, <2>3 DEF RequestInv
<1> QED
  BY <1>0, <1>3, <1>4, <1>5, <1>6

\* What is let go of was waiting.
LEMMA ReturnKeeps ==
  ASSUME IInv, NEW t \in Threads, Return(t)
  PROVE  IInv'
<1> USE DEF IInv, Leave
<1> DEFINE gone == CASE call[t].op = "unsubscribe" -> {call[t].topic}
                     [] call[t].op = "stop" -> Keys
                     [] OTHER -> {}
<1>1. /\ pc[t] = "ok" /\ Leave(t)
      /\ depth' = [x \in Keys |-> IF x \in gone THEN 0 ELSE depth[x]]
      /\ released' = [x \in Keys |-> released[x] + IF x \in gone THEN depth[x] ELSE 0]
      /\ UNCHANGED <<most, dropped, handler, snapshot, subscribed, requests, ev, promised,
                     texts, served, floor, payload>>
  BY DEF Return, Release, nodevars, mvars
<1> HIDE DEF gone
<1>2. TypeOK'
  BY <1>1, CallFacts DEF TypeOK, Calls
<1>3. PublishedInv'
  BY <1>1, CallFacts DEF PublishedInv, TypeOK, Calls
<1>4. ListenerInv'
  BY <1>1 DEF ListenerInv
<1>5. DepthInv'
  BY <1>1, BoundsAssumption DEF DepthInv, TypeOK
<1>6. MessagesAccounted'
  <2> SUFFICES ASSUME NEW x \in Keys, most > 0
               PROVE  texts[x] = depth'[x] + dropped[x] + served[x] + released'[x]
                                 + IF ev.step = "push" /\ ev.topic = x THEN 1 ELSE 0
    BY <1>1 DEF MessagesAccounted
  <2>1. depth'[x] + released'[x] = depth[x] + released[x]
    BY <1>1 DEF TypeOK
  <2>2. /\ depth[x] \in Nat /\ dropped[x] \in Nat /\ served[x] \in Nat /\ released[x] \in Nat
        /\ depth'[x] \in Nat /\ released'[x] \in Nat
    BY <1>2, <1>1 DEF TypeOK
  <2> QED
    BY <2>1, <2>2 DEF MessagesAccounted
<1>7. RequestInv' /\ MetricsInv' /\ DropsReported'
  BY <1>1 DEF RequestInv, MetricsInv, DropsReported, TypeOK
<1> QED
  BY <1>2, <1>3, <1>4, <1>5, <1>6, <1>7

\* A message that is handed out was waiting.
LEMMA NextMessageKeeps ==
  ASSUME IInv, NEW x \in Keys, NextMessage(x)
  PROVE  IInv'
<1> USE DEF IInv, NextMessage, Take, nodevars, thrvars, mvars
<1>1. depth[x] \in Nat /\ served[x] \in Nat
  BY DEF TypeOK
<1>2. TypeOK'
  BY <1>1 DEF TypeOK
<1>3. PublishedInv' /\ ListenerInv'
  BY DEF PublishedInv, ListenerInv
<1>4. DepthInv'
  BY <1>1, BoundsAssumption DEF DepthInv, TypeOK
<1>5. MessagesAccounted'
  <2> SUFFICES ASSUME NEW y \in Keys, most > 0
               PROVE  texts[y] = depth'[y] + dropped[y] + served'[y] + released[y]
                                 + IF ev.step = "push" /\ ev.topic = y THEN 1 ELSE 0
    BY DEF MessagesAccounted
  <2>1. depth'[y] + served'[y] = depth[y] + served[y]
    BY DEF TypeOK
  <2>2. /\ depth[y] \in Nat /\ dropped[y] \in Nat /\ served[y] \in Nat /\ released[y] \in Nat
        /\ depth'[y] \in Nat /\ served'[y] \in Nat
    BY <1>2 DEF TypeOK
  <2> QED
    BY <2>1, <2>2 DEF MessagesAccounted
<1>6. RequestInv' /\ MetricsInv' /\ DropsReported'
  BY DEF RequestInv, MetricsInv, DropsReported
<1> QED
  BY <1>2, <1>3, <1>4, <1>5, <1>6

-----------------------------------------------------------------------------
(* The node.                                                               *)

\* An answer reaches the caller that still waits, if there is one.
LEMMA AnswerKeeps ==
  ASSUME IInv, NEW r \in requests, Serve(r) \/ Deny(r)
  PROVE  IInv'
<1> USE DEF IInv
<1>1. /\ requests' = requests \ {r}
      /\ \/ UNCHANGED <<pc, call>>
         \/ r.by \in Threads /\ pc' = [pc EXCEPT ![r.by] = "ok"] /\ UNCHANGED call
         \/ /\ r.by \in Threads /\ pc' = [pc EXCEPT ![r.by] = "idle"]
            /\ call' = [call EXCEPT ![r.by] = NoCall]
      /\ UNCHANGED <<most, depth, dropped, handler, snapshot, ev, texts, served, released,
                     floor, payload>>
  BY DEF Serve, Deny, Answered, Leave, bkvars, thrvars, mvars
<1>2. /\ r.call \in Calls /\ r.call.with <= snapshot
      /\ r.by \in Threads => pc[r.by] = "await"
  BY DEF TypeOK, PublishedInv, RequestInv, Calls
<1>3. /\ subscribed' \subseteq Keys /\ promised' \in [Keys -> Nat]
      /\ \A x \in Keys : promised'[x] <= snapshot
  <2>1. CASE Deny(r)
    BY <2>1 DEF Deny, TypeOK, PublishedInv
  <2>2. CASE Serve(r)
    <3>1. /\ r.call.with \in Nat /\ snapshot \in Nat
          /\ r.call.op = "subscribe" => r.call.topic \in Keys
      BY <1>2 DEF Calls, TypeOK
    <3>2. \/ promised' = promised
          \/ promised' = [promised EXCEPT ![r.call.topic] = r.call.with]
      BY <2>2 DEF Serve
    <3>3. promised' \in [Keys -> Nat] /\ \A x \in Keys : promised'[x] <= snapshot
      BY <1>2, <3>1, <3>2 DEF TypeOK, PublishedInv
    <3>4. subscribed' \subseteq Keys
      BY <2>2, <3>1 DEF Serve, TypeOK
    <3> QED
      BY <3>3, <3>4
  <2> QED
    BY <2>1, <2>2
<1>4. TypeOK'
  <2>1. call' \in [Threads -> Calls]
    BY <1>1, CallFacts DEF TypeOK, Calls
  <2> QED
    BY <1>1, <1>3, <2>1 DEF TypeOK, Calls
<1>5. PublishedInv'
  <2>1. ASSUME NEW u \in Threads
        PROVE  /\ call'[u].with <= handler
               /\ pc'[u] \in {"submit", "await", "ok"} => call'[u].with <= snapshot
    <3>1. \/ call'[u] = call[u] /\ (pc'[u] = pc[u] \/ pc[u] = "await")
          \/ call'[u] = NoCall
      BY <1>1, <1>2 DEF TypeOK
    <3>2. snapshot \in Nat /\ handler \in Nat
      BY DEF TypeOK
    <3> QED
      BY <3>1, <3>2, CallFacts DEF PublishedInv
  <2> QED
    BY <1>1, <1>3, <2>1 DEF PublishedInv
<1>6. RequestInv'
  BY <1>1, <1>2 DEF RequestInv, TypeOK
<1>7. ListenerInv' /\ DepthInv' /\ MessagesAccounted'
  BY <1>1 DEF ListenerInv, DepthInv, MessagesAccounted
<1>8. MetricsInv' /\ DropsReported'
  BY <1>1, <1>2 DEF MetricsInv, DropsReported, TypeOK
<1> QED
  BY <1>4, <1>5, <1>6, <1>7, <1>8

\* A text is counted when the listener gets it.
LEMMA DeliverKeeps ==
  ASSUME IInv, NEW x \in Keys, NEW text \in BOOLEAN, Deliver(x, text)
  PROVE  IInv'
<1> USE DEF IInv
<1>1. /\ ev.step = "idle"
      /\ ev' = [step |-> IF text THEN "push" ELSE "throw", topic |-> x, due |-> 0, fn |-> 0]
      /\ texts' = [texts EXCEPT ![x] = @ + IF text THEN 1 ELSE 0]
      /\ UNCHANGED <<most, depth, dropped, handler, snapshot, subscribed, requests, pc, call,
                     promised, served, released, floor, payload>>
  BY ListenerOrder DEF Deliver, bkvars, nodevars, thrvars, mvars
<1>2. TypeOK'
  BY <1>1 DEF TypeOK
<1>3. PublishedInv' /\ RequestInv' /\ DepthInv' /\ MetricsInv' /\ DropsReported'
  BY <1>1 DEF PublishedInv, RequestInv, DepthInv, MetricsInv, DropsReported
<1>4. ListenerInv'
  BY <1>1 DEF ListenerInv
<1>5. MessagesAccounted'
  <2> SUFFICES ASSUME NEW y \in Keys, most > 0
               PROVE  texts'[y] = depth[y] + dropped[y] + served[y] + released[y]
                                  + IF ev'.step = "push" /\ ev'.topic = y THEN 1 ELSE 0
    BY <1>1 DEF MessagesAccounted
  <2>1. /\ depth[y] \in Nat /\ dropped[y] \in Nat /\ served[y] \in Nat /\ released[y] \in Nat
        /\ texts[y] = depth[y] + dropped[y] + served[y] + released[y]
    BY <1>1 DEF TypeOK, MessagesAccounted
  <2>2. texts'[y] = texts[y] + IF text /\ x = y THEN 1 ELSE 0
    BY <1>1, <2>1 DEF TypeOK
  <2>3. ev'.step = "push" /\ ev'.topic = y <=> text /\ x = y
    BY <1>1
  <2> QED
    BY <2>1, <2>2, <2>3
<1> QED
  BY <1>2, <1>3, <1>4, <1>5

-----------------------------------------------------------------------------
(* The listener.                                                           *)

\* A text that is pushed waits or is counted as dropped.
LEMMA PushKeeps ==
  ASSUME IInv, Push
  PROVE  IInv'
<1> USE DEF IInv
<1>1. /\ ev.step = "push" /\ ev' = [ev EXCEPT !.step = "read"]
      /\ UNCHANGED <<most, handler, snapshot, subscribed, requests, pc, call, promised, texts,
                     served, released, floor, payload>>
      /\ \/ most = 0 /\ UNCHANGED <<depth, dropped>>
         \/ /\ depth[ev.topic] < most /\ depth' = [depth EXCEPT ![ev.topic] = @ + 1]
            /\ UNCHANGED dropped
         \/ dropped' = [dropped EXCEPT ![ev.topic] = @ + 1] /\ UNCHANGED depth
  BY ListenerOrder DEF Push, Queue, Drop, bkvars, nodevars, thrvars, hvars, mvars
<1>2. ev.topic \in Keys /\ most \in Nat
  BY <1>1, BoundsAssumption DEF TypeOK
<1>3. TypeOK'
  <2>1. depth' \in [Keys -> Nat] /\ dropped' \in [Keys -> Nat]
    <3> depth \in [Keys -> Nat] /\ dropped \in [Keys -> Nat]
      BY DEF TypeOK
    <3>1. /\ [depth EXCEPT ![ev.topic] = @ + 1] \in [Keys -> Nat]
          /\ [dropped EXCEPT ![ev.topic] = @ + 1] \in [Keys -> Nat]
      BY <1>2
    <3> QED
      BY <1>1, <3>1
  <2>2. /\ ev' \in [step : {"idle", "throw", "push", "read", "invoke"},
                    topic : Keys \cup {"none"}, due : Nat, fn : Nat]
        /\ ev'.topic = ev.topic /\ ev'.step = "read"
    BY <1>1 DEF TypeOK
  <2> QED
    BY <1>1, <1>2, <2>1, <2>2 DEF TypeOK
<1>4. PublishedInv' /\ RequestInv' /\ ListenerInv'
  BY <1>1 DEF PublishedInv, RequestInv, ListenerInv, TypeOK
<1>5. DepthInv'
  BY <1>1, <1>2 DEF DepthInv, TypeOK
<1>6. \A x \in Keys : dropped'[x] >= dropped[x]
  BY <1>1, <1>2 DEF TypeOK
<1>7. MetricsInv' /\ DropsReported'
  BY <1>1, <1>3, <1>6 DEF MetricsInv, DropsReported, TypeOK
<1>8. MessagesAccounted'
  <2> SUFFICES ASSUME NEW y \in Keys, most > 0
               PROVE  texts[y] = depth'[y] + dropped'[y] + served[y] + released[y]
    BY <1>1 DEF MessagesAccounted, TypeOK
  <2>1. /\ depth[y] \in Nat /\ dropped[y] \in Nat /\ served[y] \in Nat /\ released[y] \in Nat
        /\ depth'[y] \in Nat /\ dropped'[y] \in Nat
        /\ texts[y] = depth[y] + dropped[y] + served[y] + released[y]
                      + IF ev.topic = y THEN 1 ELSE 0
    BY <1>1, <1>3 DEF TypeOK, MessagesAccounted
  <2>2. depth'[y] + dropped'[y] = depth[y] + dropped[y] + IF ev.topic = y THEN 1 ELSE 0
    BY <1>1, <1>2, <2>1 DEF TypeOK
  <2> QED
    BY <2>1, <2>2
<1> QED
  BY <1>3, <1>4, <1>5, <1>7, <1>8

\* What the listener reads for its event is no older than the promise of the moment.
LEMMA ListenerKeeps ==
  ASSUME IInv, Throw \/ ReadSnapshot \/ Invoke
  PROVE  IInv'
<1> USE DEF IInv
<1>1. /\ UNCHANGED <<most, depth, dropped, handler, snapshot, subscribed, requests, pc, call,
                     promised, texts, served, released, floor, payload>>
      /\ ev.step \in {"throw", "read", "invoke"}
      /\ \/ ev' = Quiet
         \/ /\ ev.step = "read"
            /\ ev' = [[ev EXCEPT !.step = "invoke"] EXCEPT !.fn = snapshot,
                                                           !.due = promised[ev.topic]]
  BY ListenerOrder DEF Throw, ReadSnapshot, Invoke, bkvars, nodevars, thrvars, hvars, mvars
<1>2. ev.step = "read" => ev.topic \in Keys
  BY DEF TypeOK
<1>3. /\ ev'.step \in {"idle", "invoke"} /\ (ev'.step = "invoke" => ev'.topic \in Keys)
      /\ ev' \in [step : {"idle", "throw", "push", "read", "invoke"},
                  topic : Keys \cup {"none"}, due : Nat, fn : Nat]
      /\ ev'.step = "invoke" => ev'.due <= ev'.fn
  <2>1. CASE ev' = Quiet
    BY <2>1 DEF Quiet
  <2>2. ASSUME ev.step = "read",
               ev' = [[ev EXCEPT !.step = "invoke"] EXCEPT !.fn = snapshot,
                                                           !.due = promised[ev.topic]]
        PROVE  /\ ev'.step = "invoke" /\ ev'.topic = ev.topic /\ ev'.fn = snapshot
               /\ ev'.due = promised[ev.topic]
               /\ ev' = [step |-> "invoke", topic |-> ev.topic, due |-> promised[ev.topic],
                         fn |-> snapshot]
    BY <2>2 DEF TypeOK
  <2>3. ev.step = "read" => /\ ev.topic \in Keys /\ promised[ev.topic] \in Nat
                            /\ snapshot \in Nat /\ promised[ev.topic] <= snapshot
    BY <1>2 DEF TypeOK, PublishedInv
  <2> QED
    BY <1>1, <2>1, <2>2, <2>3
<1>4. TypeOK'
  BY <1>1, <1>3 DEF TypeOK
<1>5. ListenerInv'
  BY <1>3 DEF ListenerInv
<1>6. PublishedInv' /\ RequestInv' /\ DepthInv' /\ MetricsInv' /\ DropsReported'
  BY <1>1 DEF PublishedInv, RequestInv, DepthInv, MetricsInv, DropsReported
<1>7. MessagesAccounted'
  BY <1>1, <1>3 DEF MessagesAccounted
<1> QED
  BY <1>4, <1>5, <1>6, <1>7

-----------------------------------------------------------------------------
(* collectMetrics.                                                         *)

\* A collection begins with the drops there are.
LEMMA CallMetricsKeeps ==
  ASSUME IInv, NEW t \in Threads, CallMetrics(t)
  PROVE  IInv'
<1> USE DEF IInv, CallMetrics, bkvars, nodevars, hvars
<1>1. TypeOK'
  BY DEF TypeOK
<1>2. PublishedInv' /\ RequestInv'
  BY DEF PublishedInv, RequestInv, TypeOK
<1>3. ListenerInv' /\ DepthInv' /\ MessagesAccounted'
  BY DEF ListenerInv, DepthInv, MessagesAccounted
<1>4. MetricsInv' /\ DropsReported'
  <2>1. \A u \in Threads : pc'[u] \in {"registry", "returned"} => u = t
    BY DEF TypeOK
  <2>2. pc'[t] = "registry"
    BY DEF TypeOK
  <2> QED
    BY <2>1, <2>2 DEF MetricsInv, DropsReported, TypeOK
<1> QED
  BY <1>1, <1>2, <1>3, <1>4

\* What the queues hold at the sample is what the payload says.
LEMMA SampleQueuesKeeps ==
  ASSUME IInv, NEW t \in Threads, SampleQueues(t)
  PROVE  IInv'
<1> USE DEF IInv
<1>1. /\ pc[t] = "registry" /\ pc' = [pc EXCEPT ![t] = "returned"]
      /\ payload' = [x \in Keys |-> [depth |-> depth[x], dropped |-> dropped[x]]]
      /\ UNCHANGED <<most, depth, dropped, handler, snapshot, subscribed, requests, call, ev,
                     promised, texts, served, released, floor>>
  BY DEF SampleQueues, Sampled, bkvars, nodevars, hvars
<1>2. TypeOK'
  BY <1>1 DEF TypeOK
<1>3. PublishedInv' /\ RequestInv'
  BY <1>1 DEF PublishedInv, RequestInv, TypeOK
<1>4. ListenerInv' /\ DepthInv' /\ MessagesAccounted'
  BY <1>1 DEF ListenerInv, DepthInv, MessagesAccounted
<1>5. MetricsInv'
  BY <1>1 DEF MetricsInv, TypeOK
<1>6. DropsReported'
  <2>1. \A x \in Keys : floor[x] <= dropped[x] /\ floor[x] \in Nat /\ dropped[x] \in Nat
    BY <1>1 DEF MetricsInv, TypeOK
  <2>2. \A x \in Keys : payload'[x].dropped = dropped[x] /\ payload'[x].depth = depth[x]
    BY <1>1
  <2> QED
    BY <1>1, <2>1, <2>2 DEF DropsReported, DepthInv
<1> QED
  BY <1>2, <1>3, <1>4, <1>5, <1>6

\* A collection ends, and nobody else is in one.
LEMMA MetricsReturnKeeps ==
  ASSUME IInv, NEW t \in Threads, MetricsReturn(t)
  PROVE  IInv'
<1> USE DEF IInv
<1>1. /\ pc[t] = "returned" /\ pc' = [pc EXCEPT ![t] = "idle"]
      /\ call' = [call EXCEPT ![t] = NoCall] /\ floor' = Zero /\ payload' = NoSeries
      /\ UNCHANGED <<most, depth, dropped, handler, snapshot, subscribed, requests, ev,
                     promised, texts, served, released>>
  BY DEF MetricsReturn, Leave, bkvars, nodevars, hvars
<1>2. TypeOK'
  BY <1>1, CallFacts DEF TypeOK
<1>3. PublishedInv' /\ RequestInv'
  BY <1>1, CallFacts DEF PublishedInv, RequestInv, TypeOK
<1>4. ListenerInv' /\ DepthInv' /\ MessagesAccounted'
  BY <1>1 DEF ListenerInv, DepthInv, MessagesAccounted
<1>5. MetricsInv' /\ DropsReported'
  <2>1. \A u \in Threads : pc'[u] \notin {"registry", "returned"}
    BY <1>1 DEF MetricsInv, TypeOK
  <2> QED
    BY <2>1 DEF MetricsInv, DropsReported
<1> QED
  BY <1>2, <1>3, <1>4, <1>5

-----------------------------------------------------------------------------
(* The theorems.                                                           *)

\* The invariant holds at first.
LEMMA InitHolds == PInit => IInv
<1> SUFFICES ASSUME PInit PROVE IInv
  OBVIOUS
<1> USE DEF PInit, Init
<1>1. TypeOK
  BY CallFacts, BoundsAssumption DEF TypeOK, Quiet
<1>2. PublishedInv /\ RequestInv
  BY CallFacts DEF PublishedInv, RequestInv, Zero
<1>3. ListenerInv /\ MetricsInv /\ DropsReported
  BY DEF ListenerInv, MetricsInv, DropsReported, Quiet
<1>4. DepthInv /\ MessagesAccounted
  BY BoundsAssumption DEF DepthInv, MessagesAccounted, Quiet, Zero
<1> QED
  BY <1>1, <1>2, <1>3, <1>4 DEF IInv

\* Every step keeps the invariant.
LEMMA StepKeeps == IInv /\ [PNext]_vars => IInv'
<1> SUFFICES ASSUME IInv, [PNext]_vars PROVE IInv'
  OBVIOUS
<1>1. CASE UNCHANGED vars
  BY <1>1 DEF vars, nodevars, thrvars, hvars, mvars, IInv, TypeOK, PublishedInv, RequestInv,
              ListenerInv, DepthInv, MetricsInv, MessagesAccounted, DropsReported
<1>2. CASE SetHandler
  BY <1>2, SetHandlerKeeps
<1>3. ASSUME NEW t \in Threads,
             Call(t) \/ Publish(t) \/ Submit(t) \/ Timeout(t) \/ Return(t)
               \/ CallMetrics(t) \/ SampleQueues(t) \/ MetricsReturn(t)
      PROVE  IInv'
  BY <1>3, BeginKeeps, PublishKeeps, SubmitKeeps, TimeoutKeeps, ReturnKeeps,
     CallMetricsKeeps, SampleQueuesKeeps, MetricsReturnKeeps
<1>4. ASSUME NEW r \in requests, Serve(r) \/ Deny(r) PROVE IInv'
  BY <1>4, AnswerKeeps
<1>5. ASSUME NEW x \in Keys, NextMessage(x) \/ \E text \in BOOLEAN : Deliver(x, text)
      PROVE  IInv'
  BY <1>5, NextMessageKeeps, DeliverKeeps
<1>6. CASE Throw \/ Push \/ ReadSnapshot \/ Invoke
  BY <1>6, PushKeeps, ListenerKeeps
<1> QED
  BY <1>1, <1>2, <1>3, <1>4, <1>5, <1>6 DEF PNext

\* The inductive invariant holds in every state.
THEOREM IInvInvariant == PSpec => []IInv
  BY InitHolds, StepKeeps, PTL DEF PSpec

\* Every variable keeps its type (gossipsub.cpp, callbacks.cpp, metrics.cpp).
THEOREM TypeCorrect == PSpec => []TypeOK
<1>1. IInv => TypeOK
  BY DEF IInv
<1> QED
  BY <1>1, IInvInvariant, PTL

\* No text is lost without a count, whatever happens to its event (callbacks.cpp:192-199).
THEOREM TextsKept == PSpec => []MessagesAccounted
<1>1. IInv => MessagesAccounted
  BY DEF IInv
<1> QED
  BY <1>1, IInvInvariant, PTL

\* An event finds the handler its subscription was made with, or a later one
\* (gossipsub.cpp:16-18, plugin.cpp:62-77).
THEOREM HandlerSafety == PSpec => []EventReachesHandler
<1>1. IInv => EventReachesHandler
  <2> SUFFICES ASSUME IInv, ev.step = "invoke" PROVE ev.fn >= ev.due
    BY DEF EventReachesHandler
  <2>1. ev.fn \in Nat /\ ev.due \in Nat /\ ev.due <= ev.fn
    BY DEF IInv, TypeOK, ListenerInv
  <2> QED
    BY <2>1
<1> QED
  BY <1>1, IInvInvariant, PTL

\* The metrics show the drops of the queues, whatever the registry answers
\* (metrics.cpp, topic_queues.h:27).
THEOREM MetricsSafety == PSpec => []DropsReported
<1>1. IInv => DropsReported
  BY DEF IInv
<1> QED
  BY <1>1, IInvInvariant, PTL

-----------------------------------------------------------------------------
(* The path of a message uses the backlog as the backlog may be used.      *)

\* Every step of the path is a step of the backlog, or leaves it alone.
LEMMA StepUsesBacklog == TypeOK /\ [PNext]_vars => [Next]_bkvars
<1> SUFFICES ASSUME TypeOK, [PNext]_vars PROVE [Next]_bkvars
  OBVIOUS
<1> USE DEF bkvars
<1>1. CASE UNCHANGED vars
  BY <1>1 DEF vars
<1>2. CASE SetHandler \/ Throw \/ ReadSnapshot \/ Invoke
  BY <1>2 DEF SetHandler, Throw, ReadSnapshot, Invoke
<1>3. ASSUME NEW t \in Threads,
             Call(t) \/ Publish(t) \/ Submit(t) \/ Timeout(t)
               \/ CallMetrics(t) \/ SampleQueues(t) \/ MetricsReturn(t)
      PROVE  UNCHANGED bkvars
  BY <1>3 DEF Call, Begin, Publish, Submit, Timeout, CallMetrics, SampleQueues, MetricsReturn
<1>4. ASSUME NEW t \in Threads, Return(t)
      PROVE  Next
  <2>1. \E S \in SUBSET Keys : Release(S)
    <3> DEFINE waits == IF call[t].op = "stop" THEN Keys
                        ELSE IF call[t].op = "unsubscribe" THEN {call[t].topic} ELSE {}
    <3>1. Release(waits)
      BY <1>4 DEF Return
    <3> HIDE DEF waits
    <3>2. Release(waits \cap Keys)
      BY <3>1 DEF Release
    <3> QED
      BY <3>2
  <2> QED
    BY <2>1 DEF Next
<1>5. ASSUME NEW r \in requests, Serve(r) \/ Deny(r)
      PROVE  UNCHANGED bkvars
  BY <1>5 DEF Serve, Deny, Answered
<1>6. ASSUME NEW x \in Keys, NextMessage(x)
      PROVE  Next
  BY <1>6 DEF NextMessage, Next
<1>7. ASSUME NEW x \in Keys, NEW text \in BOOLEAN, Deliver(x, text)
      PROVE  UNCHANGED bkvars
  BY <1>7 DEF Deliver
<1>8. CASE Push
  <2>1. ev.topic \in Keys
    BY <1>8 DEF Push, TypeOK
  <2> QED
    BY <1>8, <2>1 DEF Push, Next
<1> QED
  BY <1>1, <1>2, <1>3, <1>4, <1>5, <1>6, <1>7, <1>8 DEF PNext

\* What the subscription, the listener, the polls and the requests do to the queues is
\* no more than Backlog allows, which TopicQueues implements: nothing past the bound, a
\* drop counter that only grows, and a release that takes the counter of no topic
\* (callbacks.cpp:185-199, gossipsub.cpp:26-36).
THEOREM UsesBacklog == PSpec => Spec
<1>1. PInit => Init
  BY DEF PInit
<1> QED
  BY <1>1, TypeCorrect, StepUsesBacklog, PTL DEF PSpec, Spec
=============================================================================
