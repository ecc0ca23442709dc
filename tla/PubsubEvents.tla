----------------------------- MODULE PubsubEvents -----------------------------
(***************************************************************************)
(* A message on its way from the node to the host: the subscription, the   *)
(* listener (onPubsubMessage), the backlog it pushes to, the event it      *)
(* emits, and the metrics that tell what was lost (gossipsub.cpp,          *)
(* custom_handlers.cpp, callbacks.cpp, metrics.cpp).                       *)
(*                                                                         *)
(* The backlog is Backlog's.  A handler of events is known by its number:  *)
(* the host sets a new one now and then, and 0 is none.  The node serves   *)
(* the requests it has in any order, also those whose caller has left, and *)
(* delivers what it is subscribed to, started or not.                      *)
(***************************************************************************)
EXTENDS Backlog, FiniteSets, Functions

CONSTANTS Threads,
          MaxHandlers, \* handlers the host sets (bounds the behaviours)
          MaxArrivals  \* messages the node delivers (bounds the behaviours)

ASSUME BoundsAssumption == Bounds \subseteq Nat /\ MaxHandlers \in Nat
ASSUME NobodyAssumption == "nobody" \notin Threads

VARIABLES
    handler,    \* emitEvent
    snapshot,   \* m_emitEventSnapshot
    subscribed, requests, \* the node: its topics, and what it is to do
    pc,         \* per thread: "idle" | "publish" | "submit" | "await" | "ok"
                \* | "registry" | "returned"
    call,       \* per thread: [op, topic, with], a subscribe with the handler at its begin
    ev,         \* the event thread: [step, topic, due, fn]
    promised,   \* history: per topic, the handler its subscribers may count on
    texts, served, released, \* history: per topic, texts that came, left and were let go
    floor, payload \* collectMetrics: the drops when it began, the series it gathered

nodevars == <<subscribed, requests>>
thrvars == <<pc, call>>
hvars == <<promised, texts, served, released>>
mvars == <<floor, payload>>
vars == <<most, depth, dropped, handler, snapshot, nodevars, thrvars, ev, hvars, mvars>>

Zero == [x \in Keys |-> 0]
NoCall == [op |-> "none", topic |-> "none", with |-> 0]
Quiet == [step |-> "idle", topic |-> "none", due |-> 0, fn |-> 0]
NoSeries == [x \in Keys |-> [depth |-> 0, dropped |-> 0]]

PInit ==
    /\ Init
    /\ handler = 0 /\ snapshot = 0
    /\ subscribed = {} /\ requests = {}
    /\ pc = [t \in Threads |-> "idle"] /\ call = [t \in Threads |-> NoCall]
    /\ ev = Quiet /\ promised = Zero
    /\ texts = Zero /\ served = Zero /\ released = Zero
    /\ floor = Zero /\ payload = NoSeries

-----------------------------------------------------------------------------
(* The host's threads.                                                     *)

\* The host sets emitEvent between its calls: publishEmitEvent copies the member
\* with no lock that the host could hold.
SetHandler ==
    /\ handler < MaxHandlers /\ \A t \in Threads : pc[t] # "publish"
    /\ handler' = handler + 1
    /\ UNCHANGED <<bkvars, snapshot, nodevars, thrvars, ev, hvars, mvars>>

Begin(t, op, x, at) ==
    /\ pc[t] = "idle"
    /\ pc' = [pc EXCEPT ![t] = at]
    /\ call' = [call EXCEPT ![t] = [op |-> op, topic |-> x,
                                   with |-> IF op = "subscribe" THEN handler ELSE 0]]
    /\ UNCHANGED <<bkvars, handler, snapshot, nodevars, ev, hvars, mvars>>

\* Mutant: the request goes out before the handler is published.
FirstStepSubmits(op) == "submit"

\* The calls that make events come publish the handler first; "start" is mountProtocol
\* too, which is the same to a backlog.
FirstStep(op) == IF op \in {"start", "subscribe"} THEN "publish" ELSE "submit"

Call(t) ==
    \/ \E op \in {"start", "stop"} : Begin(t, op, "none", FirstStep(op))
    \/ \E op \in {"subscribe", "unsubscribe"}, x \in Keys : Begin(t, op, x, FirstStep(op))

Publish(t) ==
    /\ pc[t] = "publish" /\ pc' = [pc EXCEPT ![t] = "submit"]
    /\ snapshot' = handler
    /\ UNCHANGED <<bkvars, handler, nodevars, call, ev, hvars, mvars>>

Leave(t) ==
    /\ pc' = [pc EXCEPT ![t] = "idle"]
    /\ call' = [call EXCEPT ![t] = NoCall]

\* A call whose caller left is nobody's.
Late == {r \in requests : r.by \notin Threads}

Submit(t) ==
    /\ pc[t] = "submit"
    /\ \/ /\ pc' = [pc EXCEPT ![t] = "await"]
          /\ requests' = requests \cup {[by |-> t, call |-> call[t]]}
          /\ UNCHANGED call
       \/ Leave(t) /\ UNCHANGED requests
    /\ UNCHANGED <<bkvars, handler, snapshot, subscribed, ev, hvars, mvars>>

\* One call at a time has a caller that left (bounds the behaviours).
Timeout(t) ==
    /\ pc[t] = "await" /\ Late = {}
    /\ requests' = {IF r.by = t THEN [r EXCEPT !.by = "nobody"] ELSE r : r \in requests}
    /\ Leave(t)
    /\ UNCHANGED <<bkvars, handler, snapshot, subscribed, ev, hvars, mvars>>

\* A stop or an unsubscribe that succeeded lets go of what waits.
Return(t) ==
    /\ pc[t] = "ok" /\ Leave(t)
    /\ LET gone == CASE call[t].op = "unsubscribe" -> {call[t].topic}
                     [] call[t].op = "stop" -> Keys
                     [] OTHER -> {}
       IN /\ Release(gone)
          /\ released' = [x \in Keys |-> released[x] + IF x \in gone THEN depth[x] ELSE 0]
    /\ UNCHANGED <<handler, snapshot, nodevars, ev, promised, texts, served, mvars>>

\* gossipsubNextMessage on a topic that has a message.
NextMessage(x) ==
    /\ Take(x)
    /\ served' = [served EXCEPT ![x] = @ + 1]
    /\ UNCHANGED <<handler, snapshot, nodevars, thrvars, ev, promised, texts, released, mvars>>

-----------------------------------------------------------------------------
(* The node.                                                               *)

Answered(r, outcome) ==
    /\ requests' = requests \ {r}
    /\ IF r.by \in Threads
       THEN IF outcome = "ok"
            THEN pc' = [pc EXCEPT ![r.by] = "ok"] /\ UNCHANGED call
            ELSE Leave(r.by)
       ELSE UNCHANGED thrvars
    /\ UNCHANGED <<bkvars, handler, snapshot, ev, texts, served, released, mvars>>

Serve(r) ==
    /\ Answered(r, "ok")
    /\ subscribed' = CASE r.call.op = "subscribe" -> subscribed \cup {r.call.topic}
                       [] r.call.op = "unsubscribe" -> subscribed \ {r.call.topic}
                       [] OTHER -> subscribed
    /\ promised' = IF r.call.op = "subscribe" /\ r.call.with > promised[r.call.topic]
                   THEN [promised EXCEPT ![r.call.topic] = r.call.with] ELSE promised

Deny(r) == Answered(r, "failed") /\ UNCHANGED <<subscribed, promised>>

\* Mutant: the event goes out before the message is queued.
EmitsFirst == <<"read", "invoke", "push">>

\* The message is queued, then the snapshot is read, then what it holds is called.
Steps == <<"push", "read", "invoke">>

Proceed == IF ev.step = Steps[3] THEN Quiet
           ELSE [ev EXCEPT !.step = Steps[1 + CHOOSE i \in 1..2 : Steps[i] = ev.step]]

\* A message of a topic reaches the listener, as text or as other bytes.
Deliver(x, text) ==
    /\ x \in subscribed /\ ev.step = "idle"
    /\ FoldFunction(+, 0, texts) < MaxArrivals
    /\ ev' = [step |-> IF text THEN Steps[1] ELSE "throw", topic |-> x, due |-> 0, fn |-> 0]
    /\ texts' = [texts EXCEPT ![x] = @ + IF text THEN 1 ELSE 0]
    /\ UNCHANGED <<bkvars, handler, snapshot, nodevars, thrvars, promised, served,
                   released, mvars>>

-----------------------------------------------------------------------------
(* The listener.                                                           *)

\* The serialization of bytes that are no text throws, before the push; the listener
\* swallows it.
Throw ==
    /\ ev.step = "throw" /\ ev' = Quiet
    /\ UNCHANGED <<bkvars, handler, snapshot, nodevars, thrvars, hvars, mvars>>

Push ==
    /\ ev.step = "push"
    /\ IF most = 0 THEN UNCHANGED bkvars ELSE Queue(ev.topic) \/ Drop(ev.topic)
    /\ ev' = Proceed
    /\ UNCHANGED <<handler, snapshot, nodevars, thrvars, hvars, mvars>>

\* emitEventSafe reads the snapshot under its lock ...
ReadSnapshot ==
    /\ ev.step = "read"
    /\ ev' = [Proceed EXCEPT !.fn = snapshot, !.due = promised[ev.topic]]
    /\ UNCHANGED <<bkvars, handler, snapshot, nodevars, thrvars, hvars, mvars>>

\* ... and calls it without; the handler returns, or throws into the listener.
Invoke ==
    /\ ev.step = "invoke"
    /\ ev' \in {Proceed, Quiet}
    /\ UNCHANGED <<bkvars, handler, snapshot, nodevars, thrvars, hvars, mvars>>

-----------------------------------------------------------------------------
(* collectMetrics.                                                         *)

\* One call of it at a time (bounds the behaviours).
CallMetrics(t) ==
    /\ pc[t] = "idle" /\ \A u \in Threads : pc[u] \notin {"registry", "returned"}
    /\ pc' = [pc EXCEPT ![t] = "registry"] /\ floor' = dropped
    /\ UNCHANGED <<bkvars, handler, snapshot, nodevars, call, ev, hvars, payload>>

\* Mutant: a registry that cannot be read leaves no series at all.
SampledWithRegistry(x, registry) ==
    IF registry = "series" THEN [depth |-> depth[x], dropped |-> dropped[x]]
    ELSE [depth |-> 0, dropped |-> 0]

\* A queue's two series, whatever the registry said.
Sampled(x, registry) == [depth |-> depth[x], dropped |-> dropped[x]]

\* The registry answers with series, with what is none, or not at all; then the queues
\* are sampled, all keys under one lock.
SampleQueues(t) ==
    /\ pc[t] = "registry" /\ pc' = [pc EXCEPT ![t] = "returned"]
    /\ \E registry \in {"series", "malformed", "failed"} :
           payload' = [x \in Keys |-> Sampled(x, registry)]
    /\ UNCHANGED <<bkvars, handler, snapshot, nodevars, call, ev, hvars, floor>>

MetricsReturn(t) ==
    /\ pc[t] = "returned" /\ Leave(t) /\ floor' = Zero /\ payload' = NoSeries
    /\ UNCHANGED <<bkvars, handler, snapshot, nodevars, ev, hvars>>

PNext ==
    \/ SetHandler
    \/ \E t \in Threads : Call(t) \/ Publish(t) \/ Submit(t) \/ Timeout(t) \/ Return(t)
                          \/ CallMetrics(t) \/ SampleQueues(t) \/ MetricsReturn(t)
    \/ \E r \in requests : Serve(r) \/ Deny(r)
    \/ \E x \in Keys : NextMessage(x) \/ \E text \in BOOLEAN : Deliver(x, text)
    \/ Throw \/ Push \/ ReadSnapshot \/ Invoke

PSpec == PInit /\ [][PNext]_vars

-----------------------------------------------------------------------------
(* Properties.                                                             *)

\* What a call may be.
Calls == [op : {"none", "start", "stop"}, topic : {"none"}, with : {0}]
           \cup [op : {"subscribe", "unsubscribe"}, topic : Keys, with : Nat]

\* Every variable stays in its type.
TypeOK ==
    LET counts == [Keys -> Nat]
    IN /\ most \in Bounds /\ depth \in counts /\ dropped \in counts
       /\ handler \in Nat /\ snapshot \in Nat /\ subscribed \subseteq Keys
       /\ requests \subseteq [by : Threads \cup {"nobody"}, call : Calls]
       /\ pc \in [Threads -> {"idle", "publish", "submit", "await", "ok",
                              "registry", "returned"}]
       /\ call \in [Threads -> Calls]
       /\ ev.step \in {"idle", "throw"} \/ ev.topic \in Keys
       /\ ev \in [step : {"idle", "throw", "push", "read", "invoke"},
                  topic : Keys \cup {"none"}, due : Nat, fn : Nat]
       /\ promised \in counts /\ texts \in counts /\ served \in counts
       /\ released \in counts /\ floor \in counts
       /\ payload \in [Keys -> [depth : Nat, dropped : Nat]]

\* Every text the node delivered waits in the backlog, was handed out, was let go with
\* its topic, was counted as dropped, or is about to be one of these, whatever the
\* host's handler does with the event (callbacks.cpp:192-199).
MessagesAccounted ==
    \A x \in Keys :
        most > 0 => texts[x] = depth[x] + dropped[x] + served[x] + released[x]
                               + IF ev.step = "push" /\ ev.topic = x THEN 1 ELSE 0

\* A message finds the handler that was set when a subscription of its topic was made,
\* or a later one: no subscription is served before its caller's handler is
\* published (gossipsub.cpp:16-18).  One published after the listener read its snapshot
\* (plugin.cpp:71) may still be passed over for that message; nothing promises otherwise.
EventReachesHandler == ev.step = "invoke" => ev.fn >= ev.due

\* Whatever the registry answers, the metrics show every drop from before the call and
\* none that did not happen, and no more waiting than the bound; so a drop counter never
\* goes back from one payload to the next (topic_queues.h:27, README.md:63-65).
DropsReported ==
    (\E t \in Threads : pc[t] = "returned") =>
        \A x \in Keys : /\ payload[x].dropped \in floor[x] .. dropped[x]
                        /\ payload[x].depth <= most
===============================================================================
