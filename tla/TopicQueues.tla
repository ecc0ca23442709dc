----------------------------- MODULE TopicQueues -----------------------------
(***************************************************************************)
(* The per-topic backlog between the pubsub listener, which pushes, and    *)
(* the host threads in gossipsubNextMessage, which pop with a timeout      *)
(* (topic_queues.h, topic_queues.cpp).  An unsubscribe that succeeds       *)
(* releases one topic, a stop that succeeds releases all of them.          *)
(*                                                                         *)
(* Every method holds m_mutex from its first line to its last, so each is  *)
(* one step, except pop: a consumer that finds nothing gives the mutex up  *)
(* in wait_for, and takes it again when it was notified or when its        *)
(* deadline has passed.                                                    *)
(***************************************************************************)
EXTENDS Integers, Sequences, SequencesExt

CONSTANTS Topics, Consumers,
          MessageBounds, ByteBounds, \* what the options can set the bounds to
          Sizes,       \* payload sizes, in bytes
          Word,        \* size_t holds 0 .. Word - 1
          MaxArrivals  \* messages a topic receives (bounds the behaviours)

ASSUME BoundsAssumption ==
    /\ MessageBounds \subseteq Nat /\ ByteBounds \subseteq Nat
    /\ Sizes \subseteq Nat
ASSUME WordAssumption ==
    Word \in Nat /\ \A n \in ByteBounds \cup Sizes : n < Word

VARIABLES
    maxMessages, maxBytes, \* m_maxMessages, m_maxBytes
    entries,   \* the topics m_topics has an entry for
    messages,  \* per topic, its payloads, oldest first
    bytes,     \* per topic, Topic::bytes
    dropped,   \* per topic, Topic::dropped, 0 without an entry
    listening, \* a context is adopted: messages may come, options may not
    pc,        \* per consumer: "idle" | "waiting" | "woken"
    topic,     \* per consumer, the topic it pops from
    expired,   \* per consumer, its deadline has passed
    \* History, per topic: messages offered, messages that left the queue, the
    \* last one handed out, the bytes ever queued.
    arrived, taken, lastOut, poured

qvars == <<entries, messages, bytes, dropped>>
bvars == <<maxMessages, maxBytes, listening>>
cvars == <<pc, topic, expired>>
hvars == <<arrived, taken, lastOut, poured>>
vars == <<maxMessages, maxBytes, entries, messages, bytes, dropped, listening,
          pc, topic, expired, arrived, taken, lastOut, poured>>

\* A payload: its place in the stream, its size, the bytes queued up to its end.
Message == [seq : Nat, size : Sizes, end : Nat]

Init ==
    /\ maxMessages \in MessageBounds /\ maxBytes \in ByteBounds
    /\ entries = {} /\ listening = FALSE
    /\ messages = [x \in Topics |-> <<>>]
    /\ bytes = [x \in Topics |-> 0]
    /\ dropped = [x \in Topics |-> 0]
    /\ pc = [c \in Consumers |-> "idle"]
    /\ \E x \in Topics : topic = [c \in Consumers |-> x]
    /\ expired = [c \in Consumers |-> FALSE]
    /\ arrived = [x \in Topics |-> 0]
    /\ taken = [x \in Topics |-> 0]
    /\ lastOut = [x \in Topics |-> 0]
    /\ poured = [x \in Topics |-> 0]

-----------------------------------------------------------------------------
\* setBounds, from applyOptions: only while the module has no context, and so
\* no listener (ContextLifecycle!LockInv).
SetBounds ==
    /\ ~listening
    /\ maxMessages' \in MessageBounds /\ maxBytes' \in ByteBounds
    /\ UNCHANGED <<listening, qvars, cvars, hvars>>

Listen ==
    /\ ~listening
    /\ listening' = TRUE
    /\ UNCHANGED <<maxMessages, maxBytes, qvars, cvars, hvars>>

\* Mutant: the sum is formed first, and wraps.
ExceedsByteBoundWrapped(x, size) == (bytes[x] + size) % Word > maxBytes

\* The payload, or the payload with what is queued, is over the byte bound.
ExceedsByteBound(x, size) ==
    size > maxBytes \/ bytes[x] > maxBytes - size

Disabled == maxMessages = 0 \/ maxBytes = 0

\* Mutant: one waiter is notified, whatever it waits for.
NotifyOne ==
    IF \E c \in Consumers : pc[c] = "waiting"
    THEN \E c \in Consumers : pc[c] = "waiting" /\ pc' = [pc EXCEPT ![c] = "woken"]
    ELSE UNCHANGED pc

\* notify_all: every waiter will take the mutex and look again.
NotifyAll ==
    pc' = [c \in Consumers |-> IF pc[c] = "waiting" THEN "woken" ELSE pc[c]]

Arrive(x) ==
    /\ listening /\ arrived[x] < MaxArrivals
    /\ arrived' = [arrived EXCEPT ![x] = @ + 1]

\* The payload goes to the back.
Queue(x, size) ==
    /\ poured' = [poured EXCEPT ![x] = @ + size]
    /\ messages' = [messages EXCEPT ![x] =
         Append(@, [seq |-> arrived'[x], size |-> size, end |-> poured'[x]])]
    /\ bytes' = [bytes EXCEPT ![x] = @ + size]

\* push: disabled, over a bound, or queued.
PushDisabled(x) ==
    /\ Arrive(x) /\ Disabled
    /\ UNCHANGED <<bvars, qvars, cvars, taken, lastOut, poured>>

PushDropped(x, size) ==
    /\ Arrive(x) /\ ~Disabled
    /\ Len(messages[x]) >= maxMessages \/ ExceedsByteBound(x, size)
    /\ entries' = entries \cup {x}
    /\ dropped' = [dropped EXCEPT ![x] = @ + 1]
    /\ UNCHANGED <<bvars, messages, bytes, cvars, taken, lastOut, poured>>

PushAccepted(x, size) ==
    /\ Arrive(x) /\ ~Disabled
    /\ Len(messages[x]) < maxMessages /\ ~ExceedsByteBound(x, size)
    /\ entries' = entries \cup {x}
    /\ Queue(x, size)
    /\ NotifyAll
    /\ UNCHANGED <<bvars, dropped, topic, expired, taken, lastOut>>

-----------------------------------------------------------------------------
Ready(x) == x \in entries /\ messages[x] # <<>>

\* Mutant: the newest payload is handed out.
TakeNewest(x) ==
    /\ messages' = [messages EXCEPT ![x] = Front(@)]
    /\ bytes' = [bytes EXCEPT ![x] = @ - Last(messages[x]).size]
    /\ taken' = [taken EXCEPT ![x] = @ + 1]
    /\ lastOut' = [lastOut EXCEPT ![x] = Last(messages[x]).seq]
    /\ UNCHANGED <<entries, dropped, arrived, poured>>

\* Mutant: the bytes of the payload are not given back.
TakeKeepsBytes(x) ==
    /\ messages' = [messages EXCEPT ![x] = Tail(@)]
    /\ taken' = [taken EXCEPT ![x] = @ + 1]
    /\ lastOut' = [lastOut EXCEPT ![x] = Head(messages[x]).seq]
    /\ UNCHANGED <<entries, bytes, dropped, arrived, poured>>

\* The front of the queue goes to the consumer.
Take(x) ==
    /\ messages' = [messages EXCEPT ![x] = Tail(@)]
    /\ bytes' = [bytes EXCEPT ![x] = @ - Head(messages[x]).size]
    /\ taken' = [taken EXCEPT ![x] = @ + 1]
    /\ lastOut' = [lastOut EXCEPT ![x] = Head(messages[x]).seq]
    /\ UNCHANGED <<entries, dropped, arrived, poured>>

\* gossipsubNextMessage calls pop, with any timeout.
Pop(c, x) ==
    /\ pc[c] = "idle"
    /\ topic' = [topic EXCEPT ![c] = x]
    /\ IF Ready(x)
       THEN Take(x) /\ UNCHANGED pc
       ELSE pc' = [pc EXCEPT ![c] = "waiting"] /\ UNCHANGED <<qvars, hvars>>
    /\ UNCHANGED <<bvars, expired>>

Expire(c) ==
    /\ pc[c] # "idle" /\ ~expired[c]
    /\ expired' = [expired EXCEPT ![c] = TRUE]
    /\ UNCHANGED <<bvars, qvars, hvars, pc, topic>>

\* Mutant: at the deadline the queue is not looked at again.
ResumeDeaf(c) ==
    /\ pc[c] = "woken" \/ (pc[c] = "waiting" /\ expired[c])
    /\ IF Ready(topic[c]) /\ ~expired[c]
       THEN Take(topic[c]) /\ pc' = [pc EXCEPT ![c] = "idle"]
       ELSE /\ pc' = [pc EXCEPT ![c] = IF expired[c] THEN "idle" ELSE "waiting"]
            /\ UNCHANGED <<qvars, hvars>>
    /\ expired' = [expired EXCEPT ![c] = FALSE]
    /\ UNCHANGED <<bvars, topic>>

\* Mutant: every wake-up starts the timeout again.
ResumeForever(c) ==
    /\ pc[c] = "woken" \/ (pc[c] = "waiting" /\ expired[c])
    /\ IF Ready(topic[c])
       THEN Take(topic[c]) /\ pc' = [pc EXCEPT ![c] = "idle"]
       ELSE pc' = [pc EXCEPT ![c] = "waiting"] /\ UNCHANGED <<qvars, hvars>>
    /\ expired' = [expired EXCEPT ![c] = FALSE]
    /\ UNCHANGED <<bvars, topic>>

\* A notified consumer, or one whose deadline has passed, holds the mutex again
\* and evaluates the predicate: it takes, gives up, or goes on waiting.
Resume(c) ==
    /\ pc[c] = "woken" \/ (pc[c] = "waiting" /\ expired[c])
    /\ IF Ready(topic[c])
       THEN Take(topic[c]) /\ pc' = [pc EXCEPT ![c] = "idle"]
       ELSE /\ pc' = [pc EXCEPT ![c] = IF expired[c] THEN "idle" ELSE "waiting"]
            /\ UNCHANGED <<qvars, hvars>>
    /\ expired' = [expired EXCEPT ![c] = FALSE]
    /\ UNCHANGED <<bvars, topic>>

-----------------------------------------------------------------------------
\* Mutant: the entry goes, and its drop counter with it.
RetireForgets(S) ==
    /\ messages' = [x \in Topics |-> IF x \in S THEN <<>> ELSE messages[x]]
    /\ bytes' = [x \in Topics |-> IF x \in S THEN 0 ELSE bytes[x]]
    /\ dropped' = [x \in Topics |-> IF x \in S THEN 0 ELSE dropped[x]]
    /\ entries' = entries \ S
    /\ taken' = [x \in Topics |-> IF x \in S
                                  THEN taken[x] + Len(messages[x]) ELSE taken[x]]
    /\ UNCHANGED <<bvars, cvars, arrived, lastOut, poured>>

\* Topic::retire of the entries of S: the payloads go; an entry that dropped
\* something stays for its counter.
Retire(S) ==
    /\ messages' = [x \in Topics |-> IF x \in S THEN <<>> ELSE messages[x]]
    /\ bytes' = [x \in Topics |-> IF x \in S THEN 0 ELSE bytes[x]]
    /\ entries' = {x \in entries : x \in S => dropped[x] # 0}
    /\ taken' = [x \in Topics |-> IF x \in S
                                  THEN taken[x] + Len(messages[x]) ELSE taken[x]]
    /\ UNCHANGED <<bvars, dropped, cvars, arrived, lastOut, poured>>

Release(x) == x \in entries /\ Retire({x})
ReleaseAll == entries # {} /\ Retire(entries)

-----------------------------------------------------------------------------
Push(x) == \/ PushDisabled(x)
           \/ \E n \in Sizes : PushDropped(x, n) \/ PushAccepted(x, n)

Next ==
    \/ SetBounds \/ Listen
    \/ \E x \in Topics : Push(x) \/ Release(x)
    \/ \E c \in Consumers, x \in Topics : Pop(c, x)
    \/ \E c \in Consumers : Expire(c) \/ Resume(c)
    \/ ReleaseAll

Spec == Init /\ [][Next]_vars

\* Time passes and a consumer that can run does; nothing makes messages come.
Fairness == \A c \in Consumers : WF_vars(Expire(c)) /\ WF_vars(Resume(c))
FairSpec == Spec /\ Fairness

-----------------------------------------------------------------------------
(* Properties.                                                             *)

\* Every variable stays in its type; a byte count, a size_t, never goes below
\* zero.
TypeOK ==
    /\ maxMessages \in MessageBounds /\ maxBytes \in ByteBounds
    /\ entries \subseteq Topics /\ listening \in BOOLEAN
    /\ messages \in [Topics -> Seq(Message)]
    /\ bytes \in [Topics -> Nat]
    /\ dropped \in [Topics -> Nat]
    /\ pc \in [Consumers -> {"idle", "waiting", "woken"}]
    /\ topic \in [Consumers -> Topics] /\ expired \in [Consumers -> BOOLEAN]
    /\ arrived \in [Topics -> Nat] /\ taken \in [Topics -> Nat]
    /\ lastOut \in [Topics -> Nat] /\ poured \in [Topics -> Nat]

\* No topic holds more messages or more bytes than its bounds, and without an
\* entry a topic holds nothing and has dropped nothing: no payload, however
\* large, gets past the byte bound (topic_queues.cpp:19).
Bounded ==
    \A x \in Topics :
        /\ Len(messages[x]) <= maxMessages
        /\ bytes[x] <= maxBytes
        /\ x \notin entries => /\ messages[x] = <<>>
                               /\ bytes[x] = 0 /\ dropped[x] = 0

\* The sizes of the payloads of a queue, added up from its front.
TotalSize(q) ==
    LET upTo[n \in 0 .. Len(q)] == IF n = 0 THEN 0 ELSE upTo[n - 1] + q[n].size
    IN upTo[Len(q)]

\* The byte count is the sum of the sizes queued, after any mix of pushes, pops
\* and releases, so it neither drifts up to the bound nor goes below zero.
BytesAccounted == \A x \in Topics : bytes[x] = TotalSize(messages[x])

\* What is queued is newer than what was handed out, and in order of arrival:
\* several consumers of one topic share the stream without reordering it.
Ordered ==
    \A x \in Topics :
        /\ lastOut[x] <= arrived[x]
        /\ \A i \in 1 .. Len(messages[x]) :
             lastOut[x] < messages[x][i].seq /\ messages[x][i].seq <= arrived[x]
        /\ \A i, j \in 1 .. Len(messages[x]) :
             i < j => messages[x][i].seq < messages[x][j].seq

\* No consumer sleeps on a topic that has a message: every wake-up reaches the
\* consumer it was for, whatever the others wait for.
NoSleeperOnMessage ==
    \A c \in Consumers : pc[c] = "waiting" => ~Ready(topic[c])

\* A drop counter never goes back, not even when its topic is released
\* (topic_queues.h:27).
DropsNeverReset ==
    [][\A x \in Topics : dropped'[x] >= dropped[x]
                         /\ (dropped[x] > 0 => x \in entries')]_vars

\* A consumer gives up only on a topic that has no message at that moment, even
\* when the message raced the deadline.
TimeoutMeansEmpty ==
    [][\A c \in Consumers :
         pc[c] # "idle" /\ pc'[c] = "idle" /\ UNCHANGED taken
           => ~Ready(topic[c])]_vars

\* Every pop returns, however often it is woken for another topic.
PopReturns == \A c \in Consumers : pc[c] # "idle" ~> pc[c] = "idle"

\* The queues are the backlog their callers were promised, whatever consumers, wake-ups
\* and deadlines do: nothing past the bound, every message that does not fit counted
\* once, no count lost with its entry (topic_queues.h:27), and bounds that change only
\* while nothing waits.  A bound of no bytes disables the queue as one of no messages.
\* The depth and the drops are those metrics() samples.
BL == INSTANCE Backlog WITH
        Keys <- Topics, Bounds <- MessageBounds \cup {0},
        most <- IF maxBytes = 0 THEN 0 ELSE maxMessages,
        depth <- [x \in Topics |-> Len(messages[x])]
BacklogSpec == BL!Spec

-----------------------------------------------------------------------------
(* The inductive invariant behind TypeOK, Bounded, BytesAccounted, Ordered   *)
(* and NoSleeperOnMessage.                                                   *)

\* Nothing is queued before the module listens, so the bounds a queue was filled
\* under are the ones in force.
QuietInv == ~listening => \A x \in Topics : messages[x] = <<>> /\ bytes[x] = 0

\* The payloads of queue q are the last bytes of the total that were queued, with
\* no gap, and the byte count reaches from the oldest of them to the newest.
Contiguous(q, count, total) ==
    /\ q = <<>> => count = 0
    /\ q # <<>> => /\ count = total - q[1].end + q[1].size
                   /\ q[Len(q)].end = total
    /\ \A i \in 1 .. Len(q) : q[i].end <= total
    /\ \A i, j \in 1 .. Len(q) : j = i + 1 => q[j].end = q[i].end + q[j].size

ContiguousInv == \A x \in Topics : Contiguous(messages[x], bytes[x], poured[x])

IInv == TypeOK /\ QuietInv /\ Bounded /\ Ordered /\ ContiguousInv
        /\ NoSleeperOnMessage
=============================================================================
