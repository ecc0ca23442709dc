------------------------ MODULE InboundStreamsProofs ------------------------
(***************************************************************************)
(* The safety of the accept queues, for any protocols, host threads,       *)
(* streams and cap.                                                        *)
(***************************************************************************)
EXTENDS InboundStreams, SequenceTheorems, TLAPS

\* The streams the host has been told of.
Held == accepted \cup announced

\* The node is asked to release the stream.
Asked(s) == \E job \in jobs : job.op = "release" /\ job.stream = s

\* No handle waits twice, in one queue or in two.
UniqueInv ==
    /\ \A p \in Protos : IsInjective(queue[p])
    /\ \A p, q \in Protos : p # q => ToSet(queue[p]) \cap ToSet(queue[q]) = {}

\* What a host thread is at says what it has in hand.
PhaseInv ==
    /\ \A h \in Hosts :
        /\ pc[h] \in {"waiting", "woken"} => arg[h] \in polled
        /\ pc[h] \in {"releasing", "removing"} => arg[h] \in Held
    /\ released \subseteq Held

\* A request that has a caller is the one its caller waits for.
JobInv ==
    /\ \A job \in jobs :
        /\ job.by \in Hosts =>
               pc[job.by] = IF job.op = "release" THEN "releasing" ELSE "stopping"
        /\ job.op = "release" => job.stream \in Streams
    /\ \A job, other \in jobs : job.by = other.by /\ job.by \in Hosts => job = other

\* A handle the node has not given out is nobody's; one the listener has not queued is
\* only the listener's.
FreshInv ==
    /\ \A s \in unborn : s \notin open \cup stopped \cup Queued \cup Held /\ ~Asked(s)
                         /\ event.stream # s
    /\ listener \in {"event", "full"} =>
           event.stream \notin Queued \cup Held /\ ~Asked(event.stream)

\* Where the stream of the event is.
EventInv ==
    /\ listener = "idle" => event = NoEvent
    /\ listener # "idle" => event.proto \in Protos /\ event.stream \in Streams
    /\ listener = "event" => event.stream \in open \cup stopped
    /\ listener \in {"pushed", "notified"} =>
           /\ event.stream \in Queued \cup Held \cup cleared
           /\ \A p \in Protos : event.stream \in ToSet(queue[p]) => p = event.proto

\* A handle in a queue the host polls is known from nowhere else.
PolledInv ==
    \A p \in polled : \A s \in ToSet(queue[p]) : s \notin announced /\ ~Asked(s)

\* A queue is well formed when it keeps its type, its cap and its handles apart.
WellFormed ==
    /\ queue \in [Protos -> Seq(Streams)] /\ \A p \in Protos : Len(queue[p]) <= Cap
    /\ UniqueInv

\* Where an open stream is, the dropped ones wherever their releaseAll came.
NoStreamLost ==
    \A s \in open :
        \/ listener # "idle" /\ event.stream = s
        \/ s \in Queued \cup accepted \cup announced \cup cleared \cup stranded
        \/ \E job \in jobs : job.op = "release" /\ job.stream = s

\* A stop closes what is open before its thread clears: what is open then, and what
\* is open although a releaseAll dropped it, is of a start that overtook the stop.
OvertakenInv ==
    /\ overtaking \subseteq Streams /\ cleared \cap unborn = {}
    /\ \A h \in Hosts : pc[h] = "clearing" => open \subseteq overtaking
    /\ open \cap cleared \subseteq overtaking

\* The rest of TypeOK.
OtherTypes ==
    /\ running \in BOOLEAN /\ open \subseteq Streams /\ unborn \subseteq Streams
    /\ jobs \subseteq [op : {"release", "stop"}, stream : Streams \cup {None},
                       by : Hosts \cup {None}]
    /\ listener \in {"idle", "event", "pushed", "notified", "full"}
    /\ event \in [proto : Protos \cup {None}, stream : Streams \cup {None}]
    /\ dropped \in [Protos -> Nat] /\ polled \subseteq Protos
    /\ pc \in [Hosts -> Phases] /\ arg \in [Hosts -> Protos \cup Streams \cup {None}]
    /\ stops \in 0 .. MaxStops
    /\ accepted \subseteq Streams /\ announced \subseteq Streams
    /\ released \subseteq Streams /\ stranded \subseteq Streams
    /\ stopped \subseteq Streams /\ cleared \subseteq Streams

\* Where every handle is: inductive by itself.
HandleInv ==
    /\ WellFormed /\ OtherTypes /\ PhaseInv /\ JobInv /\ FreshInv /\ EventInv /\ PolledInv
    /\ NotHandedAgain /\ NoStreamLost /\ QueuedAlive /\ NoSleeperOnStream

\* The inductive invariant.
IInv == HandleInv /\ OvertakenInv

-----------------------------------------------------------------------------
(* What the queue operations do to the handles that wait.                  *)

\* The handles of a queue are the elements at its places.
LEMMA Elements ==
  ASSUME NEW S, NEW s \in Seq(S)
  PROVE  /\ Len(s) \in Nat /\ DOMAIN s = 1 .. Len(s)
         /\ ToSet(s) \subseteq S
         /\ \A e : e \in ToSet(s) <=> \E i \in 1 .. Len(s) : s[i] = e
         /\ s # <<>> <=> ToSet(s) # {}
<1>1. Len(s) \in Nat /\ DOMAIN s = 1 .. Len(s)
  OBVIOUS
<1>2. \A i \in 1 .. Len(s) : s[i] \in S
  OBVIOUS
<1>3. s = <<>> <=> Len(s) = 0
  OBVIOUS
<1>4. \A e : e \in ToSet(s) <=> \E i \in 1 .. Len(s) : s[i] = e
  BY <1>1 DEF ToSet
<1>5. ToSet(s) \subseteq S
  BY <1>2, <1>4
<1>6. s # <<>> <=> ToSet(s) # {}
  <2>1. s # <<>> => 1 \in 1 .. Len(s)
    BY <1>1, <1>3
  <2>2. s # <<>> => s[1] \in ToSet(s)
    BY <1>4, <2>1
  <2>3. s = <<>> => 1 .. Len(s) = {}
    BY <1>3
  <2> QED
    BY <1>4, <2>2, <2>3
<1> QED
  BY <1>1, <1>4, <1>5, <1>6

\* A fresh handle at the end.
LEMMA Appended ==
  ASSUME NEW S, NEW s \in Seq(S), NEW e \in S, IsInjective(s), e \notin ToSet(s)
  PROVE  /\ Append(s, e) \in Seq(S) /\ Len(Append(s, e)) = Len(s) + 1
         /\ IsInjective(Append(s, e)) /\ ToSet(Append(s, e)) = ToSet(s) \cup {e}
<1> DEFINE t == Append(s, e)
<1>1. /\ t \in Seq(S) /\ Len(t) = Len(s) + 1 /\ Len(s) \in Nat
      /\ \A i \in 1 .. Len(s) : t[i] = s[i]
      /\ t[Len(s) + 1] = e
  OBVIOUS
<1> HIDE DEF t
<1>2. /\ \A x : x \in ToSet(t) <=> \E i \in 1 .. Len(t) : t[i] = x
      /\ \A x : x \in ToSet(s) <=> \E i \in 1 .. Len(s) : s[i] = x
      /\ DOMAIN t = 1 .. Len(t) /\ DOMAIN s = 1 .. Len(s)
  BY <1>1, Elements
<1>3. \A i \in 1 .. Len(t) : i \in 1 .. Len(s) \/ i = Len(s) + 1
  BY <1>1
<1>4. \A i \in 1 .. Len(s) : i \in 1 .. Len(t)
  BY <1>1
<1>5. Len(s) + 1 \in 1 .. Len(t)
  BY <1>1
<1>6. ToSet(t) = ToSet(s) \cup {e}
  BY <1>1, <1>2, <1>3, <1>4, <1>5
<1>7. IsInjective(t)
  <2> SUFFICES ASSUME NEW i \in 1 .. Len(t), NEW j \in 1 .. Len(t), t[i] = t[j] PROVE i = j
    BY <1>2 DEF IsInjective
  <2> QED
    BY <1>1, <1>2, <1>3 DEF IsInjective
<1> QED
  BY <1>1, <1>6, <1>7 DEF t

\* The front taken.
LEMMA Taken ==
  ASSUME NEW S, NEW s \in Seq(S), s # <<>>, IsInjective(s)
  PROVE  /\ Tail(s) \in Seq(S) /\ Len(Tail(s)) = Len(s) - 1 /\ Len(s) \in Nat \ {0}
         /\ IsInjective(Tail(s)) /\ Head(s) \in ToSet(s)
         /\ ToSet(Tail(s)) = ToSet(s) \ {Head(s)}
<1> DEFINE t == Tail(s)
<1>1. /\ t \in Seq(S) /\ Len(t) = Len(s) - 1 /\ Len(s) \in Nat \ {0}
      /\ \A i \in 1 .. Len(t) : t[i] = s[i + 1]
      /\ Head(s) = s[1]
  OBVIOUS
<1> HIDE DEF t
<1>2. /\ \A x : x \in ToSet(t) <=> \E i \in 1 .. Len(t) : t[i] = x
      /\ \A x : x \in ToSet(s) <=> \E i \in 1 .. Len(s) : s[i] = x
      /\ DOMAIN t = 1 .. Len(t) /\ DOMAIN s = 1 .. Len(s)
  BY <1>1, Elements
<1>3. 1 \in 1 .. Len(s) /\ \A i \in 1 .. Len(t) : i + 1 \in 1 .. Len(s) /\ i + 1 # 1
  BY <1>1
<1>4. \A i \in 1 .. Len(s) : i = 1 \/ (i - 1 \in 1 .. Len(t) /\ (i - 1) + 1 = i)
  BY <1>1
<1>5. ToSet(t) = ToSet(s) \ {s[1]}
  <2>1. \A x \in ToSet(t) : x \in ToSet(s) /\ x # s[1]
    BY <1>1, <1>2, <1>3 DEF IsInjective
  <2>2. ASSUME NEW x \in ToSet(s), x # s[1] PROVE x \in ToSet(t)
    <3>1. PICK i \in 1 .. Len(s) : s[i] = x
      BY <1>2
    <3>2. i - 1 \in 1 .. Len(t) /\ t[i - 1] = x
      BY <1>1, <1>4, <2>2, <3>1
    <3> QED
      BY <1>2, <3>2
  <2> QED
    BY <2>1, <2>2
<1>6. IsInjective(t)
  <2> SUFFICES ASSUME NEW i \in 1 .. Len(t), NEW j \in 1 .. Len(t), t[i] = t[j] PROVE i = j
    BY <1>2 DEF IsInjective
  <2>1. i + 1 \in DOMAIN s /\ j + 1 \in DOMAIN s
    BY <1>2, <1>3
  <2>2. s[i + 1] = s[j + 1]
    BY <1>1
  <2>3. i + 1 = j + 1
    BY <2>1, <2>2 DEF IsInjective
  <2> QED
    BY <2>3
<1> QED
  BY <1>1, <1>2, <1>3, <1>5, <1>6 DEF t

\* One place erased.
LEMMA Erased ==
  ASSUME NEW S, NEW s \in Seq(S), NEW k \in 1 .. Len(s), IsInjective(s)
  PROVE  /\ RemoveAt(s, k) \in Seq(S) /\ Len(RemoveAt(s, k)) = Len(s) - 1
         /\ Len(s) \in Nat \ {0} /\ s[k] \in ToSet(s)
         /\ IsInjective(RemoveAt(s, k)) /\ ToSet(RemoveAt(s, k)) = ToSet(s) \ {s[k]}
<1> DEFINE t == RemoveAt(s, k)
           a == SubSeq(s, 1, k - 1)
           b == SubSeq(s, k + 1, Len(s))
<1>0. Len(s) \in Nat \ {0} /\ k \in Nat /\ 1 <= k /\ k <= Len(s)
  OBVIOUS
<1>1. a \in Seq(S) /\ Len(a) = k - 1 /\ \A i \in 1 .. k - 1 : a[i] = s[i]
  BY <1>0
<1>2. b \in Seq(S) /\ Len(b) = Len(s) - k /\ \A i \in 1 .. Len(s) - k : b[i] = s[i + k]
  BY <1>0
<1>3. /\ t \in Seq(S) /\ Len(t) = Len(s) - 1
      /\ \A i \in 1 .. Len(t) : t[i] = IF i < k THEN s[i] ELSE s[i + 1]
  <2> HIDE DEF a, b
  <2>1. t = a \o b
    BY DEF RemoveAt, a, b
  <2>2. /\ a \o b \in Seq(S) /\ Len(a \o b) = Len(a) + Len(b)
        /\ \A i \in 1 .. Len(a) + Len(b) : (a \o b)[i] = IF i <= Len(a) THEN a[i] ELSE b[i - Len(a)]
    BY <1>1, <1>2, ConcatProperties
  <2>3. Len(t) = Len(s) - 1
    BY <1>0, <1>1, <1>2, <2>1, <2>2
  <2>4. ASSUME NEW i \in 1 .. Len(t) PROVE t[i] = IF i < k THEN s[i] ELSE s[i + 1]
    <3>1. CASE i < k
      BY <1>0, <1>1, <1>2, <2>1, <2>2, <2>3, <3>1
    <3>2. CASE i >= k
      <4>1. i - (k - 1) \in 1 .. Len(s) - k /\ (i - (k - 1)) + k = i + 1 /\ ~(i <= k - 1)
        BY <1>0, <2>3, <3>2
      <4> QED
        BY <1>0, <1>1, <1>2, <2>1, <2>2, <2>3, <3>2, <4>1
    <3> QED
      BY <1>0, <3>1, <3>2
  <2> QED
    BY <2>1, <2>2, <2>3, <2>4
<1> HIDE DEF t, a, b
<1>4. /\ \A x : x \in ToSet(t) <=> \E i \in 1 .. Len(t) : t[i] = x
      /\ \A x : x \in ToSet(s) <=> \E i \in 1 .. Len(s) : s[i] = x
      /\ DOMAIN t = 1 .. Len(t) /\ DOMAIN s = 1 .. Len(s)
  BY <1>3, Elements
<1> DEFINE at(i) == IF i < k THEN i ELSE i + 1
<1>5. \A i \in 1 .. Len(t) : at(i) \in 1 .. Len(s) /\ at(i) # k /\ t[i] = s[at(i)]
  BY <1>0, <1>3
<1>6. \A i, j \in 1 .. Len(t) : at(i) = at(j) => i = j
  BY <1>0, <1>3
<1>7. \A i \in 1 .. Len(s) : i # k => \E j \in 1 .. Len(t) : at(j) = i
  <2> SUFFICES ASSUME NEW i \in 1 .. Len(s), i # k PROVE \E j \in 1 .. Len(t) : at(j) = i
    OBVIOUS
  <2>1. CASE i < k
    <3>1. i \in 1 .. Len(t) /\ at(i) = i
      BY <1>0, <1>3, <2>1
    <3> QED
      BY <3>1
  <2>2. CASE i > k
    <3>1. i - 1 \in 1 .. Len(t) /\ at(i - 1) = i
      BY <1>0, <1>3, <2>2
    <3> QED
      BY <3>1
  <2> QED
    BY <1>0, <2>1, <2>2
<1> HIDE DEF at
<1>8. ToSet(t) = ToSet(s) \ {s[k]}
  <2>1. \A x \in ToSet(t) : x \in ToSet(s) /\ x # s[k]
    BY <1>4, <1>5 DEF IsInjective
  <2>2. \A x \in ToSet(s) : x # s[k] => x \in ToSet(t)
    BY <1>4, <1>5, <1>7
  <2> QED
    BY <2>1, <2>2
<1>9. IsInjective(t)
  BY <1>4, <1>5, <1>6 DEF IsInjective
<1> QED
  BY <1>0, <1>3, <1>4, <1>8, <1>9 DEF t

\* One queue changed for another that shares no handle with the rest.
LEMMA QueueChanged ==
  ASSUME WellFormed, NEW p \in Protos, NEW t \in Seq(Streams), Len(t) <= Cap,
         IsInjective(t), \A q \in Protos \ {p} : ToSet(queue[q]) \cap ToSet(t) = {},
         queue' = [queue EXCEPT ![p] = t]
  PROVE  WellFormed' /\ \A q \in Protos : queue'[q] = IF q = p THEN t ELSE queue[q]
<1>1. \A q \in Protos : queue'[q] = IF q = p THEN t ELSE queue[q]
  BY DEF WellFormed
<1>2. queue' \in [Protos -> Seq(Streams)] /\ \A q \in Protos : Len(queue'[q]) <= Cap
  BY <1>1 DEF WellFormed
<1>3. \A q \in Protos : IsInjective(queue'[q])
  BY <1>1 DEF WellFormed, UniqueInv
<1>4. \A q, r \in Protos : q # r => ToSet(queue'[q]) \cap ToSet(queue'[r]) = {}
  <2> SUFFICES ASSUME NEW q \in Protos, NEW r \in Protos, q # r
               PROVE  ToSet(queue'[q]) \cap ToSet(queue'[r]) = {}
    OBVIOUS
  <2>1. ToSet(queue[q]) \cap ToSet(queue[r]) = {}
    BY DEF WellFormed, UniqueInv
  <2>2. CASE q = p
    BY <1>1, <2>2
  <2>3. CASE r = p
    BY <1>1, <2>3
  <2> QED
    BY <1>1, <2>1, <2>2, <2>3
<1> QED
  BY <1>1, <1>2, <1>3, <1>4 DEF WellFormed, UniqueInv

\* A queue that has something has a handle in it.
LEMMA Waiting ==
  ASSUME WellFormed, NEW p \in Protos
  PROVE  /\ queue[p] # <<>> <=> ToSet(queue[p]) # {}
         /\ ToSet(queue[p]) \subseteq Streams /\ ToSet(queue[p]) \subseteq Queued
<1>1. queue[p] \in Seq(Streams)
  BY DEF WellFormed
<1> QED
  BY <1>1, Elements DEF Queued

\* push (stream_queues.cpp:15): the handle waits in its queue, and the rest is as before.
LEMMA PushAdds ==
  ASSUME WellFormed, NEW p \in Protos, NEW s \in Streams, s \notin Queued, PushAccepted(p, s)
  PROVE  /\ WellFormed'
         /\ \A q \in Protos : ToSet(queue'[q]) = IF q = p THEN ToSet(queue[q]) \cup {s}
                                                 ELSE ToSet(queue[q])
<1> DEFINE t == Append(queue[p], s)
<1>1. queue[p] \in Seq(Streams) /\ IsInjective(queue[p]) /\ s \notin ToSet(queue[p])
  BY DEF WellFormed, UniqueInv, Queued
<1>2. /\ t \in Seq(Streams) /\ Len(t) = Len(queue[p]) + 1
      /\ IsInjective(t) /\ ToSet(t) = ToSet(queue[p]) \cup {s}
  BY <1>1, Appended
<1>3. Len(queue[p]) \in Nat /\ Len(queue[p]) < Cap /\ Cap \in Nat
  BY <1>1, CapAssumption DEF PushAccepted
<1>4. queue' = [queue EXCEPT ![p] = t]
  BY DEF PushAccepted
<1>5. \A q \in Protos \ {p} : ToSet(queue[q]) \cap ToSet(t) = {}
  <2>1. \A q \in Protos \ {p} : ToSet(queue[q]) \cap ToSet(queue[p]) = {} /\ s \notin ToSet(queue[q])
    BY DEF WellFormed, UniqueInv, Queued
  <2> HIDE DEF t
  <2> QED
    BY <1>2, <2>1
<1> HIDE DEF t
<1>6. Len(t) <= Cap
  BY <1>2, <1>3
<1>7. WellFormed' /\ \A q \in Protos : queue'[q] = IF q = p THEN t ELSE queue[q]
  BY <1>2, <1>4, <1>5, <1>6, QueueChanged
<1> QED
  BY <1>2, <1>7

\* One handle leaves every queue, that is the one it is in.
Without(s) ==
    WellFormed' /\ \A q \in Protos : ToSet(queue'[q]) = ToSet(queue[q]) \ {s}

\* A queue without one of its handles.
LEMMA HandleLeaves ==
  ASSUME WellFormed, NEW p \in Protos, NEW t \in Seq(Streams), NEW s \in ToSet(queue[p]),
         Len(t) = Len(queue[p]) - 1, IsInjective(t), ToSet(t) = ToSet(queue[p]) \ {s},
         queue' = [queue EXCEPT ![p] = t]
  PROVE  Without(s)
<1>1. Len(queue[p]) \in Nat /\ Len(queue[p]) <= Cap
  BY DEF WellFormed
<1>2. Len(t) <= Cap
  BY <1>1, CapAssumption
<1>3. \A q \in Protos \ {p} : /\ ToSet(queue[q]) \cap ToSet(queue[p]) = {}
                              /\ s \notin ToSet(queue[q])
  BY DEF WellFormed, UniqueInv
<1>4. \A q \in Protos \ {p} : ToSet(queue[q]) \cap ToSet(t) = {}
  BY <1>3
<1>5. WellFormed' /\ \A q \in Protos : queue'[q] = IF q = p THEN t ELSE queue[q]
  BY <1>2, <1>4, QueueChanged
<1> QED
  BY <1>3, <1>5 DEF Without

\* What a handle that leaves means for the queues together, and for who sleeps on one.
LEMMA WithoutMeans ==
  ASSUME WellFormed, NEW s, Without(s)
  PROVE  /\ WellFormed' /\ Queued' = Queued \ {s}
         /\ \A q \in Protos : ToSet(queue'[q]) \subseteq ToSet(queue[q])
         /\ \A q \in Protos : queue'[q] # <<>> => queue[q] # <<>>
<1>1. WellFormed' /\ \A q \in Protos : ToSet(queue'[q]) = ToSet(queue[q]) \ {s}
  BY DEF Without
<1>2. Queued' = Queued \ {s}
  BY <1>1 DEF Queued
<1>3. ASSUME NEW q \in Protos, queue'[q] # <<>> PROVE queue[q] # <<>>
  <2>1. queue'[q] \in Seq(Streams) /\ queue[q] \in Seq(Streams)
    BY <1>1 DEF WellFormed
  <2>2. ToSet(queue'[q]) # {}
    BY <1>3, <2>1, Elements
  <2>3. ToSet(queue[q]) # {}
    BY <1>1, <2>2
  <2> QED
    BY <2>1, <2>3, Elements
<1> QED
  BY <1>1, <1>2, <1>3

\* pop (stream_queues.cpp:31-32).
LEMMA TakeLeaves ==
  ASSUME WellFormed, NEW h \in Hosts, NEW p \in Protos, queue[p] # <<>>, Take(h, p)
  PROVE  Head(queue[p]) \in ToSet(queue[p]) /\ Without(Head(queue[p]))
<1>1. queue[p] \in Seq(Streams) /\ IsInjective(queue[p])
  BY DEF WellFormed, UniqueInv
<1>2. queue' = [queue EXCEPT ![p] = Tail(queue[p])]
  BY DEF Take
<1> QED
  BY <1>1, <1>2, Taken, HandleLeaves

\* remove (stream_queues.cpp:36-47): one place is enough, for a handle has no other.
LEMMA EraseLeaves ==
  ASSUME WellFormed, NEW s, Erase(s)
  PROVE  Without(s)
<1>1. CASE s \notin Queued /\ UNCHANGED queue
  BY <1>1 DEF Without, WellFormed, UniqueInv, Queued
<1>2. ASSUME NEW p \in Protos, NEW i \in 1 .. Len(queue[p]), queue[p][i] = s,
             queue' = [queue EXCEPT ![p] = RemoveAt(@, i)]
      PROVE  Without(s)
  <2>1. queue[p] \in Seq(Streams) /\ IsInjective(queue[p])
    BY DEF WellFormed, UniqueInv
  <2>2. queue' = [queue EXCEPT ![p] = RemoveAt(queue[p], i)]
    BY <1>2
  <2> DEFINE t == RemoveAt(queue[p], i)
  <2>3. /\ t \in Seq(Streams) /\ Len(t) = Len(queue[p]) - 1 /\ s \in ToSet(queue[p])
        /\ IsInjective(t) /\ ToSet(t) = ToSet(queue[p]) \ {s}
    BY <1>2, <2>1, Erased
  <2> HIDE DEF t
  <2>4. queue' = [queue EXCEPT ![p] = t]
    BY <2>2 DEF t
  <2> QED
    BY <2>3, <2>4, HandleLeaves
<1> QED
  BY <1>1, <1>2 DEF Erase

\* releaseAll (stream_queues.cpp:49-55).
LEMMA ClearLeaves ==
  ASSUME WellFormed, queue' = [p \in Protos |-> <<>>]
  PROVE  WellFormed' /\ \A q \in Protos : ToSet(queue'[q]) = {}
<1>1. \A q \in Protos : queue'[q] = <<>> /\ ToSet(queue'[q]) = {} /\ IsInjective(queue'[q])
  BY DEF ToSet, IsInjective
<1>2. queue' \in [Protos -> Seq(Streams)] /\ \A p \in Protos : Len(queue'[p]) <= Cap
  BY CapAssumption
<1> QED
  BY <1>1, <1>2 DEF WellFormed, UniqueInv

\* The type invariant follows.
LEMMA TypeParts == WellFormed /\ OtherTypes /\ OvertakenInv => TypeOK
  BY DEF WellFormed, OtherTypes, OvertakenInv, TypeOK

-----------------------------------------------------------------------------
(* The steps of the node.                                                  *)

\* While no queue moves, the queues are well formed and hold what they held.
LEMMA QueuesStay ==
  ASSUME WellFormed, UNCHANGED queue
  PROVE  WellFormed' /\ Queued' = Queued
  BY DEF WellFormed, UniqueInv, Queued

\* A handle the node gives out is nobody else's.
LEMMA IncomingKeeps ==
  ASSUME HandleInv, NEW p \in Protos, NEW s \in Streams, Incoming(p, s)
  PROVE  HandleInv'
<1> USE DEF HandleInv, Incoming, hvars, qvars, kvars, lvars, Held, Asked
<1>1. WellFormed' /\ Queued' = Queued
  BY QueuesStay
<1>2. OtherTypes'
  BY DEF OtherTypes
<1>3. PhaseInv' /\ JobInv'
  BY DEF PhaseInv, JobInv
<1>4. FreshInv'
  BY <1>1 DEF FreshInv, OtherTypes
<1>5. EventInv' /\ PolledInv'
  BY <1>1 DEF EventInv, PolledInv
<1>6. NotHandedAgain' /\ NoStreamLost' /\ QueuedAlive'
  BY <1>1 DEF NotHandedAgain, NoStreamLost, QueuedAlive, EventInv
<1>7. NoSleeperOnStream'
  BY DEF NoSleeperOnStream
<1> QED
  BY <1>1, <1>2, <1>3, <1>4, <1>5, <1>6, <1>7

\* A release is answered: a stream in a queue the host polls was not asked for.
LEMMA StreamReleasedKeeps ==
  ASSUME HandleInv, NEW job \in jobs, StreamReleased(job)
  PROVE  HandleInv'
<1> USE DEF HandleInv, StreamReleased, Reply, hvars, qvars, kvars, lvars, Held, Asked
<1>1. WellFormed' /\ Queued' = Queued
  BY QueuesStay
<1>2. OtherTypes'
  BY DEF OtherTypes, Phases
<1>3. PhaseInv'
  BY DEF PhaseInv, JobInv, OtherTypes
<1>4. JobInv'
  BY DEF JobInv, OtherTypes
<1>5. FreshInv' /\ EventInv' /\ PolledInv'
  BY <1>1 DEF FreshInv, EventInv, PolledInv
<1>6. NotHandedAgain' /\ NoStreamLost' /\ QueuedAlive'
  BY <1>1 DEF NotHandedAgain, NoStreamLost, QueuedAlive, PolledInv
<1>7. NoSleeperOnStream'
  BY DEF NoSleeperOnStream, OtherTypes
<1> QED
  BY <1>1, <1>2, <1>3, <1>4, <1>5, <1>6, <1>7

\* A release fails: its stream is out of the listener's hands.
LEMMA ReleaseFailedKeeps ==
  ASSUME HandleInv, NEW job \in jobs, ReleaseFailed(job)
  PROVE  HandleInv'
<1> USE DEF HandleInv, ReleaseFailed, Reply, hvars, qvars, kvars, lvars
<1>1. WellFormed' /\ Queued' = Queued
  BY QueuesStay
<1>2. \A s : Asked(s)' => Asked(s)
  BY DEF Asked
<1>3. OtherTypes'
  BY DEF OtherTypes, Phases, JobInv
<1>4. PhaseInv'
  BY DEF PhaseInv, JobInv, OtherTypes, Held
<1>5. JobInv'
  BY DEF JobInv, OtherTypes
<1>6. FreshInv' /\ EventInv' /\ PolledInv'
  BY <1>1, <1>2 DEF FreshInv, EventInv, PolledInv, Held
<1>7. NotHandedAgain' /\ QueuedAlive'
  BY <1>1 DEF NotHandedAgain, QueuedAlive
<1>8. NoStreamLost'
  <2>1. \A s : Asked(s) => Asked(s)' \/ s = job.stream
    BY DEF Asked
  <2>2. job.stream \in stranded' \cup accepted' \cup announced'
    OBVIOUS
  <2>3. stranded \subseteq stranded'
    OBVIOUS
  <2> QED
    BY <1>1, <2>1, <2>2, <2>3 DEF NoStreamLost, Asked
<1>9. NoSleeperOnStream'
  BY DEF NoSleeperOnStream, OtherTypes
<1> QED
  BY <1>1, <1>3, <1>4, <1>5, <1>6, <1>7, <1>8, <1>9

\* A stop is answered, well or not: what was open is lost to the stop, or stays.
LEMMA NodeStoppedKeeps ==
  ASSUME HandleInv, NEW job \in jobs, NodeStopped(job) \/ StopFailed(job)
  PROVE  HandleInv'
<1> USE DEF HandleInv, NodeStopped, StopFailed, Reply, hvars, qvars, kvars, lvars, Held, Asked
<1>1. WellFormed' /\ Queued' = Queued
  BY QueuesStay
<1>2. OtherTypes'
  BY DEF OtherTypes, Phases
<1>3. PhaseInv'
  BY DEF PhaseInv, JobInv, OtherTypes
<1>4. JobInv'
  BY DEF JobInv, OtherTypes
<1>5. FreshInv' /\ EventInv' /\ PolledInv'
  BY <1>1 DEF FreshInv, EventInv, PolledInv
<1>6. NotHandedAgain' /\ NoStreamLost' /\ QueuedAlive'
  BY <1>1 DEF NotHandedAgain, NoStreamLost, QueuedAlive, PolledInv
<1>7. NoSleeperOnStream'
  BY DEF NoSleeperOnStream, OtherTypes
<1> QED
  BY <1>1, <1>2, <1>3, <1>4, <1>5, <1>6, <1>7

\* A start moves no handle.
LEMMA NodeStartedKeeps ==
  ASSUME HandleInv, NodeStarted
  PROVE  HandleInv'
<1> USE DEF HandleInv, NodeStarted, hvars, qvars, kvars, lvars, Held, Asked
<1>1. WellFormed' /\ Queued' = Queued
  BY QueuesStay
<1> QED
  BY <1>1 DEF OtherTypes, PhaseInv, JobInv, FreshInv, EventInv, PolledInv, NotHandedAgain,
              NoStreamLost, QueuedAlive, NoSleeperOnStream

-----------------------------------------------------------------------------
(* The steps of the listener.                                              *)

\* The listener queues a handle that is nobody else's yet.
LEMMA PushAcceptedKeeps ==
  ASSUME HandleInv, Push, PushAccepted(event.proto, event.stream)
  PROVE  HandleInv'
<1> USE DEF HandleInv, Push, nvars, hvars, kvars, Held, Asked
<1>1. /\ listener = "event" /\ event.proto \in Protos /\ event.stream \in Streams
      /\ event.stream \notin Queued
  BY DEF EventInv, FreshInv
<1> DEFINE p == event.proto
           s == event.stream
<1>2. /\ WellFormed'
      /\ \A q \in Protos : ToSet(queue'[q]) = IF q = p THEN ToSet(queue[q]) \cup {s}
                                              ELSE ToSet(queue[q])
  BY <1>1, PushAdds
<1>3. Queued' = Queued \cup {s}
  BY <1>1, <1>2 DEF Queued
<1>4. listener' = "pushed" /\ UNCHANGED <<dropped, cleared>>
  BY DEF PushAccepted
<1>5. OtherTypes' /\ PhaseInv' /\ JobInv'
  BY <1>4 DEF OtherTypes, PhaseInv, JobInv
<1>6. FreshInv' /\ EventInv'
  <2>1. FreshInv'
    BY <1>3, <1>4 DEF FreshInv
  <2>2. \A q \in Protos : s \in ToSet(queue'[q]) => q = p
    BY <1>1, <1>2 DEF Queued
  <2> QED
    BY <1>1, <1>3, <1>4, <2>1, <2>2 DEF EventInv
<1>7. PolledInv'
  <2> SUFFICES ASSUME NEW q \in polled, NEW x \in ToSet(queue'[q])
               PROVE  x \notin announced /\ ~Asked(x)
    BY DEF PolledInv
  <2>1. q \in Protos /\ (x \in ToSet(queue[q]) \/ x = s)
    BY <1>2 DEF OtherTypes
  <2> QED
    BY <1>1, <2>1 DEF PolledInv, FreshInv
<1>8. NotHandedAgain' /\ NoStreamLost'
  BY <1>1, <1>3, <1>4 DEF NotHandedAgain, NoStreamLost, FreshInv, PhaseInv
<1>9. QueuedAlive'
  <2>1. \A q \in polled : q \in Protos /\ ToSet(queue'[q]) \subseteq ToSet(queue[q]) \cup {s}
    BY <1>2 DEF OtherTypes
  <2>2. s \in open \cup stopped
    BY <1>1 DEF EventInv
  <2> QED
    BY <2>1, <2>2 DEF QueuedAlive
<1>10. NoSleeperOnStream'
  BY <1>4 DEF NoSleeperOnStream
<1> QED
  BY <1>2, <1>5, <1>6, <1>7, <1>8, <1>9, <1>10

\* Over the cap, the listener keeps the handle to release it.
LEMMA PushRefusedKeeps ==
  ASSUME HandleInv, Push, PushRefused(event.proto, event.stream)
  PROVE  HandleInv'
<1> USE DEF HandleInv, Push, PushRefused, nvars, hvars, kvars, Held, Asked
<1>1. WellFormed' /\ Queued' = Queued /\ event.proto \in Protos
  BY QueuesStay DEF EventInv
<1>2. OtherTypes' /\ PhaseInv' /\ JobInv'
  BY <1>1 DEF OtherTypes, PhaseInv, JobInv
<1>3. FreshInv' /\ EventInv' /\ PolledInv'
  BY <1>1 DEF FreshInv, EventInv, PolledInv
<1>4. NotHandedAgain' /\ NoStreamLost' /\ QueuedAlive' /\ NoSleeperOnStream'
  BY <1>1 DEF NotHandedAgain, NoStreamLost, QueuedAlive, NoSleeperOnStream
<1> QED
  BY <1>1, <1>2, <1>3, <1>4

\* Every sleeper is woken once the handle is queued.
LEMMA NotifyKeeps ==
  ASSUME HandleInv, Notify
  PROVE  HandleInv'
<1> USE DEF HandleInv, Notify, nvars, qvars, kvars, Held, Asked
<1>1. WellFormed' /\ Queued' = Queued
  BY QueuesStay
<1>2. OtherTypes' /\ PhaseInv' /\ JobInv'
  BY DEF OtherTypes, PhaseInv, JobInv, Phases
<1>3. FreshInv' /\ EventInv' /\ PolledInv'
  BY <1>1 DEF FreshInv, EventInv, PolledInv
<1>4. NotHandedAgain' /\ NoStreamLost' /\ QueuedAlive' /\ NoSleeperOnStream'
  BY <1>1 DEF NotHandedAgain, NoStreamLost, QueuedAlive, NoSleeperOnStream
<1> QED
  BY <1>1, <1>2, <1>3, <1>4

\* The event tells a handle that is queued, and only a host that does not poll goes by it.
LEMMA AnnounceKeeps ==
  ASSUME HandleInv, Announce
  PROVE  HandleInv'
<1> USE DEF HandleInv, Announce, Leave, nvars, qvars, hvars, Held, Asked
<1>1. WellFormed' /\ Queued' = Queued /\ event.proto \in Protos /\ event.stream \in Streams
  BY QueuesStay DEF EventInv
<1>2. announced \subseteq announced' /\ announced' \subseteq announced \cup {event.stream}
  OBVIOUS
<1>3. OtherTypes' /\ PhaseInv' /\ JobInv'
  BY <1>1 DEF OtherTypes, PhaseInv, JobInv, NoEvent
<1>4. FreshInv' /\ EventInv'
  BY <1>1, <1>2, NoneAssumption DEF FreshInv, EventInv, NoEvent, OtherTypes
<1>5. PolledInv'
  BY <1>1 DEF PolledInv, EventInv, OtherTypes
<1>6. NotHandedAgain' /\ NoStreamLost' /\ QueuedAlive' /\ NoSleeperOnStream'
  BY <1>1, <1>2 DEF NotHandedAgain, NoStreamLost, QueuedAlive, NoSleeperOnStream, EventInv
<1> QED
  BY <1>1, <1>3, <1>4, <1>5, <1>6

\* The release of a stream over the cap is asked for, or refused.
LEMMA ReleaseDroppedKeeps ==
  ASSUME HandleInv, ReleaseDropped \/ ReleaseDroppedRefused
  PROVE  HandleInv'
<1> USE DEF HandleInv, ReleaseDropped, ReleaseDroppedRefused, Leave, nvars, qvars, hvars, kvars
<1>1. /\ WellFormed' /\ Queued' = Queued
      /\ event.stream \in Streams /\ event.stream \notin Queued \cup unborn
  BY QueuesStay DEF EventInv, FreshInv
<1>2. \A s : Asked(s)' => Asked(s) \/ s = event.stream
  BY DEF Asked
<1>3. OtherTypes'
  BY <1>1 DEF OtherTypes, NoEvent
<1>4. PhaseInv' /\ JobInv'
  BY <1>1, NoneAssumption DEF PhaseInv, JobInv, Held, OtherTypes
<1>5. FreshInv' /\ EventInv'
  BY <1>1, <1>2, NoneAssumption DEF FreshInv, EventInv, NoEvent, OtherTypes, Held
<1>6. PolledInv'
  BY <1>1, <1>2, Waiting DEF PolledInv, OtherTypes
<1>7. NoStreamLost'
  <2> DEFINE ask == [op |-> "release", stream |-> event.stream, by |-> None]
  <2>1. \/ ask \in jobs' /\ ask.op = "release" /\ ask.stream = event.stream
        \/ event.stream \in stranded'
    OBVIOUS
  <2>2. jobs \subseteq jobs' /\ stranded \subseteq stranded'
    OBVIOUS
  <2> HIDE DEF ask
  <2>3. \A x : x = event.stream => Asked(x)' \/ x \in stranded'
    BY <2>1 DEF Asked
  <2>4. \A x : Asked(x) => Asked(x)'
    BY <2>2 DEF Asked
  <2> QED
    BY <1>1, <2>2, <2>3, <2>4 DEF NoStreamLost, Asked
<1>8. NotHandedAgain' /\ QueuedAlive' /\ NoSleeperOnStream'
  BY <1>1 DEF NotHandedAgain, QueuedAlive, NoSleeperOnStream
<1> QED
  BY <1>1, <1>3, <1>4, <1>5, <1>6, <1>7, <1>8

-----------------------------------------------------------------------------
(* The steps of the host's threads.                                        *)

\* When handles leave the queues for the host, or for a stop, every other stays where
\* it was.
LEMMA QueuesShrink ==
  ASSUME HandleInv, WellFormed', Queued' \subseteq Queued,
         \A q \in Protos : ToSet(queue'[q]) \subseteq ToSet(queue[q]),
         UNCHANGED <<running, open, unborn, jobs, stopped, listener, event, polled,
                     announced, stranded>>,
         accepted \subseteq accepted', accepted' \subseteq accepted \cup Queued,
         cleared \subseteq cleared', Queued \subseteq Queued' \cup Held' \cup cleared'
  PROVE  FreshInv' /\ EventInv' /\ PolledInv' /\ QueuedAlive' /\ NoStreamLost'
<1> USE DEF HandleInv
<1>1. (\A x : Asked(x)' = Asked(x)) /\ Held \subseteq Held' /\ Held' \subseteq Held \cup Queued
  BY DEF Asked, Held
<1>2. FreshInv'
  BY <1>1 DEF FreshInv
<1>3. EventInv'
  BY <1>1 DEF EventInv
<1>4. \A q \in polled : ToSet(queue'[q]) \subseteq ToSet(queue[q])
  BY DEF OtherTypes
<1>5. PolledInv' /\ QueuedAlive'
  BY <1>1, <1>4 DEF PolledInv, QueuedAlive
<1>6. NoStreamLost'
  BY <1>1 DEF NoStreamLost, Held
<1> QED
  BY <1>2, <1>3, <1>5, <1>6

\* A handle goes from its queue to the host, and from no other place.
LEMMA TakeKeeps ==
  ASSUME HandleInv, NEW h \in Hosts, NEW p \in polled, queue[p] # <<>>, Take(h, p),
         pc[h] \in {"idle", "waiting", "woken"},
         UNCHANGED <<nvars, lvars, dropped, cleared, polled, stops, announced,
                     released, stranded>>
  PROVE  HandleInv'
<1> USE DEF HandleInv, nvars, lvars, Asked
<1> DEFINE s == Head(queue[p])
<1>1. p \in Protos
  BY DEF OtherTypes
<1>2. s \in ToSet(queue[p]) /\ Without(s)
  BY <1>1, TakeLeaves
<1>3. /\ WellFormed' /\ Queued' = Queued \ {s} /\ s \in Queued /\ s \in Streams
      /\ \A q \in Protos : ToSet(queue'[q]) \subseteq ToSet(queue[q])
      /\ \A q \in Protos : queue'[q] # <<>> => queue[q] # <<>>
  <2> HIDE DEF s
  <2> QED
    BY <1>1, <1>2, WithoutMeans, Waiting
<1>4. /\ accepted' = accepted \cup {s} /\ pc' = [pc EXCEPT ![h] = "idle"]
      /\ arg' = [arg EXCEPT ![h] = None]
  BY DEF Take, Return
<1> HIDE DEF s
<1>5. OtherTypes'
  BY <1>3, <1>4 DEF OtherTypes, Phases
<1>6. PhaseInv' /\ JobInv'
  BY <1>3, <1>4 DEF PhaseInv, JobInv, OtherTypes, Held
<1>7. FreshInv' /\ EventInv' /\ PolledInv' /\ QueuedAlive' /\ NoStreamLost'
  <2>1. Queued \subseteq Queued' \cup Held' \cup cleared'
    BY <1>3, <1>4 DEF Held
  <2>2. accepted \subseteq accepted' /\ accepted' \subseteq accepted \cup Queued
    BY <1>3, <1>4
  <2>3. /\ UNCHANGED <<running, open, unborn, jobs, stopped, listener, event, polled,
                       announced, stranded>>
        /\ cleared \subseteq cleared' /\ Queued' \subseteq Queued
    BY <1>3
  <2> QED
    BY <1>3, <2>1, <2>2, <2>3, QueuesShrink
<1>8. NotHandedAgain'
  BY <1>3, <1>4 DEF NotHandedAgain
<1>9. NoSleeperOnStream'
  <2> SUFFICES ASSUME NEW x \in Hosts, pc'[x] = "waiting", queue'[arg'[x]] # <<>>
               PROVE  listener = "pushed"
    BY DEF NoSleeperOnStream
  <2>1. pc[x] = "waiting" /\ arg'[x] = arg[x] /\ arg[x] \in Protos
    BY <1>4 DEF OtherTypes, PhaseInv
  <2>2. queue[arg[x]] # <<>>
    BY <1>3, <2>1
  <2> QED
    BY <2>1, <2>2 DEF NoSleeperOnStream
<1> QED
  BY <1>3, <1>5, <1>6, <1>7, <1>8, <1>9

\* protocolAcceptStream, at its call and after each wait.
LEMMA AcceptKeeps ==
  ASSUME HandleInv, NEW h \in Hosts, NEW p \in Protos, Accept(h, p)
  PROVE  HandleInv'
<1>1. CASE queue[p] # <<>>
  <2>1. Take(h, p) /\ p \in polled /\ pc[h] = "idle"
    BY <1>1 DEF Accept
  <2>2. UNCHANGED <<nvars, lvars, dropped, cleared, polled, stops, announced,
                    released, stranded>>
    BY DEF Accept
  <2> QED
    BY <1>1, <2>1, <2>2, TakeKeeps
<1>2. CASE queue[p] = <<>>
  <2> USE <1>2 DEF HandleInv, Accept, nvars, lvars, Held, Asked
  <2>1. WellFormed' /\ Queued' = Queued
    BY QueuesStay
  <2>2. OtherTypes' /\ PhaseInv' /\ JobInv'
    BY DEF OtherTypes, PhaseInv, JobInv, Phases
  <2>3. FreshInv' /\ EventInv' /\ PolledInv'
    BY <2>1 DEF FreshInv, EventInv, PolledInv
  <2>4. NotHandedAgain' /\ NoStreamLost' /\ QueuedAlive'
    BY <2>1 DEF NotHandedAgain, NoStreamLost, QueuedAlive
  <2>5. NoSleeperOnStream'
    BY DEF NoSleeperOnStream, OtherTypes
  <2> QED
    BY <2>1, <2>2, <2>3, <2>4, <2>5
<1> QED
  BY <1>1, <1>2

\* A consumer looks again, after a notification or at its deadline.
LEMMA ResumeKeeps ==
  ASSUME HandleInv, NEW h \in Hosts, Resume(h)
  PROVE  HandleInv'
<1>1. CASE queue[arg[h]] # <<>>
  <2>1. Take(h, arg[h]) /\ arg[h] \in polled /\ pc[h] \in {"idle", "waiting", "woken"}
    BY <1>1 DEF Resume, HandleInv, PhaseInv
  <2>2. UNCHANGED <<nvars, lvars, dropped, cleared, polled, stops, announced,
                    released, stranded>>
    BY DEF Resume
  <2> QED
    BY <1>1, <2>1, <2>2, TakeKeeps
<1>2. CASE queue[arg[h]] = <<>>
  <2> USE <1>2 DEF HandleInv, Resume, Return, nvars, lvars, Held, Asked
  <2>1. WellFormed' /\ Queued' = Queued
    BY QueuesStay
  <2>2. OtherTypes' /\ PhaseInv' /\ JobInv'
    BY DEF OtherTypes, PhaseInv, JobInv, Phases
  <2>3. FreshInv' /\ EventInv' /\ PolledInv'
    BY <2>1 DEF FreshInv, EventInv, PolledInv
  <2>4. NotHandedAgain' /\ NoStreamLost' /\ QueuedAlive'
    BY <2>1 DEF NotHandedAgain, NoStreamLost, QueuedAlive
  <2>5. NoSleeperOnStream'
    BY DEF NoSleeperOnStream, OtherTypes
  <2> QED
    BY <2>1, <2>2, <2>3, <2>4, <2>5
<1> QED
  BY <1>1, <1>2

\* streamRelease, its request accepted or refused.
LEMMA ReleaseKeeps ==
  ASSUME HandleInv, NEW h \in Hosts, NEW s \in Streams, Release(h, s) \/ ReleaseRefused(h, s)
  PROVE  HandleInv'
<1> USE DEF HandleInv, Release, ReleaseRefused, CallRelease, lvars, qvars, kvars
<1>1. WellFormed' /\ Queued' = Queued /\ s \in Held
  BY QueuesStay DEF Held
<1>2. (\A x : Asked(x)' => Asked(x) \/ x = s) /\ jobs \subseteq jobs'
  BY DEF Asked
<1>3. OtherTypes'
  BY DEF OtherTypes, Phases
<1>4. PhaseInv'
  BY DEF PhaseInv, Held, OtherTypes
<1>5. JobInv'
  BY DEF JobInv, OtherTypes
<1>6. FreshInv' /\ EventInv'
  BY <1>1, <1>2 DEF FreshInv, EventInv, Held
<1>7. PolledInv'
  <2>1. \A p \in polled : s \notin ToSet(queue[p])
    BY Waiting DEF PolledInv, NotHandedAgain, OtherTypes
  <2> QED
    BY <1>2, <2>1 DEF PolledInv
<1>8. NotHandedAgain' /\ NoStreamLost' /\ QueuedAlive'
  BY <1>1, <1>2 DEF NotHandedAgain, NoStreamLost, QueuedAlive
<1>9. NoSleeperOnStream'
  BY DEF NoSleeperOnStream, OtherTypes
<1> QED
  BY <1>1, <1>3, <1>4, <1>5, <1>6, <1>7, <1>8, <1>9

\* remove, whatever came of the request.
LEMMA RemoveKeeps ==
  ASSUME HandleInv, NEW h \in Hosts, RemoveHandle(h)
  PROVE  HandleInv'
<1> USE DEF HandleInv
<1> DEFINE s == arg[h]
<1>1. s \in Held /\ Without(s)
  BY EraseLeaves DEF PhaseInv, RemoveHandle
<1> HIDE DEF s
<1>2. /\ WellFormed' /\ Queued' = Queued \ {s}
      /\ \A q \in Protos : ToSet(queue'[q]) \subseteq ToSet(queue[q])
      /\ \A q \in Protos : queue'[q] # <<>> => queue[q] # <<>>
  BY <1>1, WithoutMeans
<1>3. /\ released' = released \cup {s}
      /\ pc' = [pc EXCEPT ![h] = "idle"] /\ arg' = [arg EXCEPT ![h] = None]
      /\ UNCHANGED <<nvars, lvars, dropped, cleared, polled, stops, accepted,
                     announced, stranded>>
  BY DEF RemoveHandle, Return, s
<1> USE DEF nvars, lvars
<1>4. OtherTypes'
  BY <1>1, <1>3 DEF OtherTypes, Phases, Held
<1>5. PhaseInv' /\ JobInv'
  <2>1. PhaseInv'
    BY <1>1, <1>3 DEF PhaseInv, OtherTypes, Held
  <2>2. JobInv'
    <3>1. pc[h] = "removing"
      BY DEF RemoveHandle
    <3> QED
      BY <1>3, <3>1 DEF JobInv, OtherTypes
  <2> QED
    BY <2>1, <2>2
<1>6. FreshInv' /\ EventInv' /\ PolledInv' /\ QueuedAlive' /\ NoStreamLost'
  <2>1. Queued \subseteq Queued' \cup Held' \cup cleared'
    BY <1>1, <1>2, <1>3 DEF Held
  <2>2. /\ UNCHANGED <<running, open, unborn, jobs, stopped, listener, event, polled,
                       announced, stranded>>
        /\ accepted' = accepted /\ cleared' = cleared /\ Queued' \subseteq Queued
    BY <1>2, <1>3
  <2> QED
    BY <1>2, <2>1, <2>2, QueuesShrink
<1>7. NotHandedAgain'
  BY <1>2, <1>3 DEF NotHandedAgain
<1>8. NoSleeperOnStream'
  <2> SUFFICES ASSUME NEW x \in Hosts, pc'[x] = "waiting", queue'[arg'[x]] # <<>>
               PROVE  listener = "pushed"
    BY <1>3 DEF NoSleeperOnStream
  <2>1. pc[x] = "waiting" /\ arg'[x] = arg[x] /\ arg[x] \in Protos
    BY <1>3 DEF OtherTypes, PhaseInv
  <2>2. queue[arg[x]] # <<>>
    BY <1>2, <2>1
  <2> QED
    BY <2>1, <2>2 DEF NoSleeperOnStream
<1> QED
  BY <1>2, <1>4, <1>5, <1>6, <1>7, <1>8

\* A stop is asked for.
LEMMA StopKeeps ==
  ASSUME HandleInv, NEW h \in Hosts, Stop(h)
  PROVE  HandleInv'
<1> USE DEF HandleInv, Stop, lvars, qvars, kvars, Held
<1>1. WellFormed' /\ Queued' = Queued
  BY QueuesStay
<1>2. (\A x : Asked(x)' = Asked(x)) /\ jobs \subseteq jobs'
  BY DEF Asked
<1>3. OtherTypes'
  <2>1. stops' \in 0 .. MaxStops
    BY CapAssumption DEF OtherTypes
  <2> QED
    BY <2>1 DEF OtherTypes, Phases
<1>4. PhaseInv' /\ JobInv'
  BY DEF PhaseInv, JobInv, OtherTypes
<1>5. FreshInv' /\ EventInv' /\ PolledInv'
  BY <1>1, <1>2 DEF FreshInv, EventInv, PolledInv
<1>6. NotHandedAgain' /\ NoStreamLost' /\ QueuedAlive'
  BY <1>1, <1>2 DEF NotHandedAgain, NoStreamLost, QueuedAlive
<1>7. NoSleeperOnStream'
  BY DEF NoSleeperOnStream, OtherTypes
<1> QED
  BY <1>1, <1>3, <1>4, <1>5, <1>6, <1>7

\* A caller leaves; what it asked for stays asked.
LEMMA TimeoutKeeps ==
  ASSUME HandleInv, NEW h \in Hosts, Timeout(h)
  PROVE  HandleInv'
<1> USE DEF HandleInv, Timeout, lvars, qvars, kvars, Held
<1>1. WellFormed' /\ Queued' = Queued
  BY QueuesStay
<1> DEFINE left(job) == [job EXCEPT !.by = IF @ = h THEN None ELSE @]
<1>2. /\ jobs' = {left(job) : job \in jobs}
      /\ \A job \in jobs : /\ left(job).op = job.op /\ left(job).stream = job.stream
                         /\ left(job).by = IF job.by = h THEN None ELSE job.by
  BY DEF OtherTypes
<1>3. \A job \in jobs : left(job) \in jobs'
  BY <1>2
<1>4. \A x : Asked(x)' = Asked(x)
  <2> HIDE DEF left
  <2>1. ASSUME NEW x, Asked(x) PROVE Asked(x)'
    <3>1. PICK job \in jobs : job.op = "release" /\ job.stream = x
      BY <2>1 DEF Asked
    <3> QED
      BY <1>2, <1>3, <3>1 DEF Asked
  <2>2. ASSUME NEW x, Asked(x)' PROVE Asked(x)
    <3>1. PICK job \in jobs : left(job).op = "release" /\ left(job).stream = x
      BY <1>2, <2>2 DEF Asked
    <3> QED
      BY <1>2, <3>1 DEF Asked
  <2> QED
    BY <2>1, <2>2 DEF Asked
<1>5. OtherTypes'
  BY DEF OtherTypes, Phases
<1>6. PhaseInv'
  BY DEF PhaseInv, OtherTypes
<1>7. JobInv'
  <2> HIDE DEF left
  <2>1. \A job \in jobs : left(job).by \in Hosts => left(job).by = job.by /\ job.by # h
    BY <1>2, NoneAssumption
  <2> QED
    BY <1>2, <2>1 DEF JobInv, OtherTypes
<1>8. FreshInv' /\ EventInv' /\ PolledInv'
  BY <1>1, <1>4 DEF FreshInv, EventInv, PolledInv
<1>9. NotHandedAgain' /\ QueuedAlive' /\ NoSleeperOnStream'
  BY <1>1 DEF NotHandedAgain, QueuedAlive, NoSleeperOnStream, OtherTypes
<1>10. NoStreamLost'
  BY <1>1, <1>4 DEF NoStreamLost, Asked
<1> QED
  BY <1>1, <1>5, <1>6, <1>7, <1>8, <1>9, <1>10

\* releaseAll takes every handle that waits.
LEMMA ReleaseAllKeeps ==
  ASSUME HandleInv, NEW h \in Hosts, ReleaseAll(h)
  PROVE  HandleInv'
<1> USE DEF HandleInv, ReleaseAll, nvars, lvars, kvars, Held, Asked
<1>1. WellFormed' /\ (\A q \in Protos : ToSet(queue'[q]) = {}) /\ Queued' = {}
  <2>1. WellFormed' /\ \A q \in Protos : ToSet(queue'[q]) = {}
    BY ClearLeaves
  <2> QED
    BY <2>1 DEF Queued
<1>2. \A q \in Protos : queue'[q] = <<>>
  OBVIOUS
<1>3. Queued \subseteq Streams
  BY Waiting DEF Queued
<1>4. OtherTypes'
  BY <1>3 DEF OtherTypes, Phases
<1>5. PhaseInv' /\ JobInv'
  BY DEF PhaseInv, JobInv, OtherTypes
<1>6. FreshInv' /\ EventInv' /\ PolledInv' /\ QueuedAlive' /\ NoStreamLost'
  BY <1>1, QueuesShrink
<1>7. NotHandedAgain'
  BY <1>1 DEF NotHandedAgain
<1>8. NoSleeperOnStream'
  BY <1>2 DEF NoSleeperOnStream, OtherTypes, PhaseInv
<1> QED
  BY <1>1, <1>4, <1>5, <1>6, <1>7, <1>8

-----------------------------------------------------------------------------
(* The theorems.                                                           *)

\* The invariant holds at first.
LEMMA InitHolds == Init => IInv
<1> SUFFICES ASSUME Init PROVE IInv
  OBVIOUS
<1> USE DEF Init
<1>1. \A p \in Protos : queue[p] = <<>> /\ ToSet(queue[p]) = {} /\ IsInjective(queue[p])
  BY DEF ToSet, IsInjective
<1>2. WellFormed /\ Queued = {}
  BY <1>1, CapAssumption DEF WellFormed, UniqueInv, Queued
<1>3. OtherTypes
  BY CapAssumption DEF OtherTypes, Phases, NoEvent
<1>4. PhaseInv /\ JobInv
  BY DEF PhaseInv, JobInv
<1>5. FreshInv /\ EventInv
  BY <1>2, NoneAssumption DEF FreshInv, EventInv, Held, Asked, NoEvent
<1>6. PolledInv /\ NotHandedAgain /\ NoStreamLost /\ QueuedAlive /\ NoSleeperOnStream
  BY <1>1, <1>2 DEF PolledInv, NotHandedAgain, NoStreamLost, QueuedAlive,
                    NoSleeperOnStream, Asked
<1>7. OvertakenInv
  BY DEF OvertakenInv
<1> QED
  BY <1>2, <1>3, <1>4, <1>5, <1>6, <1>7 DEF IInv, HandleInv

\* A step gives out no stream, drops none and sends no thread to releaseAll.
Calm ==
    /\ open' \subseteq open /\ UNCHANGED <<unborn, cleared, overtaking>>
    /\ \A h \in Hosts : pc'[h] = "clearing" => pc[h] = "clearing"

LEMMA CalmKeeps == OvertakenInv /\ Calm => OvertakenInv'
  BY DEF OvertakenInv, Calm

\* Every step but a stream opened, a stop answered and a releaseAll is calm.
LEMMA NodeCalm ==
  ASSUME OtherTypes, NEW job \in jobs,
         StreamReleased(job) \/ ReleaseFailed(job) \/ StopFailed(job)
  PROVE  Calm
  BY DEF Calm, StreamReleased, ReleaseFailed, StopFailed, Reply, OtherTypes, qvars

LEMMA ListenerCalm ==
  ASSUME OtherTypes, ListenerStep
  PROVE  Calm
<1>1. CASE Push
  BY <1>1 DEF Push, PushAccepted, PushRefused, Calm, nvars, hvars
<1>2. CASE Notify
  BY <1>2 DEF Notify, Calm, nvars, qvars
<1>3. CASE Announce \/ ReleaseDropped \/ ReleaseDroppedRefused
  BY <1>3 DEF Announce, ReleaseDropped, ReleaseDroppedRefused, Calm, nvars, hvars, qvars
<1> QED
  BY <1>1, <1>2, <1>3 DEF ListenerStep

LEMMA HostCalm ==
  ASSUME OtherTypes, NEW h \in Hosts, HostStep(h), ~ReleaseAll(h)
  PROVE  Calm
<1>1. ASSUME NEW p \in Protos, Accept(h, p) PROVE Calm
  BY <1>1 DEF Accept, Take, Return, Calm, nvars, OtherTypes
<1>2. ASSUME NEW s \in Streams, Release(h, s) \/ ReleaseRefused(h, s) PROVE Calm
  BY <1>2 DEF Release, ReleaseRefused, CallRelease, Calm, qvars, OtherTypes
<1>3. CASE Resume(h)
  BY <1>3 DEF Resume, Take, Return, Calm, nvars, OtherTypes
<1>4. CASE RemoveHandle(h)
  BY <1>4 DEF RemoveHandle, Return, Calm, nvars, OtherTypes
<1>5. CASE Stop(h) \/ Timeout(h)
  BY <1>5 DEF Stop, Timeout, Calm, qvars, OtherTypes
<1> QED
  BY <1>1, <1>2, <1>3, <1>4, <1>5 DEF HostStep

\* What a releaseAll drops while the node is up was opened after its stop.
LEMMA OvertakenKeeps ==
  ASSUME HandleInv, OvertakenInv, [Next]_vars
  PROVE  OvertakenInv'
<1>0. OtherTypes
  BY DEF HandleInv
<1>1. CASE UNCHANGED vars
  BY <1>1 DEF vars, OvertakenInv
<1>2. ASSUME NEW p \in Protos, NEW s \in Streams, Incoming(p, s) PROVE OvertakenInv'
  <2>1. /\ cleared' = cleared /\ pc' = pc /\ open' = open \cup {s}
        /\ unborn' = unborn \ {s}
    BY <1>2 DEF Incoming, qvars, hvars
  <2>2. CASE \E h \in Hosts : pc[h] = "clearing"
    <3>1. overtaking' = overtaking \cup {s} /\ open \subseteq overtaking
      BY <1>2, <2>2 DEF Incoming, OvertakenInv
    <3> QED
      BY <2>1, <3>1 DEF OvertakenInv
  <2>3. CASE ~\E h \in Hosts : pc[h] = "clearing"
    <3>1. overtaking' = overtaking
      BY <1>2, <2>3 DEF Incoming
    <3>2. s \notin cleared
      BY <1>2 DEF Incoming, OvertakenInv
    <3> QED
      BY <2>1, <2>3, <3>1, <3>2 DEF OvertakenInv
  <2> QED
    BY <2>2, <2>3
<1>3. ASSUME NEW job \in jobs, NodeStopped(job) PROVE OvertakenInv'
  <2>1. open' = {} /\ UNCHANGED <<unborn, cleared, overtaking>>
    BY <1>3 DEF NodeStopped, Reply, qvars
  <2> QED
    BY <2>1 DEF OvertakenInv
<1>4. ASSUME NEW h \in Hosts, ReleaseAll(h) PROVE OvertakenInv'
  <2>1. /\ open \subseteq overtaking /\ open' = open
        /\ \A o \in Hosts : pc'[o] = "clearing" => o # h /\ pc[o] = "clearing"
    BY <1>0, <1>4 DEF ReleaseAll, OvertakenInv, OtherTypes, nvars
  <2>2. \/ overtaking' = overtaking
        \/ /\ overtaking' = overtaking \cap cleared'
           /\ ~\E o \in Hosts \ {h} : pc[o] = "clearing"
    BY <1>4 DEF ReleaseAll
  <2>3. cleared' = cleared \cup Queued /\ unborn' = unborn
    BY <1>4 DEF ReleaseAll, nvars
  <2>4. Queued \cap unborn = {}
    BY DEF HandleInv, FreshInv
  <2>5. open' \cap cleared' \subseteq overtaking' /\ overtaking' \subseteq Streams
    BY <2>1, <2>2 DEF OvertakenInv
  <2>6. \A o \in Hosts : pc'[o] = "clearing" => open' \subseteq overtaking'
    BY <2>1, <2>2
  <2> QED
    BY <2>3, <2>4, <2>5, <2>6 DEF OvertakenInv
<1>5. CASE NodeStarted
  BY <1>5 DEF NodeStarted, OvertakenInv, qvars, hvars
<1>6. CASE NodeStep
  BY <1>0, <1>2, <1>3, <1>5, <1>6, NodeCalm, CalmKeeps DEF NodeStep
<1>7. CASE ListenerStep
  BY <1>0, <1>7, ListenerCalm, CalmKeeps
<1>8. ASSUME NEW h \in Hosts, HostStep(h) PROVE OvertakenInv'
  BY <1>0, <1>4, <1>8, HostCalm, CalmKeeps
<1> QED
  BY <1>1, <1>6, <1>7, <1>8 DEF Next

\* Every step keeps the rest of the invariant.
LEMMA StepKeeps == HandleInv /\ [Next]_vars => HandleInv'
<1> SUFFICES ASSUME HandleInv, [Next]_vars PROVE HandleInv'
  OBVIOUS
<1>1. CASE UNCHANGED vars
  <2>1. WellFormed' /\ Queued' = Queued
    BY <1>1, QueuesStay DEF HandleInv, vars
  <2> QED
    BY <1>1, <2>1 DEF HandleInv, vars, OtherTypes, PhaseInv, JobInv, FreshInv, EventInv, PolledInv,
                      NotHandedAgain, NoStreamLost, QueuedAlive, NoSleeperOnStream,
                      Held, Asked
<1>2. CASE NodeStep
  BY <1>2, IncomingKeeps, StreamReleasedKeeps, ReleaseFailedKeeps, NodeStoppedKeeps,
     NodeStartedKeeps DEF NodeStep
<1>3. CASE ListenerStep
  <2>1. CASE Push
    BY <2>1, PushAcceptedKeeps, PushRefusedKeeps DEF Push
  <2> QED
    BY <1>3, <2>1, NotifyKeeps, AnnounceKeeps, ReleaseDroppedKeeps DEF ListenerStep
<1>4. ASSUME NEW h \in Hosts, HostStep(h) PROVE HandleInv'
  BY <1>4, AcceptKeeps, ResumeKeeps, ReleaseKeeps, RemoveKeeps, StopKeeps, TimeoutKeeps,
     ReleaseAllKeeps DEF HostStep
<1> QED
  BY <1>1, <1>2, <1>3, <1>4 DEF Next

\* The inductive invariant holds in every state.
THEOREM IInvInvariant == Spec => []IInv
<1>1. IInv /\ [Next]_vars => IInv'
  BY StepKeeps, OvertakenKeeps DEF IInv, HandleInv
<1> QED
  BY <1>1, InitHolds, PTL DEF Spec

\* Every variable keeps its type, and every queue its cap (stream_queues.cpp:11).
THEOREM TypeCorrect == Spec => []TypeOK
<1>1. IInv => TypeOK
  BY TypeParts DEF IInv, HandleInv
<1> QED
  BY <1>1, IInvInvariant, PTL

\* No handle is handed out twice, or after its release returned (stream_queues.cpp:31, 40).
THEOREM HandOutSafety == Spec => []NotHandedAgain
<1>1. IInv => NotHandedAgain
  BY DEF IInv, HandleInv
<1> QED
  BY <1>1, IInvInvariant, PTL

\* No open stream is forgotten but for a release that failed and for a stop overtaken
\* by a start (callbacks.cpp:159-185, plugin.cpp:319-328).
THEOREM StreamsKept == Spec => []NoStreamForgotten
<1>1. IInv => NoStreamForgotten
  BY DEF IInv, HandleInv, NoStreamLost, OvertakenInv, NoStreamForgotten
<1> QED
  BY <1>1, IInvInvariant, PTL

\* What waits for a host that polls is a stream nobody released (stream.cpp:73-85).
THEOREM AliveSafety == Spec => []QueuedAlive
<1>1. IInv => QueuedAlive
  BY DEF IInv, HandleInv
<1> QED
  BY <1>1, IInvInvariant, PTL

\* No wake-up of a consumer is lost, the notification being outside the mutex
\* (stream_queues.cpp:17, 28).
THEOREM WakeUpSafety == Spec => []NoSleeperOnStream
<1>1. IInv => NoSleeperOnStream
  BY DEF IInv, HandleInv
<1> QED
  BY <1>1, IInvInvariant, PTL

-----------------------------------------------------------------------------
(* The accept queues implement the backlog.                                *)

\* The queues as Backlog sees them.
Depth == [p \in Protos |-> Len(queue[p])]

\* A step that leaves queues and counters alone is a stutter of the backlog.
LEMMA BacklogStutters ==
  ASSUME UNCHANGED <<queue, dropped>>
  PROVE  UNCHANGED BL!bkvars
  BY DEF BL!bkvars

\* A queue one shorter is a Take of the backlog.
LEMMA BacklogTakes ==
  ASSUME WellFormed, NEW p \in Protos, NEW t, Len(t) = Len(queue[p]) - 1,
         Len(queue[p]) \in Nat \ {0}, queue' = [queue EXCEPT ![p] = t], UNCHANGED dropped
  PROVE  BL!Take(p)
<1>1. Depth' = [Depth EXCEPT ![p] = @ - 1]
  BY DEF WellFormed, Depth
<1> QED
  BY <1>1 DEF BL!Take, Depth

\* push is a Queue or a Drop of the backlog.
LEMMA BacklogPushes ==
  ASSUME IInv, Push, NEW p \in Protos, p = event.proto
  PROVE  BL!Queue(p) \/ BL!Drop(p)
<1> DEFINE s == event.stream
<1>1. s \in Streams /\ queue[p] \in Seq(Streams) /\ Cap \in Nat /\ Cap > 0
  BY CapAssumption DEF IInv, HandleInv, Push, EventInv, WellFormed
<1>2. CASE PushAccepted(event.proto, s)
  <2>1. Len(Append(queue[p], s)) = Len(queue[p]) + 1
    BY <1>1
  <2>2. Depth' = [Depth EXCEPT ![p] = @ + 1]
    BY <1>1, <1>2, <2>1 DEF PushAccepted, Depth, IInv, HandleInv, WellFormed
  <2> QED
    BY <1>1, <1>2, <2>2 DEF PushAccepted, BL!Queue, Depth
<1>3. CASE PushRefused(event.proto, s)
  BY <1>1, <1>3 DEF PushRefused, BL!Drop
<1> QED
  BY <1>2, <1>3 DEF Push

\* A handle erased is taken; releaseAll is a Release of the whole backlog.
LEMMA BacklogErases ==
  ASSUME WellFormed, NEW s, Erase(s), UNCHANGED dropped
  PROVE  BL!Next \/ UNCHANGED BL!bkvars
<1>1. CASE UNCHANGED queue
  BY <1>1, BacklogStutters
<1>2. ASSUME NEW p \in Protos, NEW i \in 1 .. Len(queue[p]), queue[p][i] = s,
             queue' = [queue EXCEPT ![p] = RemoveAt(@, i)]
      PROVE  BL!Take(p)
  <2>1. queue[p] \in Seq(Streams) /\ IsInjective(queue[p])
    BY DEF WellFormed, UniqueInv
  <2> DEFINE t == RemoveAt(queue[p], i)
  <2>2. Len(t) = Len(queue[p]) - 1 /\ Len(queue[p]) \in Nat \ {0}
    BY <2>1, Erased
  <2>3. queue' = [queue EXCEPT ![p] = t]
    BY <1>2
  <2> HIDE DEF t
  <2> QED
    BY <2>2, <2>3, BacklogTakes
<1> QED
  BY <1>1, <1>2 DEF Erase, BL!Next

\* A consumer that takes a handle takes it from the backlog.
LEMMA BacklogPops ==
  ASSUME WellFormed, NEW h \in Hosts, NEW p \in Protos, queue[p] # <<>>, Take(h, p),
         UNCHANGED dropped
  PROVE  BL!Take(p)
<1>1. queue[p] \in Seq(Streams) /\ IsInjective(queue[p])
  BY DEF WellFormed, UniqueInv
<1> DEFINE t == Tail(queue[p])
<1>2. Len(t) = Len(queue[p]) - 1 /\ Len(queue[p]) \in Nat \ {0}
  BY <1>1, Taken
<1>3. queue' = [queue EXCEPT ![p] = t]
  BY DEF Take
<1> HIDE DEF t
<1> QED
  BY <1>2, <1>3, BacklogTakes

\* The accept queues implement the bounded backlog the module promises, for any
\* protocols, host threads, streams and cap: no queue past its cap, no stream that did not
\* fit forgotten by the counter (stream_queues.h:24).
THEOREM ImplementsBacklog == Spec => BacklogSpec
<1>1. Init => BL!Init
  BY DEF Init, BL!Init
<1>2. IInv /\ [Next]_vars => [BL!Next]_(BL!bkvars)
  <2> SUFFICES ASSUME IInv, [Next]_vars PROVE BL!Next \/ UNCHANGED BL!bkvars
    OBVIOUS
  <2>0. WellFormed
    BY DEF IInv, HandleInv
  <2>1. CASE UNCHANGED vars
    BY <2>1, BacklogStutters DEF vars
  <2>2. CASE NodeStep
    BY <2>2, BacklogStutters DEF NodeStep, Incoming, StreamReleased, ReleaseFailed,
                                 NodeStopped, StopFailed,
                                 NodeStarted, Reply, qvars
  <2>3. CASE ListenerStep
    <3>1. CASE Push
      <4>1. PICK p \in Protos : p = event.proto
        BY <3>1 DEF Push, IInv, HandleInv, EventInv
      <4>2. BL!Queue(p) \/ BL!Drop(p)
        BY <3>1, <4>1, BacklogPushes
      <4> QED
        BY <4>2 DEF BL!Next
    <3>2. CASE Notify \/ Announce \/ ReleaseDropped \/ ReleaseDroppedRefused
      BY <3>2, BacklogStutters DEF Notify, Announce, ReleaseDropped, ReleaseDroppedRefused, qvars
    <3> QED
      BY <2>3, <3>1, <3>2 DEF ListenerStep
  <2>4. ASSUME NEW h \in Hosts, HostStep(h) PROVE BL!Next \/ UNCHANGED BL!bkvars
    <3>1. ASSUME NEW p \in Protos, Accept(h, p) PROVE BL!Next \/ UNCHANGED BL!bkvars
      BY <2>0, <3>1, BacklogPops, BacklogStutters DEF Accept, BL!Next
    <3>2. CASE Resume(h)
      <4>1. arg[h] \in Protos
        BY <3>2 DEF Resume, IInv, HandleInv, PhaseInv, OtherTypes
      <4> QED
        BY <2>0, <3>2, <4>1, BacklogPops, BacklogStutters DEF Resume, BL!Next
    <3>3. CASE RemoveHandle(h)
      BY <2>0, <3>3, BacklogErases DEF RemoveHandle
    <3>4. CASE ReleaseAll(h)
      <4>1. Depth' = [p \in Protos |-> IF p \in Protos THEN 0 ELSE Depth[p]]
        BY <3>4 DEF ReleaseAll, Depth
      <4>2. BL!Release(Protos)
        BY <3>4, <4>1 DEF ReleaseAll, BL!Release, Depth
      <4> QED
        BY <4>2 DEF BL!Next
    <3>5. CASE Stop(h) \/ Timeout(h) \/ \E s \in Streams : Release(h, s) \/ ReleaseRefused(h, s)
      BY <3>5, BacklogStutters DEF Stop, Timeout, Release, ReleaseRefused, CallRelease, qvars
    <3> QED
      BY <2>4, <3>1, <3>2, <3>3, <3>4, <3>5 DEF HostStep
  <2> QED
    BY <2>1, <2>2, <2>3, <2>4 DEF Next
<1> QED
  BY <1>1, <1>2, IInvInvariant, PTL DEF Spec, BacklogSpec, BL!Spec
=============================================================================
