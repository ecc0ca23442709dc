-------------------------- MODULE TopicQueuesProofs --------------------------
(***************************************************************************)
(* The safety of the topic backlog, for any topics, consumers, bounds and  *)
(* payload sizes.                                                          *)
(***************************************************************************)
EXTENDS TopicQueues, WellFoundedInduction, TLAPS

Queued == <<messages, bytes, entries, dropped, arrived, taken, lastOut, poured>>

\* The parts of TypeOK that the queues make up.
QueueTypes ==
    /\ entries \subseteq Topics
    /\ messages \in [Topics -> Seq(Message)]
    /\ bytes \in [Topics -> Nat] /\ dropped \in [Topics -> Nat]
    /\ arrived \in [Topics -> Nat] /\ taken \in [Topics -> Nat]
    /\ lastOut \in [Topics -> Nat] /\ poured \in [Topics -> Nat]

ConsumerTypes ==
    /\ pc \in [Consumers -> {"idle", "waiting", "woken"}]
    /\ topic \in [Consumers -> Topics] /\ expired \in [Consumers -> BOOLEAN]

BoundTypes ==
    /\ maxMessages \in MessageBounds /\ maxBytes \in ByteBounds
    /\ listening \in BOOLEAN

\* The type invariant, split by the variables a step moves together.
LEMMA TypeParts == TypeOK <=> QueueTypes /\ ConsumerTypes /\ BoundTypes
  BY DEF TypeOK, QueueTypes, ConsumerTypes, BoundTypes

-----------------------------------------------------------------------------
\* A set of naturals has a least element: what the induction over a queue rests on.
LEMMA Least ==
  ASSUME NEW T \in SUBSET Nat, T # {}
  PROVE  \E m \in T : \A k \in T : m <= k
<1> DEFINE R == {ss \in Nat \X Nat : ss[1] < ss[2]}
<1>1. IsWellFoundedOn(R, Nat)
  BY NatLessThanWellFounded DEF OpToRel
<1> HIDE DEF R
<1>2. PICK m \in T : \A y \in T : ~(<<y, m>> \in R)
  BY <1>1, WFMin
<1>3. \A y \in T : ~(y < m)
  BY <1>2 DEF R
<1> QED
  BY <1>3

-----------------------------------------------------------------------------
(* Three facts about sequences of messages.                                *)

\* What is at a place of a queue is a message.
LEMMA ElementFacts ==
  ASSUME NEW s \in Seq(Message), NEW i \in 1 .. Len(s)
  PROVE  s[i] \in Message /\ s[i].seq \in Nat /\ s[i].size \in Nat /\ s[i].end \in Nat
<1>1. s[i] \in Message
  OBVIOUS
<1> QED
  BY <1>1, BoundsAssumption DEF Message

\* A queue one longer: its length, its type, and what is at each place.
LEMMA AppendFacts ==
  ASSUME NEW s \in Seq(Message), NEW m \in Message
  PROVE  /\ Append(s, m) \in Seq(Message)
         /\ Len(Append(s, m)) = Len(s) + 1
         /\ \A i \in 1 .. Len(s) : Append(s, m)[i] = s[i]
         /\ Append(s, m)[Len(s) + 1] = m
         /\ Append(s, m) # <<>>
  OBVIOUS

\* A queue without its front: its length, its type, and what is at each place.
LEMMA TailFacts ==
  ASSUME NEW s \in Seq(Message), s # <<>>
  PROVE  /\ Tail(s) \in Seq(Message)
         /\ Len(s) \in Nat \ {0} /\ Len(Tail(s)) = Len(s) - 1
         /\ \A i \in 1 .. Len(Tail(s)) : Tail(s)[i] = s[i + 1]
         /\ Head(s) = s[1] /\ Head(s) \in Message
  OBVIOUS

-----------------------------------------------------------------------------
(* What taking the front of a queue leaves.                                *)

\* Taking the front keeps the types: the bytes of a message that is queued were
\* counted, so giving them back does not go below zero (topic_queues.cpp:44).
LEMMA TakeTypes ==
  ASSUME QueueTypes, ContiguousInv, NEW x \in Topics, Ready(x), Take(x)
  PROVE  QueueTypes'
<1> DEFINE s == messages[x]
<1>1. s \in Seq(Message) /\ s # <<>>
  BY DEF QueueTypes, Ready
<1>2. /\ Tail(s) \in Seq(Message) /\ Len(s) \in Nat \ {0} /\ Head(s) = s[1]
      /\ 1 \in 1 .. Len(s)
  BY <1>1, TailFacts
<1>3. s[1].seq \in Nat /\ s[1].size \in Nat /\ s[1].end \in Nat
  BY <1>1, <1>2, ElementFacts
<1>4. bytes[x] \in Nat /\ poured[x] \in Nat
  BY DEF QueueTypes
<1>5. bytes[x] - s[1].size \in Nat
  <2>1. bytes[x] = poured[x] - s[1].end + s[1].size /\ s[1].end <= poured[x]
    BY <1>1, <1>2 DEF ContiguousInv, Contiguous
  <2> HIDE DEF s
  <2> QED
    BY <2>1, <1>3, <1>4
<1> HIDE DEF s
<1>6. /\ messages' = [messages EXCEPT ![x] = Tail(s)]
      /\ bytes' = [bytes EXCEPT ![x] = bytes[x] - s[1].size]
      /\ lastOut' = [lastOut EXCEPT ![x] = s[1].seq]
      /\ taken' = [taken EXCEPT ![x] = taken[x] + 1]
      /\ UNCHANGED <<entries, dropped, arrived, poured>>
  BY <1>2 DEF s, Take
<1>7. messages' \in [Topics -> Seq(Message)]
  BY <1>2, <1>6 DEF QueueTypes
<1>8. bytes' \in [Topics -> Nat] /\ lastOut' \in [Topics -> Nat]
  BY <1>3, <1>5, <1>6 DEF QueueTypes
<1>9. taken' \in [Topics -> Nat]
  BY <1>6 DEF QueueTypes
<1> QED
  BY <1>6, <1>7, <1>8, <1>9 DEF QueueTypes

\* Taking the front leaves every queue within its bounds.
LEMMA TakeBounded ==
  ASSUME TypeOK, Bounded, NEW x \in Topics, Ready(x), Take(x),
         UNCHANGED <<maxMessages, maxBytes>>
  PROVE  Bounded'
<1>1. /\ Len(Tail(messages[x])) = Len(messages[x]) - 1
      /\ Len(messages[x]) \in Nat /\ Head(messages[x]) \in Message
  BY TailFacts DEF TypeOK, Ready
<1>a. Head(messages[x]).size \in Nat
  BY <1>1, BoundsAssumption DEF Message
<1>2. maxMessages \in Nat /\ maxBytes \in Nat
  BY BoundsAssumption DEF TypeOK
<1>3. bytes'[x] <= maxBytes' /\ Len(messages'[x]) <= maxMessages'
  BY <1>1, <1>2, <1>a DEF TypeOK, Bounded, Take
<1>4. \A y \in Topics \ {x} : messages'[y] = messages[y] /\ bytes'[y] = bytes[y]
  BY DEF TypeOK, Take
<1> QED
  BY <1>3, <1>4 DEF Bounded, Ready, Take

\* Taking the front leaves newer messages behind, in order.
LEMMA TakeOrdered ==
  ASSUME TypeOK, Ordered, NEW x \in Topics, Ready(x), Take(x)
  PROVE  Ordered'
<1> DEFINE s == messages[x]
           t == Tail(s)
<1>1. /\ s \in Seq(Message) /\ Len(s) \in Nat \ {0} /\ Len(t) = Len(s) - 1
      /\ \A i \in 1 .. Len(t) : t[i] = s[i + 1]
      /\ Head(s) = s[1]
  BY TailFacts DEF TypeOK, Ready
<1>2. messages'[x] = t /\ lastOut'[x] = s[1].seq /\ arrived'[x] = arrived[x]
  BY <1>1 DEF TypeOK, Take
<1>3. \A i \in 1 .. Len(t) : /\ i + 1 \in 1 .. Len(s) /\ 1 \in 1 .. Len(s)
                             /\ 1 < i + 1
  BY <1>1
<1>4. /\ s[1].seq <= arrived[x]
      /\ \A i \in 1 .. Len(t) : s[1].seq < t[i].seq /\ t[i].seq <= arrived[x]
  BY <1>1, <1>3 DEF Ordered
<1>5. \A i, j \in 1 .. Len(t) : i < j => t[i].seq < t[j].seq
  <2> SUFFICES ASSUME NEW i \in 1 .. Len(t), NEW j \in 1 .. Len(t), i < j
               PROVE  s[i + 1].seq < s[j + 1].seq
    BY <1>1
  <2> QED
    BY <1>3 DEF Ordered
<1>6. \A y \in Topics \ {x} : /\ messages'[y] = messages[y]
                              /\ lastOut'[y] = lastOut[y]
                              /\ arrived'[y] = arrived[y]
  BY DEF TypeOK, Take
<1> HIDE DEF s, t
<1>7. \A y \in Topics :
        /\ lastOut'[y] <= arrived'[y]
        /\ \A i \in 1 .. Len(messages'[y]) :
             lastOut'[y] < messages'[y][i].seq /\ messages'[y][i].seq <= arrived'[y]
        /\ \A i, j \in 1 .. Len(messages'[y]) :
             i < j => messages'[y][i].seq < messages'[y][j].seq
  <2> TAKE y \in Topics
  <2>1. CASE y = x
    BY <2>1, <1>2, <1>4, <1>5
  <2>2. CASE y # x
    BY <2>2, <1>6 DEF Ordered
  <2> QED
    BY <2>1, <2>2
<1> QED
  BY <1>7 DEF Ordered

\* Taking the front leaves the byte count at what the rest spans.
LEMMA TakeContiguous ==
  ASSUME TypeOK, ContiguousInv, NEW x \in Topics, Ready(x), Take(x)
  PROVE  ContiguousInv'
<1> DEFINE s == messages[x]
           t == Tail(s)
           n == Len(s)
<1>1. /\ s \in Seq(Message) /\ s # <<>> /\ n \in Nat \ {0} /\ Len(t) = n - 1
      /\ \A i \in 1 .. Len(t) : t[i] = s[i + 1]
      /\ Head(s) = s[1] /\ t \in Seq(Message)
  BY TailFacts DEF TypeOK, Ready
<1>2. /\ messages'[x] = t /\ bytes'[x] = bytes[x] - s[1].size
      /\ poured' = poured /\ poured[x] \in Nat /\ bytes[x] \in Nat
  BY <1>1 DEF TypeOK, Take
<1>3. \A i \in 1 .. n : s[i].size \in Nat /\ s[i].end \in Nat
  BY <1>1, ElementFacts
<1>4. /\ bytes[x] = poured[x] - s[1].end + s[1].size
      /\ s[n].end = poured[x]
      /\ \A i \in 1 .. n : s[i].end <= poured[x]
      /\ \A i, j \in 1 .. n : j = i + 1 => s[j].end = s[i].end + s[j].size
  BY <1>1 DEF ContiguousInv, Contiguous
<1>5. \A y \in Topics \ {x} : messages'[y] = messages[y] /\ bytes'[y] = bytes[y]
  BY DEF TypeOK, Take
<1> HIDE DEF s, t, n
<1>6. /\ t = <<>> => bytes'[x] = 0
      /\ t # <<>> => /\ bytes'[x] = poured[x] - t[1].end + t[1].size
                     /\ t[Len(t)].end = poured[x]
  <2>1. CASE t = <<>>
    <3>1. n = 1
      BY <1>1, <2>1
    <3> QED
      BY <3>1, <1>2, <1>3, <1>4, <2>1
  <2>2. CASE t # <<>>
    <3>1. Len(t) \in 1 .. Len(t) /\ 1 \in 1 .. Len(t) /\ n >= 2
      BY <1>1, <2>2
    <3>2. t[1] = s[2] /\ t[Len(t)] = s[n] /\ 2 \in 1 .. n /\ 1 \in 1 .. n
      BY <3>1, <1>1
    <3>3. s[2].end = s[1].end + s[2].size
      BY <3>2, <1>4
    <3>4. /\ s[1].end \in Nat /\ s[1].size \in Nat
          /\ s[2].end \in Nat /\ s[2].size \in Nat
      BY <3>2, <1>3
    <3>5. /\ bytes'[x] = bytes[x] - s[1].size
          /\ bytes[x] = poured[x] - s[1].end + s[1].size
          /\ poured[x] \in Nat /\ bytes[x] \in Nat
      BY <1>2, <1>4
    <3>6. bytes'[x] = poured[x] - t[1].end + t[1].size
      <4>1. t[1].end = s[2].end /\ t[1].size = s[2].size
        BY <3>2
      <4> DEFINE e1 == s[1].end
                 z1 == s[1].size
                 e2 == s[2].end
                 z2 == s[2].size
                 b == bytes[x]
                 q == poured[x]
      <4>2. b = q - e1 + z1 /\ e2 = e1 + z2
        BY <3>3, <3>5
      <4>3. e1 \in Nat /\ z1 \in Nat /\ e2 \in Nat /\ z2 \in Nat /\ q \in Nat
        BY <3>4, <3>5
      <4> HIDE DEF e1, z1, e2, z2, b, q
      <4>4. b - z1 = q - e2 + z2
        BY <4>2, <4>3
      <4> QED
        BY <4>1, <4>4, <3>5 DEF e1, z1, e2, z2, b, q
    <3>7. t[Len(t)].end = poured[x]
      <4>1. s[n].end = poured[x]
        BY <1>4
      <4> QED
        BY <4>1, <3>2
    <3> QED
      BY <3>6, <3>7, <2>2
  <2> QED
    BY <2>1, <2>2
<1>7. \A i \in 1 .. Len(t) : t[i].end <= poured[x]
  <2> TAKE i \in 1 .. Len(t)
  <2>1. i + 1 \in 1 .. n /\ t[i] = s[i + 1]
    BY <1>1
  <2> QED
    BY <2>1, <1>4
<1>8. \A i, j \in 1 .. Len(t) : j = i + 1 => t[j].end = t[i].end + t[j].size
  <2> SUFFICES ASSUME NEW i \in 1 .. Len(t), NEW j \in 1 .. Len(t), j = i + 1
               PROVE  t[j].end = t[i].end + t[j].size
    OBVIOUS
  <2>1. /\ i + 1 \in 1 .. n /\ j + 1 \in 1 .. n /\ j + 1 = (i + 1) + 1
        /\ t[i] = s[i + 1] /\ t[j] = s[j + 1]
    BY <1>1
  <2> QED
    BY <2>1, <1>4
<1>9. Contiguous(t, bytes'[x], poured[x])
  BY <1>6, <1>7, <1>8 DEF Contiguous
<1> QED
  BY <1>2, <1>5, <1>9 DEF ContiguousInv

\* A consumer that takes sleeps no more, and wakes nobody else.
LEMMA TakeNoSleeper ==
  ASSUME TypeOK, NoSleeperOnMessage, NEW x \in Topics, Ready(x), Take(x),
         \A c \in Consumers : pc'[c] = "waiting" => pc[c] = "waiting" /\ topic'[c] = topic[c]
  PROVE  NoSleeperOnMessage'
<1>1. \A y \in Topics : Ready(y)' => Ready(y)
  BY DEF TypeOK, Take, Ready
<1> QED
  BY <1>1 DEF NoSleeperOnMessage, TypeOK

-----------------------------------------------------------------------------
\* A queue that is untouched, under bounds that are, keeps all of it.
LEMMA QueuesUntouched ==
  ASSUME QuietInv, Bounded, Ordered, ContiguousInv,
         UNCHANGED <<Queued, maxMessages, maxBytes, listening>>
  PROVE  QuietInv' /\ Bounded' /\ Ordered' /\ ContiguousInv'
  BY DEF Queued, QuietInv, Bounded, Ordered, ContiguousInv

\* The invariant holds of the empty queues.
LEMMA InitIInv == Init => IInv
<1> SUFFICES ASSUME Init PROVE IInv
  OBVIOUS
<1>1. QueueTypes
  <2>1. <<>> \in Seq(Message)
    OBVIOUS
  <2> QED
    BY <2>1 DEF Init, QueueTypes
<1>2. ConsumerTypes /\ BoundTypes
  BY DEF Init, ConsumerTypes, BoundTypes
<1>3. maxMessages \in Nat /\ maxBytes \in Nat
  BY BoundsAssumption DEF Init
<1>4. \A x \in Topics : /\ messages[x] = <<>> /\ bytes[x] = 0 /\ dropped[x] = 0
                        /\ lastOut[x] = 0 /\ arrived[x] = 0
                        /\ Len(messages[x]) = 0
  BY DEF Init
<1>5. QuietInv /\ NoSleeperOnMessage /\ Bounded
  BY <1>3, <1>4 DEF Init, QuietInv, NoSleeperOnMessage, Bounded
<1>6. Ordered /\ ContiguousInv
  BY <1>4 DEF Ordered, ContiguousInv, Contiguous
<1> QED
  BY <1>1, <1>2, <1>5, <1>6, TypeParts DEF IInv

\* setBounds and the start of the listening, when nothing is queued yet.
LEMMA ConfigureStep ==
  ASSUME IInv, SetBounds \/ Listen
  PROVE  IInv'
<1> USE DEF IInv, qvars, cvars, hvars
<1>1. TypeOK'
  BY DEF SetBounds, Listen, TypeOK
<1>2. QuietInv' /\ Ordered' /\ ContiguousInv'
  BY DEF SetBounds, Listen, QuietInv, Ordered, ContiguousInv
<1>3. NoSleeperOnMessage'
  BY DEF SetBounds, Listen, NoSleeperOnMessage, Ready
<1>4. Bounded'
  <2>1. CASE SetBounds
    <3>1. maxMessages' \in Nat /\ maxBytes' \in Nat
      BY <1>1, BoundsAssumption DEF TypeOK
    <3>2. \A y \in Topics : messages[y] = <<>> /\ Len(messages[y]) = 0 /\ bytes[y] = 0
      BY <2>1 DEF SetBounds, QuietInv
    <3> QED
      BY <2>1, <3>1, <3>2 DEF SetBounds, Bounded
  <2>2. CASE Listen
    BY <2>2 DEF Listen, Bounded
  <2> QED
    BY <2>1, <2>2
<1> QED
  BY <1>1, <1>2, <1>3, <1>4

\* More arrivals than there were keep a queue that is otherwise untouched in order.
LEMMA ArriveOrdered ==
  ASSUME TypeOK, Ordered, NEW x \in Topics, Arrive(x), UNCHANGED <<messages, lastOut>>
  PROVE  Ordered'
<1>1. \A y \in Topics : /\ arrived[y] \in Nat /\ arrived'[y] \in Nat
                        /\ arrived[y] <= arrived'[y] /\ lastOut[y] \in Nat
                        /\ messages[y] \in Seq(Message)
  BY DEF TypeOK, Arrive
<1>2. \A y \in Topics : \A i \in 1 .. Len(messages[y]) : messages[y][i].seq \in Nat
  BY <1>1, ElementFacts
<1> QED
  BY <1>1, <1>2 DEF Ordered

\* A push that finds the backlog disabled.
LEMMA PushDisabledStep ==
  ASSUME IInv, NEW x \in Topics, PushDisabled(x)
  PROVE  IInv'
<1> USE DEF IInv, qvars, bvars, cvars, PushDisabled
<1>1. TypeOK'
  BY DEF TypeOK, Arrive
<1>2. QuietInv' /\ Bounded' /\ NoSleeperOnMessage' /\ ContiguousInv'
  BY DEF QuietInv, Bounded, NoSleeperOnMessage, Ready, ContiguousInv
<1> QED
  BY <1>1, <1>2, ArriveOrdered

\* A push over a bound.
LEMMA PushDroppedStep ==
  ASSUME IInv, NEW x \in Topics, NEW n \in Sizes, PushDropped(x, n)
  PROVE  IInv'
<1> USE DEF IInv, bvars, cvars, PushDropped
<1>1. TypeOK'
  <2>1. arrived' \in [Topics -> Nat] /\ dropped' \in [Topics -> Nat]
    BY DEF TypeOK, Arrive
  <2> QED
    BY <2>1 DEF TypeOK
<1>2. QuietInv' /\ ContiguousInv'
  BY DEF QuietInv, ContiguousInv
<1>3. Bounded'
  BY DEF Bounded, TypeOK
<1>4. NoSleeperOnMessage'
  BY DEF NoSleeperOnMessage, Ready, Bounded, TypeOK
<1> QED
  BY <1>1, <1>2, <1>3, <1>4, ArriveOrdered

\* A push that queues: the bounds leave room for it, and every waiter is woken.
LEMMA PushAcceptedStep ==
  ASSUME IInv, NEW x \in Topics, NEW n \in Sizes, PushAccepted(x, n)
  PROVE  IInv'
<1> USE DEF IInv
<1> DEFINE s == messages[x]
           m == [seq |-> arrived'[x], size |-> n, end |-> poured'[x]]
           t == Append(s, m)
<1>1. /\ arrived' \in [Topics -> Nat] /\ arrived'[x] = arrived[x] + 1
      /\ \A y \in Topics \ {x} : arrived'[y] = arrived[y]
  BY DEF TypeOK, PushAccepted, Arrive
<1>2. /\ n \in Nat /\ poured' \in [Topics -> Nat] /\ poured'[x] = poured[x] + n
      /\ \A y \in Topics \ {x} : poured'[y] = poured[y]
      /\ bytes' \in [Topics -> Nat] /\ bytes'[x] = bytes[x] + n
      /\ \A y \in Topics \ {x} : bytes'[y] = bytes[y]
  BY BoundsAssumption DEF TypeOK, PushAccepted, Queue
<1>3. s \in Seq(Message) /\ m \in Message /\ Len(s) \in Nat
  <2>1. arrived'[x] \in Nat /\ poured'[x] \in Nat
    BY <1>1, <1>2
  <2>2. m \in Message
    BY <2>1 DEF Message
  <2> QED
    BY <2>2 DEF TypeOK
<1>4. /\ t \in Seq(Message) /\ Len(t) = Len(s) + 1 /\ t[Len(s) + 1] = m
      /\ \A i \in 1 .. Len(s) : t[i] = s[i]
      /\ t # <<>>
  BY <1>3, AppendFacts
<1>5. /\ messages' = [messages EXCEPT ![x] = t] /\ messages'[x] = t
      /\ \A y \in Topics \ {x} : messages'[y] = messages[y]
  BY DEF PushAccepted, Queue, TypeOK
<1>6. TypeOK'
  <2>1. messages' \in [Topics -> Seq(Message)]
    BY <1>4, <1>5 DEF TypeOK
  <2> QED
    BY <1>1, <1>2, <2>1 DEF TypeOK, PushAccepted, NotifyAll, bvars
<1>7. QuietInv'
  BY DEF QuietInv, PushAccepted, Arrive, bvars
<1>8. Bounded'
  <2>1. Len(s) < maxMessages /\ n <= maxBytes /\ bytes[x] <= maxBytes - n
    BY BoundsAssumption DEF PushAccepted, ExceedsByteBound, TypeOK
  <2>2. bytes'[x] <= maxBytes /\ Len(t) <= maxMessages
    BY <1>2, <1>3, <1>4, <2>1, BoundsAssumption, SMTT(20) DEF TypeOK
  <2> QED
    BY <1>2, <1>5, <2>2 DEF Bounded, PushAccepted, TypeOK, bvars
<1>9. \A i \in 1 .. Len(s) : s[i].seq \in Nat /\ s[i].size \in Nat /\ s[i].end \in Nat
  BY <1>3, ElementFacts
<1>10. /\ m.seq = arrived[x] + 1 /\ m.size = n /\ m.end = poured[x] + n
       /\ arrived[x] \in Nat /\ poured[x] \in Nat /\ bytes[x] \in Nat
       /\ lastOut[x] \in Nat /\ lastOut' = lastOut
  BY <1>1, <1>2 DEF TypeOK, PushAccepted
<1> HIDE DEF s, m, t
<1>11. Ordered'
  <2>1. /\ lastOut[x] <= arrived[x]
        /\ \A i \in 1 .. Len(s) : lastOut[x] < s[i].seq /\ s[i].seq <= arrived[x]
        /\ \A i, j \in 1 .. Len(s) : i < j => s[i].seq < s[j].seq
    BY DEF Ordered, s
  <2>2. \A i \in 1 .. Len(t) : lastOut[x] < t[i].seq /\ t[i].seq <= arrived[x] + 1
    BY <2>1, <1>3, <1>4, <1>9, <1>10
  <2>3. \A i, j \in 1 .. Len(t) : i < j => t[i].seq < t[j].seq
    <3> SUFFICES ASSUME NEW i \in 1 .. Len(t), NEW j \in 1 .. Len(t), i < j
                 PROVE  t[i].seq < t[j].seq
      OBVIOUS
    <3>1. i \in 1 .. Len(s) /\ t[i] = s[i]
      BY <1>3, <1>4
    <3>2. CASE j = Len(s) + 1
      BY <3>1, <3>2, <2>1, <1>4, <1>9, <1>10
    <3>3. CASE j \in 1 .. Len(s)
      BY <3>1, <3>3, <2>1, <1>4
    <3> QED
      BY <3>2, <3>3, <1>3, <1>4
  <2>4. \A y \in Topics :
          /\ lastOut'[y] <= arrived'[y]
          /\ \A i \in 1 .. Len(messages'[y]) :
               lastOut'[y] < messages'[y][i].seq /\ messages'[y][i].seq <= arrived'[y]
          /\ \A i, j \in 1 .. Len(messages'[y]) :
               i < j => messages'[y][i].seq < messages'[y][j].seq
    <3> TAKE y \in Topics
    <3>1. CASE y = x
      BY <3>1, <2>1, <2>2, <2>3, <1>1, <1>5, <1>10
    <3>2. CASE y # x
      <4>1. /\ arrived'[y] = arrived[y] /\ messages'[y] = messages[y]
            /\ lastOut'[y] = lastOut[y]
        BY <3>2, <1>1, <1>5, <1>10
      <4>2. Ordered
        OBVIOUS
      <4> HIDE DEF IInv
      <4> QED
        BY <4>1, <4>2 DEF Ordered
    <3> QED
      BY <3>1, <3>2
  <2> QED
    BY <2>4 DEF Ordered
<1>12. ContiguousInv'
  <2>1. /\ s = <<>> => bytes[x] = 0
        /\ s # <<>> => /\ bytes[x] = poured[x] - s[1].end + s[1].size
                       /\ s[Len(s)].end = poured[x]
        /\ \A i \in 1 .. Len(s) : s[i].end <= poured[x]
        /\ \A i, j \in 1 .. Len(s) : j = i + 1 => s[j].end = s[i].end + s[j].size
    BY DEF ContiguousInv, Contiguous, s
  <2>7. n \in Nat /\ bytes'[x] = bytes[x] + n /\ poured'[x] = poured[x] + n
    BY <1>2
  <2>2. bytes'[x] = poured'[x] - t[1].end + t[1].size
    <3>1. CASE s = <<>>
      <4>1. Len(s) = 0 /\ t[1] = m
        BY <3>1, <1>4
      <4> QED
        BY <4>1, <3>1, <2>1, <2>7, <1>10
    <3>2. CASE s # <<>>
      <4>1. 1 \in 1 .. Len(s) /\ t[1] = s[1]
        BY <3>2, <1>3, <1>4
      <4> QED
        <5>1. /\ bytes[x] = poured[x] - s[1].end + s[1].size
              /\ s[1].end \in Nat /\ s[1].size \in Nat
          BY <4>1, <3>2, <2>1, <1>9
        <5> QED
          BY <5>1, <4>1, <2>7, <1>10, SMTT(20)
    <3> QED
      BY <3>1, <3>2
  <2>3. t[Len(t)].end = poured'[x]
    BY <1>2, <1>4, <1>10
  <2>4. \A i \in 1 .. Len(t) : t[i].end <= poured'[x]
    <3> TAKE i \in 1 .. Len(t)
    <3>1. CASE i \in 1 .. Len(s)
      <4>1. s[i].end <= poured[x] /\ s[i].end \in Nat /\ t[i] = s[i]
        BY <3>1, <2>1, <1>4, <1>9
      <4> QED
        BY <4>1, <2>7, <1>10
    <3>2. CASE i = Len(s) + 1
      BY <3>2, <2>7, <1>4, <1>10
    <3> QED
      BY <3>1, <3>2, <1>3, <1>4
  <2>6. \A i, j \in 1 .. Len(t) : j = i + 1 => t[j].end = t[i].end + t[j].size
    <3> SUFFICES ASSUME NEW i \in 1 .. Len(t), NEW j \in 1 .. Len(t), j = i + 1
                 PROVE  t[j].end = t[i].end + t[j].size
      OBVIOUS
    <3>1. i \in 1 .. Len(s) /\ t[i] = s[i]
      BY <1>3, <1>4
    <3>2. CASE j \in 1 .. Len(s)
      BY <3>1, <3>2, <2>1, <1>4
    <3>3. CASE j = Len(s) + 1
      <4>1. i = Len(s) /\ s # <<>> /\ t[j] = m
        BY <3>1, <3>3, <1>3, <1>4
      <4> QED
        BY <4>1, <3>1, <2>1, <1>10
    <3> QED
      BY <3>2, <3>3, <1>3, <1>4
  <2>5. \A y \in Topics \ {x} : /\ messages'[y] = messages[y]
                                /\ bytes'[y] = bytes[y] /\ poured'[y] = poured[y]
    BY <1>2, <1>5
  <2>8. Contiguous(t, bytes'[x], poured'[x])
    BY <2>2, <2>3, <2>4, <2>6, <1>4 DEF Contiguous
  <2> QED
    BY <2>8, <2>5, <1>5 DEF ContiguousInv
<1>13. NoSleeperOnMessage'
  BY DEF NoSleeperOnMessage, PushAccepted, NotifyAll, TypeOK
<1> QED
  BY <1>6, <1>7, <1>8, <1>11, <1>12, <1>13

-----------------------------------------------------------------------------
(* The consumers.                                                          *)

\* A consumer with a payload in reach takes it, and is idle afterwards.
LEMMA TakeStep ==
  ASSUME IInv, NEW x \in Topics, Ready(x), Take(x), ConsumerTypes',
         UNCHANGED bvars,
         \A c \in Consumers : pc'[c] = "waiting" => pc[c] = "waiting" /\ topic'[c] = topic[c]
  PROVE  IInv'
<1> USE DEF IInv, bvars
<1>1. TypeOK'
  <2>1. BoundTypes'
    BY DEF BoundTypes, TypeOK
  <2>2. QueueTypes'
    BY TakeTypes, TypeParts
  <2> QED
    BY <2>1, <2>2 DEF TypeOK, QueueTypes, ConsumerTypes, BoundTypes
<1>2. QuietInv'
  BY DEF QuietInv, Ready
<1> QED
  BY <1>1, <1>2, TakeBounded, TakeOrdered, TakeContiguous, TakeNoSleeper

\* Consumers move; the queues and their bounds are as they were.
LEMMA WaitStep ==
  ASSUME IInv, ConsumerTypes', NoSleeperOnMessage', UNCHANGED <<bvars, qvars, hvars>>
  PROVE  IInv'
<1> USE DEF IInv, bvars, qvars, hvars
<1>1. TypeOK'
  <2>1. BoundTypes' /\ QueueTypes'
    BY DEF BoundTypes, QueueTypes, TypeOK
  <2> QED
    BY <2>1 DEF TypeOK, QueueTypes, ConsumerTypes, BoundTypes
<1>2. QuietInv' /\ Bounded' /\ Ordered' /\ ContiguousInv'
  BY QueuesUntouched DEF Queued
<1> QED
  BY <1>1, <1>2

\* A pop that finds a payload, or goes to sleep on a topic without one.
LEMMA PopStep ==
  ASSUME IInv, NEW c \in Consumers, NEW x \in Topics, Pop(c, x)
  PROVE  IInv'
<1>1. ConsumerTypes'
  BY DEF IInv, TypeOK, ConsumerTypes, Pop
<1>2. \A d \in Consumers : d # c => pc'[d] = pc[d] /\ topic'[d] = topic[d]
  BY DEF IInv, TypeOK, Pop
<1>3. CASE Ready(x)
  <2>1. Take(x) /\ UNCHANGED <<bvars, pc>> /\ pc[c] = "idle"
    BY <1>3 DEF Pop
  <2> QED
    BY <1>1, <1>2, <1>3, <2>1, TakeStep
<1>4. CASE ~Ready(x)
  <2>1. UNCHANGED <<bvars, qvars, hvars>> /\ topic'[c] = x
    BY <1>4 DEF Pop, IInv, TypeOK
  <2>2. NoSleeperOnMessage'
    BY <1>2, <1>4, <2>1 DEF NoSleeperOnMessage, IInv, Ready, qvars
  <2> QED
    BY <1>1, <2>1, <2>2, WaitStep
<1> QED
  BY <1>3, <1>4

\* A deadline that passes.
LEMMA ExpireStep ==
  ASSUME IInv, NEW c \in Consumers, Expire(c)
  PROVE  IInv'
<1>1. ConsumerTypes'
  BY DEF IInv, TypeOK, ConsumerTypes, Expire
<1>2. NoSleeperOnMessage'
  BY DEF IInv, NoSleeperOnMessage, Expire, Ready, qvars
<1> QED
  BY <1>1, <1>2, WaitStep DEF Expire

\* A consumer that looks again: it takes, gives up, or goes back to sleep.
LEMMA ResumeStep ==
  ASSUME IInv, NEW c \in Consumers, Resume(c)
  PROVE  IInv'
<1>1. ConsumerTypes' /\ topic[c] \in Topics
  BY DEF IInv, TypeOK, ConsumerTypes, Resume
<1>2. \A d \in Consumers : /\ topic'[d] = topic[d]
                           /\ d # c => pc'[d] = pc[d]
  BY DEF IInv, TypeOK, Resume
<1>3. CASE Ready(topic[c])
  <2>1. Take(topic[c]) /\ UNCHANGED bvars /\ pc'[c] = "idle"
    BY <1>3 DEF Resume, IInv, TypeOK
  <2> QED
    BY <1>1, <1>2, <1>3, <2>1, TakeStep
<1>4. CASE ~Ready(topic[c])
  <2>1. UNCHANGED <<bvars, qvars, hvars>>
    BY <1>4 DEF Resume
  <2>2. NoSleeperOnMessage'
    BY <1>2, <1>4, <2>1 DEF NoSleeperOnMessage, IInv, Ready, qvars
  <2> QED
    BY <1>1, <2>1, <2>2, WaitStep
<1> QED
  BY <1>3, <1>4

\* A release of one topic or of all of them.
LEMMA RetireStep ==
  ASSUME IInv, NEW S \in SUBSET Topics, Retire(S)
  PROVE  IInv'
<1> USE DEF IInv, Retire, bvars, cvars
<1>1. \A x \in Topics :
        /\ x \in S => messages'[x] = <<>> /\ Len(messages'[x]) = 0 /\ bytes'[x] = 0
        /\ x \notin S => messages'[x] = messages[x] /\ bytes'[x] = bytes[x]
        /\ dropped'[x] = dropped[x]
        /\ x \in entries' => x \in entries
        /\ x \in entries /\ x \notin entries' => x \in S /\ dropped[x] = 0
  OBVIOUS
<1>2. TypeOK'
  <2>1. messages' \in [Topics -> Seq(Message)]
    <3>1. <<>> \in Seq(Message)
      OBVIOUS
    <3> QED
      BY <3>1 DEF TypeOK
  <2>2. taken' \in [Topics -> Nat]
    <3>1. \A x \in Topics : Len(messages[x]) \in Nat
      BY DEF TypeOK
    <3> QED
      BY <3>1 DEF TypeOK
  <2> QED
    BY <2>1, <2>2 DEF TypeOK
<1>3. QuietInv' /\ Ordered'
  BY <1>1 DEF QuietInv, Ordered, TypeOK
<1>4. Bounded'
  <2>1. maxMessages \in Nat /\ maxBytes \in Nat
    BY BoundsAssumption DEF TypeOK
  <2> QED
    BY <1>1, <2>1 DEF Bounded
<1>5. ContiguousInv'
  BY <1>1 DEF ContiguousInv, Contiguous
<1>6. NoSleeperOnMessage'
  BY <1>1 DEF NoSleeperOnMessage, Ready, TypeOK
<1> QED
  BY <1>2, <1>3, <1>4, <1>5, <1>6

-----------------------------------------------------------------------------
\* Every step keeps the invariant.
LEMMA StepIInv == IInv /\ [Next]_vars => IInv'
<1> SUFFICES ASSUME IInv, [Next]_vars PROVE IInv'
  OBVIOUS
<1>1. CASE SetBounds \/ Listen
  BY <1>1, ConfigureStep
<1>2. ASSUME NEW x \in Topics, Push(x) PROVE IInv'
  BY <1>2, PushDisabledStep, PushDroppedStep, PushAcceptedStep DEF Push
<1>3. ASSUME NEW x \in Topics, Release(x) PROVE IInv'
  BY <1>3, RetireStep DEF Release
<1>4. CASE ReleaseAll
  BY <1>4, RetireStep DEF ReleaseAll, IInv, TypeOK
<1>5. ASSUME NEW c \in Consumers, NEW x \in Topics, Pop(c, x) PROVE IInv'
  BY <1>5, PopStep
<1>6. ASSUME NEW c \in Consumers, Expire(c) \/ Resume(c) PROVE IInv'
  BY <1>6, ExpireStep, ResumeStep
<1>7. CASE UNCHANGED vars
  <2>1. ConsumerTypes' /\ NoSleeperOnMessage'
    BY <1>7 DEF vars, IInv, TypeOK, ConsumerTypes, NoSleeperOnMessage, Ready
  <2> QED
    BY <1>7, <2>1, WaitStep DEF vars, bvars, qvars, hvars
<1> QED
  BY <1>1, <1>2, <1>3, <1>4, <1>5, <1>6, <1>7 DEF Next

\* The inductive invariant holds of every behaviour.
THEOREM IInvInvariant == Spec => []IInv
  BY InitIInv, StepIInv, PTL DEF Spec

\* Types, and a byte count that never wraps below zero, however pushes, pops
\* and releases are mixed (topic_queues.cpp:26, 44, 88).
THEOREM TypeCorrect == Spec => []TypeOK
<1>1. IInv => TypeOK
  BY DEF IInv
<1> QED
  BY <1>1, IInvInvariant, PTL

\* No backlog outgrows its bounds (topic_queues.cpp:19-25).
THEOREM BoundSafety == Spec => []Bounded
<1>1. IInv => Bounded
  BY DEF IInv
<1> QED
  BY <1>1, IInvInvariant, PTL

\* Up to the nth payload of a contiguous queue, the sizes add up to the distance from
\* the front's first byte to the end of the nth.
LEMMA SizesSpan ==
  ASSUME NEW q \in Seq(Message), NEW count \in Nat, NEW total \in Nat,
         Contiguous(q, count, total)
  PROVE  count = TotalSize(q)
<1> DEFINE Plus(v, n) == v + q[n].size
           upTo == CHOOSE g : g = [n \in 0 .. Len(q) |->
                                     IF n = 0 THEN 0 ELSE g[n - 1] + q[n].size]
           first == q[1].end - q[1].size
           Off == {n \in Nat : n \in 1 .. Len(q) /\ upTo[n] # q[n].end - first}
<1>1. Len(q) \in Nat /\ 0 \in Nat
  OBVIOUS
<1>2. FiniteNatInductiveDefHypothesis(upTo, 0, Plus, 0, Len(q))
  BY DEF FiniteNatInductiveDefHypothesis
<1>3. TotalSize(q) = upTo[Len(q)]
  BY DEF TotalSize
<1> HIDE DEF upTo
<1>4. FiniteNatInductiveDefConclusion(upTo, 0, Plus, 0, Len(q))
  BY <1>1, <1>2, FiniteNatInductiveDef
<1>5. upTo = [n \in 0 .. Len(q) |-> IF n = 0 THEN 0 ELSE upTo[n - 1] + q[n].size]
  BY <1>4 DEF FiniteNatInductiveDefConclusion
<1>6. upTo[0] = 0 /\ \A n \in 1 .. Len(q) : upTo[n] = upTo[n - 1] + q[n].size
  <2>1. \A n \in 1 .. Len(q) : n \in 0 .. Len(q) /\ n # 0
    BY <1>1
  <2>2. 0 \in 0 .. Len(q)
    BY <1>1
  <2> HIDE DEF Plus
  <2> QED
    BY <1>5, <2>1, <2>2
<1>7. \A n \in 1 .. Len(q) : q[n].size \in Nat /\ q[n].end \in Nat
  BY ElementFacts
<1>8. Off = {}
  <2> SUFFICES ASSUME Off # {} PROVE FALSE
    OBVIOUS
  <2>1. PICK n \in Off : \A k \in Off : n <= k
    BY Least
  <2>2. n \in 1 .. Len(q) /\ upTo[n] # q[n].end - first
    OBVIOUS
  <2>3. CASE n = 1
    BY <1>6, <1>7, <2>2, <2>3
  <2>4. CASE n # 1
    <3>1. n - 1 \in 1 .. Len(q) /\ n = (n - 1) + 1 /\ n - 1 \in Nat /\ ~(n <= n - 1)
      BY <2>2, <2>4, <1>1
    <3>2. upTo[n - 1] = q[n - 1].end - first
      BY <3>1, <2>1
    <3>3. q[n].end = q[n - 1].end + q[n].size
      BY <3>1, <2>2 DEF Contiguous
    <3>4. upTo[n] = upTo[n - 1] + q[n].size
      BY <2>2, <1>6
    <3>5. 1 \in 1 .. Len(q)
      BY <2>2, <1>1
    <3>6. first \in Int
      <4>1. q[1].end \in Nat /\ q[1].size \in Nat
        BY <1>7, <3>5
      <4> QED
        BY <4>1
    <3>7. q[n - 1].end \in Nat /\ q[n].size \in Nat
      BY <1>7, <3>1, <2>2
    <3> HIDE DEF first
    <3> QED
      BY <2>2, <3>2, <3>3, <3>4, <3>6, <3>7
  <2> QED
    BY <2>3, <2>4
<1>9. CASE q = <<>>
  BY <1>3, <1>6, <1>9 DEF Contiguous
<1>10. CASE q # <<>>
  <2>1. Len(q) \in 1 .. Len(q) /\ 1 \in 1 .. Len(q)
    BY <1>1, <1>10
  <2>2. upTo[Len(q)] = q[Len(q)].end - first
    BY <1>8, <2>1, <1>1
  <2>3. count = total - q[1].end + q[1].size /\ q[Len(q)].end = total
    BY <1>10 DEF Contiguous
  <2> QED
    BY <1>3, <1>7, <2>1, <2>2, <2>3
<1> QED
  BY <1>9, <1>10

\* The byte count of a topic is what its payloads weigh, after any mix of pushes, pops,
\* drops and releases (topic_queues.cpp:26, 44, 88).
THEOREM BytesSafety == Spec => []BytesAccounted
<1>1. IInv => BytesAccounted
  <2> SUFFICES ASSUME IInv, NEW x \in Topics PROVE bytes[x] = TotalSize(messages[x])
    BY DEF BytesAccounted
  <2>1. messages[x] \in Seq(Message) /\ bytes[x] \in Nat /\ poured[x] \in Nat
    BY DEF IInv, TypeOK
  <2> QED
    BY <2>1, SizesSpan DEF IInv, ContiguousInv
<1> QED
  BY <1>1, IInvInvariant, PTL

\* The consumers of a topic share its stream in order (topic_queues.cpp:41-43).
THEOREM OrderSafety == Spec => []Ordered
<1>1. IInv => Ordered
  BY DEF IInv
<1> QED
  BY <1>1, IInvInvariant, PTL

\* No wake-up is lost (topic_queues.cpp:28, 38).
THEOREM WakeUpSafety == Spec => []NoSleeperOnMessage
<1>1. IInv => NoSleeperOnMessage
  BY DEF IInv
<1> QED
  BY <1>1, IInvInvariant, PTL

\* Drop counters only grow, through every release (topic_queues.h:27).
THEOREM DropsKept == Spec => DropsNeverReset
<1>1. IInv /\ [Next]_vars =>
        [\A x \in Topics : dropped'[x] >= dropped[x]
                           /\ (dropped[x] > 0 => x \in entries')]_vars
  <2> SUFFICES ASSUME IInv, Next, NEW x \in Topics
               PROVE  dropped'[x] >= dropped[x] /\ (dropped[x] > 0 => x \in entries')
    OBVIOUS
  <2>1. dropped[x] \in Nat /\ (dropped[x] > 0 => x \in entries)
    BY DEF IInv, TypeOK, Bounded
  <2>2. UNCHANGED <<dropped, entries>> => dropped'[x] >= dropped[x]
                                          /\ (dropped[x] > 0 => x \in entries')
    BY <2>1
  <2>3. CASE SetBounds \/ Listen
    BY <2>2, <2>3 DEF SetBounds, Listen, qvars
  <2>4. ASSUME NEW y \in Topics, Push(y)
        PROVE  dropped'[x] >= dropped[x] /\ (dropped[x] > 0 => x \in entries')
    <3>1. CASE PushDisabled(y)
      BY <2>2, <3>1 DEF PushDisabled, qvars
    <3>2. ASSUME NEW n \in Sizes, PushDropped(y, n)
          PROVE  dropped'[x] >= dropped[x]
      BY <2>1, <3>2 DEF PushDropped, IInv, TypeOK
    <3>3. ASSUME NEW n \in Sizes, PushAccepted(y, n)
          PROVE  dropped'[x] = dropped[x]
      BY <3>3 DEF PushAccepted
    <3>4. ASSUME NEW n \in Sizes, PushDropped(y, n) \/ PushAccepted(y, n)
          PROVE  entries' = entries \cup {y}
      BY <3>4 DEF PushDropped, PushAccepted
    <3> QED
      BY <2>1, <2>4, <3>1, <3>2, <3>3, <3>4 DEF Push
  <2>5. ASSUME NEW S \in SUBSET Topics, Retire(S)
        PROVE  dropped'[x] >= dropped[x] /\ (dropped[x] > 0 => x \in entries')
    BY <2>1, <2>5 DEF Retire
  <2>6. ASSUME NEW c \in Consumers, NEW y \in Topics,
               Pop(c, y) \/ Expire(c) \/ Resume(c)
        PROVE  UNCHANGED <<dropped, entries>>
    BY <2>6 DEF Pop, Expire, Resume, Take, qvars
  <2>7. (\E c \in Consumers : Expire(c) \/ Resume(c)) =>
          UNCHANGED <<dropped, entries>>
    BY DEF Expire, Resume, Take, qvars
  <2> QED
    BY <2>2, <2>3, <2>4, <2>5, <2>6, <2>7 DEF Next, Release, ReleaseAll, IInv, TypeOK
<1> QED
  BY <1>1, IInvInvariant, PTL DEF Spec, DropsNeverReset

\* A pop that gives up leaves an empty topic behind, even when a message raced
\* its deadline (topic_queues.cpp:38).
THEOREM TimeoutSafety == Spec => TimeoutMeansEmpty
<1>1. IInv /\ [Next]_vars =>
        [\A c \in Consumers :
           pc[c] # "idle" /\ pc'[c] = "idle" /\ UNCHANGED taken
             => ~Ready(topic[c])]_vars
  <2> SUFFICES ASSUME IInv, Next, NEW c \in Consumers,
                      pc[c] # "idle", pc'[c] = "idle", UNCHANGED taken
               PROVE  ~Ready(topic[c])
    OBVIOUS
  <2>1. ASSUME NEW x \in Topics, Take(x) PROVE FALSE
    <3>1. taken'[x] = taken[x] + 1 /\ taken[x] \in Nat
      BY <2>1 DEF Take, IInv, TypeOK
    <3> QED
      BY <3>1
  <2>2. ASSUME NEW d \in Consumers, Resume(d) PROVE ~Ready(topic[c])
    <3>1. topic[d] \in Topics /\ (d # c => pc'[c] = pc[c])
      BY <2>2 DEF Resume, IInv, TypeOK
    <3> QED
      BY <2>1, <2>2, <3>1 DEF Resume
  <2>3. CASE SetBounds \/ Listen
    BY <2>3 DEF SetBounds, Listen, cvars
  <2>4. ASSUME NEW x \in Topics, Push(x) PROVE FALSE
    BY <2>4 DEF Push, PushDisabled, PushDropped, PushAccepted, NotifyAll, cvars, IInv, TypeOK
  <2>5. ASSUME NEW S \in SUBSET Topics, Retire(S) PROVE FALSE
    BY <2>5 DEF Retire, cvars
  <2>6. ASSUME NEW d \in Consumers, NEW x \in Topics, Pop(d, x) PROVE FALSE
    BY <2>6 DEF Pop, IInv, TypeOK
  <2>7. ASSUME NEW d \in Consumers, Expire(d) PROVE FALSE
    BY <2>7 DEF Expire
  <2> QED
    BY <2>2, <2>3, <2>4, <2>5, <2>6, <2>7 DEF Next, Release, ReleaseAll, IInv, TypeOK
<1> QED
  BY <1>1, IInvInvariant, PTL DEF Spec, TimeoutMeansEmpty

\* The queues as Backlog sees them.
Most == IF maxBytes = 0 THEN 0 ELSE maxMessages
Depth == [x \in Topics |-> Len(messages[x])]

\* A step that leaves bounds, lengths and counters alone is a stutter of the backlog.
LEMMA BacklogStutters ==
  ASSUME UNCHANGED <<maxMessages, maxBytes, messages, dropped>>
  PROVE  UNCHANGED BL!bkvars
  BY DEF BL!bkvars

\* A consumer that takes a payload is a Take of the backlog.
LEMMA BacklogTakes ==
  ASSUME TypeOK, NEW x \in Topics, Ready(x), Take(x), UNCHANGED <<maxMessages, maxBytes>>
  PROVE  BL!Take(x)
<1>1. messages[x] \in Seq(Message) /\ messages[x] # <<>>
  BY DEF TypeOK, Ready
<1>2. Len(messages[x]) \in Nat \ {0} /\ Len(Tail(messages[x])) = Len(messages[x]) - 1
  BY <1>1, TailFacts
<1>3. Depth' = [Depth EXCEPT ![x] = @ - 1]
  BY <1>2 DEF Take, TypeOK, Depth
<1> QED
  BY <1>2, <1>3 DEF BL!Take, Take, Depth

\* A push is a Queue, a Drop, or nothing, of the backlog.
LEMMA BacklogPushes ==
  ASSUME TypeOK, Bounded, NEW x \in Topics, Push(x)
  PROVE  BL!Queue(x) \/ BL!Drop(x) \/ UNCHANGED BL!bkvars
<1>1. maxMessages \in Nat /\ maxBytes \in Nat /\ messages[x] \in Seq(Message)
  BY BoundsAssumption DEF TypeOK
<1>2. CASE PushDisabled(x)
  BY <1>2, BacklogStutters DEF PushDisabled, bvars, qvars
<1>3. ASSUME NEW n \in Sizes, PushDropped(x, n) PROVE BL!Drop(x)
  BY <1>1, <1>3 DEF PushDropped, Disabled, bvars, BL!Drop
<1>4. ASSUME NEW n \in Sizes, PushAccepted(x, n) PROVE BL!Queue(x)
  <2> DEFINE m == [seq |-> arrived'[x], size |-> n, end |-> poured'[x]]
  <2>1. arrived'[x] \in Nat /\ poured'[x] \in Nat
    BY <1>4, BoundsAssumption DEF PushAccepted, Arrive, Queue, TypeOK
  <2>2. m \in Message
    BY <2>1 DEF Message
  <2>3. messages' = [messages EXCEPT ![x] = Append(@, m)]
    BY <1>4 DEF PushAccepted, Queue
  <2>4. Len(Append(messages[x], m)) = Len(messages[x]) + 1 /\ Len(messages[x]) \in Nat
    BY <1>1, <2>2, AppendFacts
  <2> HIDE DEF m
  <2>5. Depth' = [Depth EXCEPT ![x] = @ + 1]
    BY <2>3, <2>4 DEF TypeOK, Depth
  <2>6. Most > 0 /\ Depth[x] < Most /\ UNCHANGED <<maxMessages, maxBytes, dropped>>
    BY <1>1, <1>4 DEF PushAccepted, Disabled, bvars, Most, Depth
  <2> QED
    BY <2>5, <2>6 DEF BL!Queue, Most, Depth
<1> QED
  BY <1>2, <1>3, <1>4 DEF Push

\* A release of some topics is a Release of the backlog.
LEMMA BacklogReleases ==
  ASSUME TypeOK, NEW S \in SUBSET Topics, Retire(S)
  PROVE  BL!Release(S)
<1>1. Depth' = [x \in Topics |-> IF x \in S THEN 0 ELSE Depth[x]]
  BY DEF Retire, Depth
<1> QED
  BY <1>1 DEF BL!Release, Retire, bvars, Depth

\* The topic queues implement the bounded backlog the module promises: no bound is
\* passed, no count forgotten, for any topics, consumers, bounds and sizes
\* (topic_queues.h:11-27).
THEOREM ImplementsBacklog == Spec => BacklogSpec
<1>1. Init => BL!Init
  BY DEF Init, BL!Init
<1>2. IInv /\ [Next]_vars => [BL!Next]_(BL!bkvars)
  <2> SUFFICES ASSUME IInv, [Next]_vars PROVE BL!Next \/ UNCHANGED BL!bkvars
    OBVIOUS
  <2> USE DEF IInv
  <2>1. CASE SetBounds
    <3>1. \A x \in Topics : Len(messages[x]) = 0
      BY <2>1 DEF SetBounds, QuietInv
    <3>2. Most' \in MessageBounds \cup {0} /\ UNCHANGED <<messages, dropped>>
      BY <2>1 DEF SetBounds, qvars, Most
    <3> QED
      BY <3>1, <3>2 DEF BL!Next, BL!SetBounds, Most
  <2>2. CASE Listen
    BY <2>2, BacklogStutters DEF Listen, qvars
  <2>3. ASSUME NEW x \in Topics, Push(x) PROVE BL!Next \/ UNCHANGED BL!bkvars
    BY <2>3, BacklogPushes DEF BL!Next
  <2>4. ASSUME NEW S \in SUBSET Topics, Retire(S) PROVE BL!Next
    BY <2>4, BacklogReleases DEF BL!Next
  <2>5. ASSUME NEW c \in Consumers, NEW x \in Topics, Pop(c, x)
        PROVE  BL!Next \/ UNCHANGED BL!bkvars
    BY <2>5, BacklogTakes, BacklogStutters DEF Pop, bvars, qvars, BL!Next
  <2>6. ASSUME NEW c \in Consumers, Expire(c) PROVE UNCHANGED BL!bkvars
    BY <2>6, BacklogStutters DEF Expire, bvars, qvars
  <2>7. ASSUME NEW c \in Consumers, Resume(c) PROVE BL!Next \/ UNCHANGED BL!bkvars
    <3>1. topic[c] \in Topics
      BY DEF TypeOK
    <3> QED
      BY <2>7, <3>1, BacklogTakes, BacklogStutters DEF Resume, bvars, qvars, BL!Next
  <2>8. CASE UNCHANGED vars
    BY <2>8, BacklogStutters DEF vars
  <2> QED
    BY <2>1, <2>2, <2>3, <2>4, <2>5, <2>6, <2>7, <2>8 DEF Next, Release, ReleaseAll, TypeOK
<1> QED
  BY <1>1, <1>2, IInvInvariant, PTL DEF Spec, BacklogSpec, BL!Spec
==============================================================================
