--------------------------- MODULE AddrScreenProofs ---------------------------
(***************************************************************************)
(* The screening of addresses, for any addresses whose author knows what   *)
(* their components say, and lists of any length.                          *)
(*                                                                         *)
(* An address is a sequence of components, and classify sees the sequence  *)
(* of their segments only: WalkReads shows that its walk finds where each  *)
(* begins, Ip4Reads and Ip6Reads that its parsers find what a host stands  *)
(* for however it is spelled, and ClassifyReads that it admits the         *)
(* addresses no component of which has anything against it.                *)
(***************************************************************************)
EXTENDS AddrScreen, NaturalsInduction, WellFoundedInduction, TLAPS

-----------------------------------------------------------------------------
(* Sequences.                                                              *)

\* A set of naturals has a least one.
LEMMA Least ==
  ASSUME NEW T \in SUBSET Nat, T # {}
  PROVE  \E m \in T : \A k \in T : m <= k
<1> DEFINE R == {ss \in Nat \X Nat : ss[1] < ss[2]}
<1>1. IsWellFoundedOn(R, Nat)
  BY NatLessThanWellFounded DEF OpToRel
<1> HIDE DEF R
<1>2. PICK m \in T : \A k \in T : ~(<<k, m>> \in R)
  BY <1>1, WFMin
<1>3. \A k \in T : ~(k < m)
  BY <1>2 DEF R
<1> QED
  BY <1>3

\* What holds of a first number and of every next one holds of all up to a last: U are
\* those of which it does not hold.
LEMMA UpTo ==
  ASSUME NEW from \in Nat, NEW last \in Nat, NEW U \in SUBSET (from .. last),
         from \notin U, \A n \in from + 1 .. last : n - 1 \notin U => n \notin U
  PROVE  U = {}
<1> SUFFICES ASSUME U # {} PROVE FALSE
  OBVIOUS
<1>1. PICK m \in U : \A k \in U : m <= k
  <2>1. U \in SUBSET Nat
    OBVIOUS
  <2> QED
    BY <2>1, Least
<1>2. m \in from + 1 .. last
  OBVIOUS
<1>3. m - 1 \notin U
  BY <1>1, <1>2
<1> QED
  BY <1>2, <1>3

\* What flattening goes through: the sequences up to a place, in one.
Flattens(f, seqs) ==
  f = [i \in 1 .. Len(seqs) |-> IF i = 1 THEN seqs[i] ELSE f[i - 1] \o seqs[i]]

\* Flattening goes through such a function.
LEMMA FlatRuns ==
  ASSUME NEW S, NEW seqs \in Seq(S), seqs # <<>>
  PROVE  \E f : Flattens(f, seqs) /\ FlattenSeq(seqs) = f[Len(seqs)]
<1> DEFINE Def(v, i) == v \o seqs[i]
           h == CHOOSE g : g = [i \in 1 .. Len(seqs) |-> IF i = 1 THEN seqs[1] ELSE Def(g[i - 1], i)]
           flatten == CHOOSE g : g = [i \in 1 .. Len(seqs) |->
                                        IF i = 1 THEN seqs[i] ELSE g[i - 1] \o seqs[i]]
<1>1. Len(seqs) \in Nat /\ Len(seqs) # 0
  OBVIOUS
<1>2. FiniteNatInductiveDefHypothesis(h, seqs[1], Def, 1, Len(seqs))
  BY DEF FiniteNatInductiveDefHypothesis
<1> HIDE DEF h
<1>3. FiniteNatInductiveDefConclusion(h, seqs[1], Def, 1, Len(seqs))
  BY <1>1, <1>2, FiniteNatInductiveDef
<1>4. h = [i \in 1 .. Len(seqs) |-> IF i = 1 THEN seqs[i] ELSE h[i - 1] \o seqs[i]]
  BY <1>3 DEF FiniteNatInductiveDefConclusion
<1>5. Flattens(flatten, seqs)
  BY <1>4 DEF Flattens
<1>6. FlattenSeq(seqs) = flatten[Len(seqs)]
  BY <1>1 DEF FlattenSeq
<1> QED
  BY <1>5, <1>6

\* Where the sequences that were flattened are in the result: the kth follows place
\* off[k - 1], and ends at off[k].
Laid(off, seqs) ==
  /\ off[0] = 0
  /\ \A k \in 1 .. Len(seqs) : off[k] = off[k - 1] + Len(seqs[k])
  /\ \A k \in 0 .. Len(seqs) : off[k] \in Nat /\ off[k] <= off[Len(seqs)]
  /\ Len(FlattenSeq(seqs)) = off[Len(seqs)]
  /\ \A k \in 1 .. Len(seqs) : \A j \in 1 .. Len(seqs[k]) :
        FlattenSeq(seqs)[off[k - 1] + j] = seqs[k][j]
  /\ \A p \in 1 .. off[Len(seqs)] : \E k \in 1 .. Len(seqs) : \E j \in 1 .. Len(seqs[k]) :
        p = off[k - 1] + j

\* Two sequences, one after the other: the first keeps its places.
LEMMA Joins ==
  ASSUME NEW S, NEW s \in Seq(S), NEW t \in Seq(S)
  PROVE  /\ s \o t \in Seq(S) /\ Len(s \o t) = Len(s) + Len(t)
         /\ Len(s) \in Nat /\ Len(t) \in Nat
         /\ \A p \in 1 .. Len(s) : (s \o t)[p] = s[p]
<1>1. Len(s) \in Nat /\ Len(t) \in Nat /\ s \o t \in Seq(S) /\ Len(s \o t) = Len(s) + Len(t)
  OBVIOUS
<1>2. \A p \in 1 .. Len(s) : (s \o t)[p] = s[p]
  BY <1>1
<1> QED
  BY <1>1, <1>2

\* The second follows it.
LEMMA JoinsTail ==
  ASSUME NEW S, NEW s \in Seq(S), NEW t \in Seq(S), NEW j \in 1 .. Len(t)
  PROVE  (s \o t)[Len(s) + j] = t[j]
<1>1. Len(s) \in Nat /\ Len(t) \in Nat /\ Len(s \o t) = Len(s) + Len(t)
  OBVIOUS
<1>2. Len(s) + j \in 1 .. Len(s) + Len(t) /\ ~(Len(s) + j <= Len(s)) /\ (Len(s) + j) - Len(s) = j
  BY <1>1
<1> QED
  BY <1>1, <1>2

\* What is flattened is laid so.
LEMMA FlatLaid ==
  ASSUME NEW S, NEW seqs \in Seq(Seq(S))
  PROVE  FlattenSeq(seqs) \in Seq(S) /\ \E off : Laid(off, seqs)
<1>1. CASE seqs = <<>>
  <2> DEFINE off == [k \in {0} |-> 0]
  <2>1. FlattenSeq(seqs) = <<>> /\ Len(seqs) = 0
    BY <1>1 DEF FlattenSeq
  <2>2. Laid(off, seqs)
    BY <2>1 DEF Laid
  <2> QED
    BY <2>1, <2>2
<1>2. CASE seqs # <<>>
  <2> DEFINE L == Len(seqs)
  <2>1. L \in Nat \ {0} /\ \A k \in 1 .. L : seqs[k] \in Seq(S) /\ Len(seqs[k]) \in Nat
    BY <1>2
  <2>2. PICK f : Flattens(f, seqs) /\ FlattenSeq(seqs) = f[L]
    BY <1>2, FlatRuns
  <2>3. f[1] = seqs[1] /\ \A k \in 2 .. L : f[k] = f[k - 1] \o seqs[k]
    <3>1. \A k \in 1 .. Len(seqs) : f[k] = IF k = 1 THEN seqs[k] ELSE f[k - 1] \o seqs[k]
      BY <2>2 DEF Flattens
    <3>2. 1 \in 1 .. L /\ \A k \in 2 .. L : k \in 1 .. L /\ k # 1
      BY <2>1
    <3> QED
      BY <3>1, <3>2
  <2>4. PICK off : off[0] = 0 /\ \A k \in 1 .. L : off[k] = Len(f[k])
    <3> DEFINE ends == [k \in 0 .. L |-> IF k = 0 THEN 0 ELSE Len(f[k])]
    <3>1. ends[0] = 0 /\ \A k \in 1 .. L : ends[k] = Len(f[k])
      BY <2>1
    <3> QED
      BY <3>1
  <2> DEFINE Good(n) == /\ f[n] \in Seq(S)
                        /\ off[n] = off[n - 1] + Len(seqs[n])
                        /\ \A k \in 0 .. n : off[k] \in Nat /\ off[k] <= off[n]
                        /\ \A k \in 1 .. n : off[k] = off[k - 1] + Len(seqs[k])
                        /\ \A k \in 1 .. n : \A j \in 1 .. Len(seqs[k]) :
                              f[n][off[k - 1] + j] = seqs[k][j]
                        /\ \A p \in 1 .. off[n] : \E k \in 1 .. n : \E j \in 1 .. Len(seqs[k]) :
                              p = off[k - 1] + j
             U == {n \in 1 .. L : ~Good(n)}
  <2>5. Good(1)
    <3>1. f[1] \in Seq(S) /\ off[1] = Len(seqs[1]) /\ off[1] \in Nat
      BY <2>1, <2>3, <2>4
    <3>2. \A k \in 0 .. 1 : k = 0 \/ k = 1
      OBVIOUS
    <3>3. \A k \in 1 .. 1 : k = 1
      OBVIOUS
    <3>4. \A j \in 1 .. Len(seqs[1]) : f[1][off[0] + j] = seqs[1][j]
      BY <2>1, <2>3, <2>4
    <3>5. \A p \in 1 .. off[1] : \E k \in 1 .. 1 : \E j \in 1 .. Len(seqs[k]) : p = off[k - 1] + j
      <4> SUFFICES ASSUME NEW p \in 1 .. off[1]
                   PROVE  \E j \in 1 .. Len(seqs[1]) : p = off[0] + j
        <5>1. 1 \in 1 .. 1 /\ 1 - 1 = 0
          OBVIOUS
        <5> QED
          BY <5>1
      <4> QED
        BY <2>4, <3>1, <3>3
    <3> QED
      BY <2>4, <3>1, <3>2, <3>3, <3>4, <3>5
  <2>6. ASSUME NEW n \in 1 + 1 .. L, n - 1 \notin U
        PROVE  n \notin U
    <3>1. n - 1 \in 1 .. L /\ n \in 1 .. L /\ n \in 2 .. L /\ n \in Nat
      BY <2>1
    <3>2. Good(n - 1)
      BY <2>6, <3>1
    <3>3. PICK m \in 1 .. L : m = n - 1
      BY <3>1
    <3>4. f[n] = f[m] \o seqs[n] /\ f[m] \in Seq(S) /\ seqs[n] \in Seq(S)
      BY <2>1, <2>3, <3>1, <3>2, <3>3
    <3>5. /\ f[n] \in Seq(S)
          /\ \A p \in 1 .. Len(f[m]) : f[n][p] = f[m][p]
          /\ \A j \in 1 .. Len(seqs[n]) : f[n][Len(f[m]) + j] = seqs[n][j]
      <4>1. f[m] \in Seq(S) /\ seqs[n] \in Seq(S)
        BY <3>4
      <4>2. f[m] \o seqs[n] \in Seq(S)
        BY <4>1, Joins
      <4>3. \A p \in 1 .. Len(f[m]) : (f[m] \o seqs[n])[p] = f[m][p]
        BY <4>1, Joins, Zenon
      <4>4. \A j \in 1 .. Len(seqs[n]) : (f[m] \o seqs[n])[Len(f[m]) + j] = seqs[n][j]
        BY <4>1, JoinsTail, Zenon
      <4> QED
        BY <3>4, <4>2, <4>3, <4>4, Zenon
    <3>13. off[m] = Len(f[m])
      BY <2>4
    <3>6. off[n] = off[m] + Len(seqs[n]) /\ off[m] \in Nat /\ off[n] \in Nat
      <4> DEFINE u == Len(f[m])
                 l == Len(seqs[n])
      <4>1. off[m] = u /\ off[n] = Len(f[n])
        BY <2>4, <3>1
      <4>2. Len(f[m] \o seqs[n]) = u + l /\ u \in Nat /\ l \in Nat
        BY <3>4, Joins
      <4>3. off[n] = Len(f[m] \o seqs[n])
        BY <3>4, <4>1, Zenon
      <4> HIDE DEF u, l
      <4>4. off[n] = u + l
        BY <4>2, <4>3
      <4>5. off[n] = off[m] + l /\ off[m] \in Nat /\ off[n] \in Nat
        BY <4>1, <4>2, <4>4
      <4> QED
        BY <4>5 DEF l
    <3>7. \A k \in 0 .. n : off[k] \in Nat /\ off[k] <= off[n]
      <4>1. \A k \in 0 .. n : k \in 0 .. m \/ k = n
        BY <3>1, <3>3
      <4>2. off[m] <= off[n]
        <5>1. Len(seqs[n]) \in Nat
          BY <2>1, <3>1
        <5> QED
          BY <3>6, <5>1
      <4>3. \A k \in 0 .. m : off[k] \in Nat /\ off[k] <= off[m]
        BY <3>2, <3>3
      <4>4. ASSUME NEW k \in 0 .. n PROVE off[k] \in Nat /\ off[k] <= off[n]
        <5>1. CASE k = n
          BY <3>6, <5>1
        <5>2. CASE k # n
          <6>1. off[k] \in Nat /\ off[k] <= off[m]
            BY <4>1, <4>3, <5>2
          <6> QED
            BY <3>6, <4>2, <6>1
        <5> QED
          BY <5>1, <5>2
      <4> QED
        BY <4>4
    <3>8. \A k \in 1 .. n : off[k] = off[k - 1] + Len(seqs[k])
      <4>1. \A k \in 1 .. n : k \in 1 .. m \/ k = n
        BY <3>1, <3>3
      <4> QED
        BY <3>2, <3>3, <3>6, <4>1
    <3>9. ASSUME NEW k \in 1 .. n, NEW j \in 1 .. Len(seqs[k])
          PROVE  f[n][off[k - 1] + j] = seqs[k][j]
      <4>1. CASE k = n
        BY <3>3, <3>5, <3>13, <4>1
      <4>2. CASE k # n
        <5>1. k \in 1 .. m /\ k \in 1 .. L /\ k - 1 \in 0 .. m
          BY <3>1, <3>3, <4>2
        <5>2. off[k] = off[k - 1] + Len(seqs[k]) /\ off[k] <= off[m] /\ off[k - 1] \in Nat
          <6>1. k \in 0 .. m
            BY <5>1
          <6> QED
            BY <3>2, <3>3, <5>1, <6>1
        <5>3. Len(seqs[k]) \in Nat
          BY <2>1, <5>1
        <5>4. off[k - 1] + j \in 1 .. Len(f[m])
          <6>1. j \in Nat /\ j >= 1 /\ j <= Len(seqs[k])
            BY <5>3
          <6>2. off[m] \in Nat /\ off[k] = off[k - 1] + Len(seqs[k]) /\ off[k] <= off[m]
            BY <3>6, <5>2
          <6>3. off[k - 1] + j \in 1 .. off[m]
            <7> DEFINE u == off[k - 1]
                       w == off[m]
                       l == Len(seqs[k])
            <7>1. u \in Nat /\ w \in Nat /\ l \in Nat /\ u + l <= w
              BY <5>2, <5>3, <6>2
            <7> HIDE DEF u, w, l
            <7>2. u + j \in 1 .. w
              BY <6>1, <7>1 DEF l
            <7> QED
              BY <7>2 DEF u, w
          <6> QED
            BY <3>13, <6>3, Zenon
        <5>5. f[m][off[k - 1] + j] = seqs[k][j]
          BY <3>2, <3>3, <5>1
        <5> QED
          BY <3>5, <5>4, <5>5
      <4> QED
        BY <4>1, <4>2
    <3>10. ASSUME NEW p \in 1 .. off[n]
           PROVE  \E k \in 1 .. n : \E j \in 1 .. Len(seqs[k]) : p = off[k - 1] + j
      <4>1. CASE p <= off[m]
        <5>1. p \in 1 .. off[m]
          BY <3>6, <4>1
        <5>2. PICK k \in 1 .. m : \E j \in 1 .. Len(seqs[k]) : p = off[k - 1] + j
          BY <3>2, <3>3, <5>1
        <5>3. k \in 1 .. n
          BY <3>1, <3>3
        <5> QED
          BY <5>2, <5>3
      <4>2. CASE p > off[m]
        <5>1. p - off[m] \in 1 .. Len(seqs[n]) /\ p = off[n - 1] + (p - off[m]) /\ n \in 1 .. n
          <6> DEFINE u == off[m]
                     l == Len(seqs[n])
          <6>1. u \in Nat /\ l \in Nat /\ p \in 1 .. u + l /\ p > u
            BY <2>1, <3>1, <3>6, <4>2
          <6> HIDE DEF u, l
          <6>2. p - u \in 1 .. l /\ p = u + (p - u)
            BY <6>1
          <6>3. n \in 1 .. n
            BY <3>1
          <6> QED
            BY <3>3, <6>2, <6>3 DEF u, l
        <5> QED
          BY <5>1
      <4> QED
        BY <3>6, <4>1, <4>2
    <3>11. off[n] = off[n - 1] + Len(seqs[n])
      BY <3>3, <3>6
    <3>12. Good(n)
      BY <3>5, <3>7, <3>8, <3>9, <3>10, <3>11
    <3> QED
      BY <3>12
  <2> HIDE DEF Good
  <2>7. 1 \notin U
    BY <2>5
  <2>8. U = {}
    <3> HIDE DEF U
    <3>1. U \in SUBSET (1 .. L) /\ 1 \in Nat
      BY DEF U
    <3> QED
      BY <2>1, <2>6, <2>7, <3>1, UpTo
  <2>9. Good(L)
    <3>1. L \in 1 .. L
      BY <2>1
    <3> QED
      BY <2>8, <3>1
  <2>10. Laid(off, seqs)
    <3>1. /\ \A k \in 0 .. L : off[k] \in Nat /\ off[k] <= off[L]
          /\ \A k \in 1 .. L : off[k] = off[k - 1] + Len(seqs[k])
          /\ \A k \in 1 .. L : \A j \in 1 .. Len(seqs[k]) : f[L][off[k - 1] + j] = seqs[k][j]
          /\ \A p \in 1 .. off[L] : \E k \in 1 .. L : \E j \in 1 .. Len(seqs[k]) :
                p = off[k - 1] + j
      BY <2>9 DEF Good
    <3>2. Len(FlattenSeq(seqs)) = off[L]
      BY <2>1, <2>2, <2>4
    <3> QED
      BY <2>2, <2>4, <3>1, <3>2, Zenon DEF Laid
  <2> QED
    BY <2>2, <2>9, <2>10 DEF Good
<1> QED
  BY <1>1, <1>2

\* What Those goes through.
Picks(u, list, IsSo(_)) ==
  /\ u[0] = <<>>
  /\ \A n \in 1 .. Len(list) : /\ IsSo(list[n]) => u[n] = Append(u[n - 1], list[n])
                               /\ ~IsSo(list[n]) => u[n] = u[n - 1]
  /\ Those(list, IsSo) = u[Len(list)]

\* Picking goes through such a function.
LEMMA ThoseRuns ==
  ASSUME NEW IsSo(_), NEW S, NEW list \in Seq(S)
  PROVE  \E u : Picks(u, list, IsSo)
<1> DEFINE Def(v, n) == IF IsSo(list[n]) THEN Append(v, list[n]) ELSE v
           h == CHOOSE g : g = [i \in 0 .. Len(list) |-> IF i = 0 THEN <<>> ELSE Def(g[i - 1], i)]
           upTo == CHOOSE g : g = [n \in 0 .. Len(list) |->
                      IF n = 0 THEN <<>>
                      ELSE IF IsSo(list[n]) THEN Append(g[n - 1], list[n]) ELSE g[n - 1]]
<1>1. Len(list) \in Nat
  OBVIOUS
<1>2. FiniteNatInductiveDefHypothesis(h, <<>>, Def, 0, Len(list))
  BY DEF FiniteNatInductiveDefHypothesis
<1> HIDE DEF h
<1>3. FiniteNatInductiveDefConclusion(h, <<>>, Def, 0, Len(list))
  BY <1>1, <1>2, FiniteNatInductiveDef
<1>4. h = [n \in 0 .. Len(list) |->
             IF n = 0 THEN <<>>
             ELSE IF IsSo(list[n]) THEN Append(h[n - 1], list[n]) ELSE h[n - 1]]
  BY <1>3 DEF FiniteNatInductiveDefConclusion
<1>5. upTo = [n \in 0 .. Len(list) |->
             IF n = 0 THEN <<>>
             ELSE IF IsSo(list[n]) THEN Append(upTo[n - 1], list[n]) ELSE upTo[n - 1]]
  BY <1>4
<1>6. Those(list, IsSo) = upTo[Len(list)]
  BY DEF Those
<1> HIDE DEF upTo
<1>7. upTo[0] = <<>>
  <2>1. 0 \in 0 .. Len(list)
    BY <1>1
  <2> QED
    BY <1>5, <2>1, Zenon
<1>8. ASSUME NEW n \in 1 .. Len(list)
      PROVE  /\ IsSo(list[n]) => upTo[n] = Append(upTo[n - 1], list[n])
             /\ ~IsSo(list[n]) => upTo[n] = upTo[n - 1]
  <2>1. n \in 0 .. Len(list) /\ n # 0
    BY <1>1
  <2>2. upTo[n] = IF n = 0 THEN <<>>
                  ELSE IF IsSo(list[n]) THEN Append(upTo[n - 1], list[n]) ELSE upTo[n - 1]
    BY <1>5, <2>1, Zenon
  <2> QED
    BY <2>1, <2>2, Zenon
<1> QED
  BY <1>6, <1>7, <1>8 DEF Picks

\* They are elements of the list, no more of them than it has.
LEMMA ThoseListed ==
  ASSUME NEW IsSo(_), NEW S, NEW list \in Seq(S)
  PROVE  Those(list, IsSo) \in Seq(S)
<1>1. PICK u : Picks(u, list, IsSo)
  BY ThoseRuns
<1> DEFINE U == {n \in 0 .. Len(list) : u[n] \notin Seq(S)}
<1>2. Len(list) \in Nat
  OBVIOUS
<1>3. 0 \notin U
  <2>1. <<>> \in Seq(S)
    OBVIOUS
  <2> QED
    BY <1>1, <2>1 DEF Picks
<1>4. ASSUME NEW n \in 0 + 1 .. Len(list), n - 1 \notin U
      PROVE  n \notin U
  <2>1. u[n - 1] \in Seq(S) /\ list[n] \in S
    BY <1>4
  <2>2. /\ IsSo(list[n]) => u[n] = Append(u[n - 1], list[n])
        /\ ~IsSo(list[n]) => u[n] = u[n - 1]
    BY <1>1 DEF Picks
  <2>3. Append(u[n - 1], list[n]) \in Seq(S)
    BY <2>1
  <2>4. u[n] \in Seq(S)
    BY <2>1, <2>2, <2>3, Zenon
  <2> QED
    BY <2>4
<1>5. U = {}
  <2> HIDE DEF U
  <2>1. U \in SUBSET (0 .. Len(list))
    BY DEF U
  <2> QED
    BY <1>2, <1>3, <1>4, <2>1, UpTo
<1> QED
  BY <1>1, <1>2, <1>5 DEF Picks

\* One more element is one more of those, or none.
ThoseStep(list, x, IsSo(_)) ==
  Those(Append(list, x), IsSo) = IF IsSo(x) THEN Append(Those(list, IsSo), x) ELSE Those(list, IsSo)

\* Picking takes one element at a time.
LEMMA ThoseAppend ==
  ASSUME NEW IsSo(_), NEW S, NEW list \in Seq(S), NEW x \in S
  PROVE  ThoseStep(list, x, IsSo)
<1> DEFINE more == Append(list, x)
           L == Len(list)
<1>1. more \in Seq(S) /\ Len(more) = L + 1 /\ L \in Nat /\ more[L + 1] = x
      /\ \A n \in 1 .. L : more[n] = list[n]
  OBVIOUS
<1> HIDE DEF more
<1>2. PICK u : Picks(u, list, IsSo)
  BY ThoseRuns
<1>3. PICK v : Picks(v, more, IsSo)
  BY <1>1, ThoseRuns
<1> DEFINE U == {n \in 0 .. L : v[n] # u[n]}
<1>4. 0 \notin U
  BY <1>1, <1>2, <1>3 DEF Picks
<1>5. ASSUME NEW n \in 0 + 1 .. L, n - 1 \notin U
      PROVE  n \notin U
  <2>1. v[n - 1] = u[n - 1] /\ more[n] = list[n]
    BY <1>1, <1>5
  <2>2. /\ IsSo(list[n]) => u[n] = Append(u[n - 1], list[n])
        /\ ~IsSo(list[n]) => u[n] = u[n - 1]
    BY <1>1, <1>2 DEF Picks
  <2>3. /\ IsSo(more[n]) => v[n] = Append(v[n - 1], more[n])
        /\ ~IsSo(more[n]) => v[n] = v[n - 1]
    BY <1>1, <1>3 DEF Picks
  <2> QED
    BY <2>1, <2>2, <2>3
<1>6. U = {}
  <2> HIDE DEF U
  <2>1. U \in SUBSET (0 .. L)
    BY DEF U
  <2> QED
    BY <1>1, <1>4, <1>5, <2>1, UpTo
<1>7. v[L] = u[L]
  BY <1>1, <1>6
<1>8. /\ IsSo(x) => v[L + 1] = Append(v[L], x)
      /\ ~IsSo(x) => v[L + 1] = v[L]
  BY <1>1, <1>3 DEF Picks
<1>9. Those(list, IsSo) = u[L] /\ Those(more, IsSo) = v[L + 1]
  BY <1>1, <1>2, <1>3 DEF Picks
<1> QED
  BY <1>7, <1>8, <1>9 DEF ThoseStep, more

\* Two conditions that agree on a list's elements pick the same of them.
ThoseSame(list, IsSo(_), IsThat(_)) == Those(list, IsSo) = Those(list, IsThat)
Agree(list, IsSo(_), IsThat(_)) == \A i \in 1 .. Len(list) : IsSo(list[i]) <=> IsThat(list[i])

\* Which of the two picks does not matter.
LEMMA ThoseAgree ==
  ASSUME NEW IsSo(_), NEW IsThat(_), NEW S, NEW list \in Seq(S), Agree(list, IsSo, IsThat)
  PROVE  ThoseSame(list, IsSo, IsThat)
<1>1. PICK u : Picks(u, list, IsSo)
  BY ThoseRuns
<1>2. PICK v : Picks(v, list, IsThat)
  BY ThoseRuns
<1> DEFINE U == {n \in 0 .. Len(list) : v[n] # u[n]}
<1>3. Len(list) \in Nat
  OBVIOUS
<1>4. 0 \notin U
  BY <1>1, <1>2, <1>3 DEF Picks
<1>5. ASSUME NEW n \in 0 + 1 .. Len(list), n - 1 \notin U
      PROVE  n \notin U
  <2>1. v[n - 1] = u[n - 1] /\ (IsSo(list[n]) <=> IsThat(list[n]))
    BY <1>3, <1>5 DEF Agree
  <2>2. /\ IsSo(list[n]) => u[n] = Append(u[n - 1], list[n])
        /\ ~IsSo(list[n]) => u[n] = u[n - 1]
    BY <1>3, <1>1 DEF Picks
  <2>3. /\ IsThat(list[n]) => v[n] = Append(v[n - 1], list[n])
        /\ ~IsThat(list[n]) => v[n] = v[n - 1]
    BY <1>3, <1>2 DEF Picks
  <2> QED
    BY <2>1, <2>2, <2>3
<1>6. U = {}
  <2> HIDE DEF U
  <2>1. U \in SUBSET (0 .. Len(list))
    BY DEF U
  <2> QED
    BY <1>3, <1>4, <1>5, <2>1, UpTo
<1> QED
  BY <1>1, <1>2, <1>3, <1>6 DEF Picks, ThoseSame

\* None of a list, if none is so.
LEMMA ThoseNone ==
  ASSUME NEW IsSo(_), NEW S, NEW list \in Seq(S), Agree(list, IsSo, LAMBDA x : FALSE)
  PROVE  Those(list, IsSo) = <<>>
<1>1. PICK u : Picks(u, list, IsSo)
  BY ThoseRuns
<1> DEFINE U == {n \in 0 .. Len(list) : u[n] # <<>>}
<1>3. Len(list) \in Nat
  OBVIOUS
<1>4. 0 \notin U
  BY <1>1, <1>3 DEF Picks
<1>5. ASSUME NEW n \in 0 + 1 .. Len(list), n - 1 \notin U
      PROVE  n \notin U
  <2>1. u[n - 1] = <<>> /\ ~IsSo(list[n])
    BY <1>3, <1>5 DEF Agree
  <2>2. /\ IsSo(list[n]) => u[n] = Append(u[n - 1], list[n])
        /\ ~IsSo(list[n]) => u[n] = u[n - 1]
    BY <1>3, <1>1 DEF Picks
  <2> QED
    BY <2>1, <2>2
<1>6. U = {}
  <2> HIDE DEF U
  <2>1. U \in SUBSET (0 .. Len(list))
    BY DEF U
  <2> QED
    BY <1>3, <1>4, <1>5, <2>1, UpTo
<1> QED
  BY <1>1, <1>3, <1>6 DEF Picks

\* The one of a list that is so.
Only(list, k, IsSo(_)) == \A i \in 1 .. Len(list) : IsSo(list[i]) <=> i = k

\* It is picked alone.
LEMMA ThoseOne ==
  ASSUME NEW IsSo(_), NEW S, NEW list \in Seq(S), NEW k \in 1 .. Len(list), Only(list, k, IsSo)
  PROVE  Those(list, IsSo) = <<list[k]>>
<1>1. PICK u : Picks(u, list, IsSo)
  BY ThoseRuns
<1> DEFINE U == {n \in 0 .. Len(list) : u[n] # IF n < k THEN <<>> ELSE <<list[k]>>}
<1>3. Len(list) \in Nat
  OBVIOUS
<1>4. 0 \notin U
  BY <1>1, <1>3 DEF Picks
<1>5. ASSUME NEW n \in 0 + 1 .. Len(list), n - 1 \notin U
      PROVE  n \notin U
  <2>1. u[n - 1] = IF n - 1 < k THEN <<>> ELSE <<list[k]>>
    BY <1>3, <1>5
  <2>2. /\ IsSo(list[n]) => u[n] = Append(u[n - 1], list[n])
        /\ ~IsSo(list[n]) => u[n] = u[n - 1]
    BY <1>3, <1>1 DEF Picks
  <2>3. IsSo(list[n]) <=> n = k
    BY <1>3 DEF Only
  <2>4. CASE n = k
    <3>1. u[n] = Append(<<>>, list[k])
      BY <2>1, <2>2, <2>3, <2>4, <1>3
    <3>2. Append(<<>>, list[k]) = <<list[k]>>
      OBVIOUS
    <3> QED
      BY <3>1, <3>2, <2>4
  <2>5. CASE n # k
    BY <2>1, <2>2, <2>3, <2>5, <1>3
  <2> QED
    BY <2>4, <2>5
<1>6. U = {}
  <2> HIDE DEF U
  <2>1. U \in SUBSET (0 .. Len(list))
    BY DEF U
  <2> QED
    BY <1>3, <1>4, <1>5, <2>1, UpTo
<1> QED
  BY <1>1, <1>3, <1>6 DEF Picks

-----------------------------------------------------------------------------
(* The walk over the segments of an address, by its components.            *)

\* A component has a value, or is a protocol by itself.
HasValue(c) == Len(c.segs) = 2

Shaped(c) ==
  \/ Len(c.segs) = 2 /\ c.segs = <<c.segs[1], c.segs[2]>> /\ TakesValue(c.segs[1])
  \/ Len(c.segs) = 1 /\ c.segs = <<c.segs[1]>>

\* Where its components are among the segments of an address: the kth follows place
\* off[k - 1].
Placed(off, a) ==
  /\ off[0] = 0 /\ \A k \in 0 .. Len(a) : off[k] \in Nat /\ off[k] <= Len(Segments(a))
  /\ \A k \in 1 .. Len(a) : /\ off[k] = off[k - 1] + (IF HasValue(a[k]) THEN 2 ELSE 1)
                            /\ Segments(a)[off[k - 1] + 1] = a[k].segs[1]
                            /\ HasValue(a[k]) => Segments(a)[off[k - 1] + 2] = a[k].segs[2]
  /\ Len(Segments(a)) = off[Len(a)]
  /\ \A p \in 1 .. Len(Segments(a)) : \E k \in 1 .. Len(a) :
        p = off[k - 1] + 1 \/ (HasValue(a[k]) /\ p = off[k - 1] + 2)

\* The components of an address are placed so.
LEMMA SegmentsPlaced ==
  ASSUME NEW C, NEW a \in Seq(C), \A i \in 1 .. Len(a) : Shaped(a[i])
  PROVE  (\E X : Segments(a) \in Seq(X)) /\ \E off : Placed(off, a)
<1> DEFINE L == Len(a)
           X == {a[i].segs[j] : i \in 1 .. L, j \in 1 .. 2}
           seqs == [i \in 1 .. L |-> a[i].segs]
<1>1. L \in Nat
  OBVIOUS
<1>2. \A i \in 1 .. L : /\ a[i].segs \in Seq(X)
                        /\ HasValue(a[i]) => Len(a[i].segs) = 2
                        /\ ~HasValue(a[i]) => Len(a[i].segs) = 1
  <2> SUFFICES ASSUME NEW i \in 1 .. L
               PROVE  /\ a[i].segs \in Seq(X)
                      /\ HasValue(a[i]) => Len(a[i].segs) = 2
                      /\ ~HasValue(a[i]) => Len(a[i].segs) = 1
    OBVIOUS
  <2>1. a[i].segs[1] \in X /\ a[i].segs[2] \in X
    <3>1. 1 \in 1 .. 2 /\ 2 \in 1 .. 2
      OBVIOUS
    <3>2. \A j \in 1 .. 2 : \E l \in 1 .. L : \E m \in 1 .. 2 : a[i].segs[j] = a[l].segs[m]
      BY Zenon
    <3>3. \A j \in 1 .. 2 : a[i].segs[j] \in X
      BY <3>2
    <3> HIDE DEF X
    <3> QED
      BY <3>1, <3>3
  <2> HIDE DEF X
  <2>2. <<a[i].segs[1]>> \in Seq(X) /\ <<a[i].segs[1], a[i].segs[2]>> \in Seq(X)
    BY <2>1
  <2>3. Shaped(a[i])
    OBVIOUS
  <2> QED
    BY <2>2, <2>3, Zenon DEF Shaped, HasValue
<1> HIDE DEF X
<1>3. seqs \in Seq(Seq(X)) /\ Len(seqs) = L /\ \A i \in 1 .. L : seqs[i] = a[i].segs
  BY <1>1, <1>2
<1>4. Segments(a) = FlattenSeq(seqs)
  BY DEF Segments
<1> HIDE DEF seqs
<1>5. PICK off : Laid(off, seqs)
  BY <1>3, FlatLaid
<1>6. Segments(a) \in Seq(X)
  BY <1>3, <1>4, FlatLaid
<1>7. Len(Segments(a)) = off[L] /\ off[0] = 0 /\ \A k \in 0 .. L : off[k] \in Nat /\ off[k] <= off[L]
  BY <1>3, <1>4, <1>5 DEF Laid
<1>8. ASSUME NEW k \in 1 .. L
      PROVE  /\ off[k] = off[k - 1] + (IF HasValue(a[k]) THEN 2 ELSE 1)
             /\ Segments(a)[off[k - 1] + 1] = a[k].segs[1]
             /\ HasValue(a[k]) => Segments(a)[off[k - 1] + 2] = a[k].segs[2]
  <2>1. /\ off[k] = off[k - 1] + Len(seqs[k])
        /\ \A j \in 1 .. Len(seqs[k]) : Segments(a)[off[k - 1] + j] = seqs[k][j]
    BY <1>3, <1>4, <1>5, Zenon DEF Laid
  <2>2. seqs[k] = a[k].segs /\ Len(seqs[k]) = (IF HasValue(a[k]) THEN 2 ELSE 1)
    BY <1>2, <1>3, Zenon
  <2>3. off[k] = off[k - 1] + (IF HasValue(a[k]) THEN 2 ELSE 1)
    BY <2>1, <2>2, Zenon
  <2>4. 1 \in 1 .. Len(seqs[k]) /\ (HasValue(a[k]) => 2 \in 1 .. Len(seqs[k]))
    BY <2>2
  <2> QED
    BY <2>1, <2>2, <2>3, <2>4, Zenon
<1>9. ASSUME NEW p \in 1 .. Len(Segments(a))
      PROVE  \E k \in 1 .. L : p = off[k - 1] + 1 \/ (HasValue(a[k]) /\ p = off[k - 1] + 2)
  <2>5. p \in 1 .. off[Len(seqs)]
    BY <1>3, <1>7, Zenon
  <2>1. PICK k \in 1 .. L : \E j \in 1 .. Len(seqs[k]) : p = off[k - 1] + j
    <3>1. \E k \in 1 .. Len(seqs) : \E j \in 1 .. Len(seqs[k]) : p = off[k - 1] + j
      BY <1>5, <2>5, Zenon DEF Laid
    <3> QED
      BY <1>3, <3>1, Zenon
  <2>2. PICK j \in 1 .. Len(seqs[k]) : p = off[k - 1] + j
    BY <2>1
  <2>3. Len(seqs[k]) = (IF HasValue(a[k]) THEN 2 ELSE 1)
    BY <1>2, <1>3, Zenon
  <2>4. j = 1 \/ (HasValue(a[k]) /\ j = 2)
    BY <2>3
  <2> QED
    BY <2>2, <2>4, Zenon
<1>10. Placed(off, a)
  BY <1>7, <1>8, <1>9, Zenon DEF Placed
<1> QED
  BY <1>6, <1>10

\* What the walk goes through.
Walks(isProtocol, parts) ==
  \A i \in 1 .. Len(parts) : isProtocol[i] <=> i = 1 \/ ~(isProtocol[i - 1] /\ TakesValue(parts[i - 1]))

\* The walk goes through such a function.
LEMMA WalkRuns ==
  ASSUME NEW S, NEW parts \in Seq(S)
  PROVE  \E f : /\ Walks(f, parts)
                /\ Protocols(parts) = {i \in 1 .. Len(parts) - 1 : f[i] /\ TakesValue(parts[i])}
<1> DEFINE L == Len(parts)
           Def(v, i) == ~(v /\ TakesValue(parts[i - 1]))
           h == CHOOSE g : g = [i \in 1 .. L |-> IF i = 1 THEN TRUE ELSE Def(g[i - 1], i)]
           isProtocol == CHOOSE g : g = [i \in 1 .. L |->
                            i = 1 \/ ~(g[i - 1] /\ TakesValue(parts[i - 1]))]
<1>1. L \in Nat
  OBVIOUS
<1>2. FiniteNatInductiveDefHypothesis(h, TRUE, Def, 1, L)
  BY DEF FiniteNatInductiveDefHypothesis
<1> HIDE DEF h
<1>3. FiniteNatInductiveDefConclusion(h, TRUE, Def, 1, L)
  BY <1>1, <1>2, FiniteNatInductiveDef
<1>4. h = [i \in 1 .. L |-> IF i = 1 THEN TRUE ELSE ~(h[i - 1] /\ TakesValue(parts[i - 1]))]
  BY <1>3 DEF FiniteNatInductiveDefConclusion
<1>5. h = [i \in 1 .. L |-> i = 1 \/ ~(h[i - 1] /\ TakesValue(parts[i - 1]))]
  <2>1. \A i \in 1 .. L : (IF i = 1 THEN TRUE ELSE ~(h[i - 1] /\ TakesValue(parts[i - 1])))
                = (i = 1 \/ ~(h[i - 1] /\ TakesValue(parts[i - 1])))
    BY Zenon
  <2> QED
    BY <1>4, <2>1, Zenon
<1>6. isProtocol = [i \in 1 .. L |-> i = 1 \/ ~(isProtocol[i - 1] /\ TakesValue(parts[i - 1]))]
  BY <1>5, Zenon
<1>7. Protocols(parts) = {i \in 1 .. L - 1 : isProtocol[i] /\ TakesValue(parts[i])}
  BY Zenon DEF Protocols
<1> HIDE DEF isProtocol
<1>8. Walks(isProtocol, parts)
  BY <1>6, Zenon DEF Walks
<1> QED
  BY <1>7, <1>8, Zenon

\* It reads the components as they are: a protocol at the first segment of each, and
\* those that have their value next to them are the ones that are looked at.
LEMMA WalkReads ==
  ASSUME NEW C, NEW a \in Seq(C), NEW off, Placed(off, a),
         \A i \in 1 .. Len(a) : Shaped(a[i]),
         \A i \in 1 .. Len(a) - 1 : HasValue(a[i]) \/ ~TakesValue(a[i].segs[1])
  PROVE  Protocols(Segments(a)) = {off[k - 1] + 1 : k \in {k \in 1 .. Len(a) : HasValue(a[k])}}
<1> DEFINE L == Len(a)
           parts == Segments(a)
<1>1. L \in Nat
  OBVIOUS
<1>2. PICK X : parts \in Seq(X)
  BY SegmentsPlaced
<1>11. PICK N \in Nat : N = Len(parts)
  BY <1>2
<1>3. PICK f : /\ \A i \in 1 .. N : f[i] <=> i = 1 \/ ~(f[i - 1] /\ TakesValue(parts[i - 1]))
               /\ Protocols(parts) = {i \in 1 .. N - 1 : f[i] /\ TakesValue(parts[i])}
  <2>1. PICK f : /\ Walks(f, parts)
                 /\ Protocols(parts) = {i \in 1 .. Len(parts) - 1 : f[i] /\ TakesValue(parts[i])}
    BY <1>2, WalkRuns
  <2> QED
    BY <1>11, <2>1, Zenon DEF Walks
<1>4. /\ off[0] = 0 /\ \A k \in 0 .. L : off[k] \in Nat /\ off[k] <= N
      /\ \A k \in 1 .. L : off[k] = off[k - 1] + (IF HasValue(a[k]) THEN 2 ELSE 1)
      /\ \A k \in 1 .. L : parts[off[k - 1] + 1] = a[k].segs[1]
      /\ N = off[L]
      /\ \A p \in 1 .. N : \E k \in 1 .. L :
            p = off[k - 1] + 1 \/ (HasValue(a[k]) /\ p = off[k - 1] + 2)
  BY <1>11, Zenon DEF Placed
<1> HIDE DEF parts
<1>5. ASSUME NEW k \in 1 .. L
      PROVE  /\ off[k - 1] \in Nat
             /\ HasValue(a[k]) => off[k] = off[k - 1] + 2 /\ TakesValue(a[k].segs[1])
             /\ ~HasValue(a[k]) => off[k] = off[k - 1] + 1
             /\ off[k] \in Nat /\ off[k] <= N
  <2>1. k - 1 \in 0 .. L /\ k \in 0 .. L
    BY <1>1
  <2>2. HasValue(a[k]) => TakesValue(a[k].segs[1])
    BY DEF Shaped, HasValue
  <2> QED
    BY <1>4, <2>1, <2>2, Zenon
<1>12. ASSUME NEW p \in 1 .. N - 1
       PROVE  f[p + 1] <=> ~(f[p] /\ TakesValue(parts[p]))
  <2>1. p + 1 \in 1 .. N /\ p + 1 # 1 /\ (p + 1) - 1 = p
    BY <1>11
  <2> QED
    BY <1>3, <2>1, Zenon
<1> DEFINE U == {k \in 1 .. L : ~f[off[k - 1] + 1]}
<1>6. 1 \notin U
  <2> SUFFICES ASSUME 1 \in 1 .. L PROVE f[off[1 - 1] + 1]
    OBVIOUS
  <2>1. off[1 - 1] + 1 = 1 /\ 1 \in 1 .. N
    <3>1. off[1 - 1] = 0
      BY <1>4
    <3>2. off[1] >= 1
      BY <1>5, <3>1
    <3> QED
      BY <1>4, <1>5, <3>1, <3>2
  <2> QED
    BY <1>3, <2>1
<1>7. ASSUME NEW n \in 1 + 1 .. L, n - 1 \notin U
      PROVE  n \notin U
  <2>1. PICK m \in 1 .. L - 1 : m = n - 1 /\ m \in 1 .. L /\ n \in 1 .. L
    BY <1>1
  <2>2. f[off[m - 1] + 1]
    BY <1>7, <2>1
  <2>3. /\ off[m - 1] \in Nat /\ off[m] \in Nat /\ off[n] \in Nat /\ off[n] <= N
        /\ off[n] = off[m] + 1 \/ off[n] = off[m] + 2
        /\ parts[off[m - 1] + 1] = a[m].segs[1]
    <3>1. off[n - 1] = off[m]
      BY <2>1
    <3>2. off[n] = off[n - 1] + 1 \/ off[n] = off[n - 1] + 2
      BY <1>5, <2>1, Zenon
    <3>3. parts[off[m - 1] + 1] = a[m].segs[1]
      BY <1>4, <2>1, Zenon
    <3> QED
      BY <1>5, <2>1, <3>1, <3>2, <3>3, Zenon
  <2>4. PICK x \in Nat, y \in Nat, z \in Nat : x = off[m - 1] /\ y = off[m] /\ z = off[n]
    BY <2>3, Zenon
  <2>5. z <= N /\ (z = y + 1 \/ z = y + 2) /\ parts[x + 1] = a[m].segs[1] /\ f[x + 1]
    BY <2>2, <2>3, <2>4, Zenon
  <2>6. CASE HasValue(a[m])
    <3>1. y = x + 2 /\ TakesValue(a[m].segs[1])
      BY <1>5, <2>1, <2>4, <2>6, Zenon
    <3>2. x + 1 \in 1 .. N - 1 /\ y \in 1 .. N - 1 /\ (x + 1) + 1 = y
      <4>1. y = x + 2 /\ z <= N /\ (z = y + 1 \/ z = y + 2) /\ N \in Nat
        BY <2>5, <3>1, Zenon
      <4> QED
        BY <4>1
    <3>3. ~f[y]
      BY <1>12, <2>5, <3>1, <3>2, Zenon
    <3> QED
      BY <1>12, <2>1, <2>4, <3>2, <3>3, Zenon
  <2>7. CASE ~HasValue(a[m])
    <3>1. y = x + 1 /\ ~TakesValue(a[m].segs[1])
      BY <1>5, <2>1, <2>4, <2>7, Zenon
    <3>2. x + 1 \in 1 .. N - 1
      <4>1. y = x + 1 /\ z <= N /\ (z = y + 1 \/ z = y + 2) /\ N \in Nat
        BY <2>5, <3>1, Zenon
      <4> QED
        BY <4>1
    <3> QED
      BY <1>12, <2>1, <2>4, <2>5, <3>1, <3>2, Zenon
  <2> QED
    BY <2>6, <2>7
<1>8. U = {}
  <2> HIDE DEF U
  <2>1. U \in SUBSET (1 .. L) /\ 1 \in Nat
    BY DEF U
  <2> QED
    BY <1>1, <1>6, <1>7, <2>1, UpTo
<1>9. ASSUME NEW k \in 1 .. L, HasValue(a[k])
      PROVE  off[k - 1] + 1 \in Protocols(parts) /\ off[k - 1] + 2 \notin Protocols(parts)
  <2>1. off[k] = off[k - 1] + 2 /\ TakesValue(a[k].segs[1]) /\ off[k - 1] \in Nat
        /\ off[k] <= N
    BY <1>5, <1>9
  <2>2. PICK x \in Nat : x = off[k - 1]
    BY <2>1, Zenon
  <2>3. x + 2 <= N /\ parts[x + 1] = a[k].segs[1] /\ f[x + 1]
    BY <1>4, <1>8, <2>1, <2>2
  <2>4. x + 1 \in 1 .. N - 1 /\ (x + 1) + 1 = x + 2
    BY <1>11, <2>3
  <2>5. ~f[x + 2]
    BY <1>12, <2>1, <2>3, <2>4, Zenon
  <2> QED
    BY <1>3, <2>1, <2>2, <2>3, <2>4, <2>5, Zenon
<1>10. ASSUME NEW p \in Protocols(parts)
       PROVE  \E k \in 1 .. L : HasValue(a[k]) /\ p = off[k - 1] + 1
  <2>1. p \in 1 .. N - 1 /\ p \in 1 .. N /\ TakesValue(parts[p])
    BY <1>3, <1>4
  <2>2. PICK k \in 1 .. L : p = off[k - 1] + 1 \/ (HasValue(a[k]) /\ p = off[k - 1] + 2)
    BY <1>4, <2>1
  <2>3. CASE HasValue(a[k])
    BY <1>9, <2>2, <2>3
  <2>4. CASE ~HasValue(a[k])
    <3>1. p = off[k - 1] + 1 /\ parts[p] = a[k].segs[1] /\ off[k] = p
      BY <1>4, <1>5, <2>2, <2>4
    <3>2. k = L
      BY <1>1, <2>1, <2>4, <3>1
    <3> QED
      BY <1>4, <2>1, <3>1, <3>2
  <2> QED
    BY <2>3, <2>4
<1> QED
  BY <1>9, <1>10 DEF parts

-----------------------------------------------------------------------------
(* Literals with colons.  A text between two separators is a hexadecimal   *)
(* group or a dotted quad, which makes two.                                *)

Group == {n \in Nat : n < 65536}
Octet == {n \in Nat : n < 256}
Field == (1 .. 3) \X Octet
Quad == {fields \in Seq(Field) : Len(fields) = 4}
GroupText == {<<"hex", <<w, n>>>> : w \in 1 .. 4, n \in Group}
               \cup {<<"dotted", fields>> : fields \in Quad}

\* The groups of some texts, in one sequence.
Standing(texts) == FlattenSeq([k \in 1 .. Len(texts) |-> GroupsOf(texts[k])])

\* The texts with a separator between any two.
Parted(texts) ==
  [p \in 1 .. (IF texts = <<>> THEN 0 ELSE 2 * Len(texts) - 1) |->
      IF p % 2 = 1 THEN texts[(p + 1) \div 2] ELSE Sep]

\* A literal is the texts before the gap, those after it, and its scope.
Literals ==
  {l \in [before : Seq(GroupText), gap : BOOLEAN, after : Seq(GroupText), scope : BOOLEAN] :
     LET size == Len(Standing(l.before)) + Len(Standing(l.after))
     IN IF l.gap THEN size <= 7 ELSE l.after = <<>> /\ size = 8}

Spelled(l) ==
  Parted(l.before) \o (IF l.gap THEN <<Sep, Sep>> \o Parted(l.after) ELSE <<>>)
    \o (IF l.scope THEN <<Scope>> ELSE <<>>)

\* The groups it stands for.
Value(l) ==
  Standing(l.before)
    \o [k \in 1 .. 8 - (Len(Standing(l.before)) + Len(Standing(l.after))) |-> 0]
    \o Standing(l.after)

\* A text stands for one group or two, and is no separator.
LEMMA TextGroups ==
  ASSUME NEW t \in GroupText
  PROVE  GroupsOf(t) \in Seq(Group) /\ GroupsOf(t) # Unreadable /\ t # Sep /\ t # Scope
<1>1. ASSUME NEW w \in 1 .. 4, NEW n \in Group, t = <<"hex", <<w, n>>>>
      PROVE  GroupsOf(t) = <<n>> /\ t # Sep /\ t # Scope
  BY <1>1 DEF GroupsOf, ParseHex16, Sep, Scope
<1>2. ASSUME NEW fields \in Quad, t = <<"dotted", fields>>
      PROVE  /\ GroupsOf(t) \in Seq(Group) /\ GroupsOf(t) # Unreadable
             /\ t # Sep /\ t # Scope
  <2>1. Len(fields) = 4 /\ fields \in Seq(Field)
    BY DEF Quad
  <2>2. \A k \in 1 .. 4 : fields[k] \in Field
    BY <2>1
  <2>3. \A k \in 1 .. 4 : fields[k][2] \in Octet /\ ParseU8(fields[k])
    BY <2>2 DEF ParseU8, Field, Octet
  <2> DEFINE v4 == [k \in 1 .. 4 |-> fields[k][2]]
  <2>4. ParseIp4(fields) = v4 /\ v4 # Unreadable
    BY <2>1, <2>3 DEF ParseIp4, Unreadable
  <2>5. /\ 256 * v4[1] + v4[2] \in Group
        /\ 256 * v4[3] + v4[4] \in Group
    <3>1. ASSUME NEW x \in Octet, NEW y \in Octet PROVE 256 * x + y \in Group
      <4>1. x \in Nat /\ x < 256 /\ y \in Nat /\ y < 256
        BY DEF Octet
      <4>2. 256 * x + y \in Nat /\ 256 * x + y < 65536
        BY <4>1
      <4> QED
        BY <4>2 DEF Group
    <3>2. \A k \in 1 .. 4 : v4[k] \in Octet
      BY <2>3
    <3> HIDE DEF v4
    <3> QED
      BY <3>1, <3>2
  <2> HIDE DEF v4
  <2>6. GroupsOf(t) = <<256 * v4[1] + v4[2], 256 * v4[3] + v4[4]>>
    BY <1>2, <2>4 DEF GroupsOf
  <2>7. t[1] = "dotted"
    BY <1>2
  <2> QED
    BY <2>5, <2>6, <2>7 DEF Unreadable, Sep, Scope
<1>3. CASE \E w \in 1 .. 4, n \in Group : t = <<"hex", <<w, n>>>>
  <2>1. PICK w \in 1 .. 4, n \in Group : t = <<"hex", <<w, n>>>>
    BY <1>3
  <2>2. <<n>> \in Seq(Group) /\ <<n>> # Unreadable
    BY DEF Unreadable
  <2> QED
    BY <1>1, <2>1, <2>2, Zenon
<1>4. CASE \E fields \in Quad : t = <<"dotted", fields>>
  BY <1>2, <1>4, Zenon
<1>5. \/ \E w \in 1 .. 4, n \in Group : t = <<"hex", <<w, n>>>>
      \/ \E fields \in Quad : t = <<"dotted", fields>>
  BY SMT DEF GroupText
<1> QED
  BY <1>3, <1>4, <1>5, Zenon

\* What the texts up to a place stand for, together.
Stands(h, texts) ==
  /\ h[0] = <<>> /\ h[Len(texts)] = Standing(texts)
  /\ \A k \in 1 .. Len(texts) : h[k] = h[k - 1] \o GroupsOf(texts[k])
  /\ \A k \in 0 .. Len(texts) : h[k] \in Seq(Group) /\ Len(h[k]) <= Len(Standing(texts))

\* What some texts stand for are groups, and the texts up to a place stand for the first
\* of them.
LEMMA StandingRuns ==
  ASSUME NEW texts \in Seq(GroupText)
  PROVE  Standing(texts) \in Seq(Group) /\ \E h : Stands(h, texts)
<1> DEFINE L == Len(texts)
           seqs == [k \in 1 .. L |-> GroupsOf(texts[k])]
<1>1. L \in Nat /\ \A k \in 1 .. L : texts[k] \in GroupText
  OBVIOUS
<1>2. seqs \in Seq(Seq(Group)) /\ Len(seqs) = L /\ \A k \in 1 .. L : seqs[k] = GroupsOf(texts[k])
  BY <1>1, TextGroups
<1>3. Standing(texts) = FlattenSeq(seqs)
  BY DEF Standing
<1> HIDE DEF seqs
<1>4. Standing(texts) \in Seq(Group)
  BY <1>2, <1>3, FlatLaid
<1>5. CASE seqs = <<>>
  <2> DEFINE h == [k \in {0} |-> <<>>]
  <2>1. Standing(texts) = <<>> /\ L = 0 /\ h[0] = <<>> /\ <<>> \in Seq(Group) /\ Len(<<>>) = 0
    BY <1>2, <1>3, <1>5 DEF FlattenSeq
  <2> HIDE DEF h
  <2>3. ASSUME NEW k \in 0 .. L PROVE h[k] \in Seq(Group) /\ Len(h[k]) <= Len(Standing(texts))
    <3>1. k = 0
      BY <2>1
    <3>2. h[k] = <<>> /\ Len(h[k]) = 0 /\ Len(Standing(texts)) = 0
      BY <2>1, <3>1, Zenon
    <3>3. h[k] \in Seq(Group)
      BY <2>1, <3>2, Zenon
    <3> QED
      BY <3>2, <3>3
  <2>4. ASSUME NEW k \in 1 .. L PROVE FALSE
    BY <2>1
  <2>5. h[L] = Standing(texts) /\ h[0] = <<>>
    BY <2>1, Zenon
  <2>2. Stands(h, texts)
    BY <2>3, <2>4, <2>5, Zenon DEF Stands
  <2> QED
    BY <1>4, <2>2
<1>6. CASE seqs # <<>>
  <2>1. PICK f : Flattens(f, seqs) /\ FlattenSeq(seqs) = f[Len(seqs)]
    BY <1>2, <1>6, FlatRuns
  <2>2. L \in Nat \ {0}
    BY <1>1, <1>2, <1>6
  <2>3. PICK h : h[0] = <<>> /\ \A k \in 1 .. L : h[k] = f[k]
    <3> DEFINE g == [k \in 0 .. L |-> IF k = 0 THEN <<>> ELSE f[k]]
    <3>1. g[0] = <<>> /\ \A k \in 1 .. L : g[k] = f[k]
      BY <1>1
    <3> QED
      BY <3>1
  <2>4. \A k \in 1 .. L : f[k] = IF k = 1 THEN seqs[k] ELSE f[k - 1] \o seqs[k]
    BY <1>2, <2>1, Zenon DEF Flattens
  <2>5. ASSUME NEW k \in 1 .. L
        PROVE  h[k] = h[k - 1] \o GroupsOf(texts[k])
    <3>1. CASE k = 1
      <4>1. h[k] = GroupsOf(texts[k]) /\ h[k - 1] = <<>>
        BY <1>2, <2>3, <2>4, <3>1
      <4>2. GroupsOf(texts[k]) \in Seq(Group)
        BY <1>1, TextGroups
      <4> QED
        BY <4>1, <4>2
    <3>2. CASE k # 1
      <4>1. k - 1 \in 1 .. L
        BY <1>1, <3>2
      <4> QED
        BY <1>2, <2>3, <2>4, <3>2, <4>1
    <3> QED
      BY <3>1, <3>2
  <2> DEFINE U == {n \in 0 .. L : ~(h[n] \in Seq(Group))}
             V == {n \in 0 .. L : ~(Len(h[L - n]) <= Len(h[L]))}
  <2>6. 0 \notin U
    <3>1. <<>> \in Seq(Group)
      OBVIOUS
    <3> QED
      BY <2>3, <3>1, Zenon
  <2>7. ASSUME NEW n \in 0 + 1 .. L, n - 1 \notin U
        PROVE  n \notin U
    <3>0. n \in 1 .. L /\ n - 1 \in 0 .. L
      BY <1>1
    <3>1. h[n - 1] \in Seq(Group)
      BY <2>7, <3>0, Zenon
    <3>4. GroupsOf(texts[n]) \in Seq(Group)
      BY <1>1, <3>0, TextGroups, Zenon
    <3>2. h[n] = h[n - 1] \o GroupsOf(texts[n])
      BY <2>5, <3>0, Zenon
    <3>3. h[n] \in Seq(Group)
      BY <3>1, <3>2, <3>4, Joins, Zenon
    <3> QED
      BY <3>3, Zenon
  <2>8. U = {}
    <3> HIDE DEF U
    <3>1. U \in SUBSET (0 .. L)
      BY DEF U
    <3> QED
      BY <1>1, <2>6, <2>7, <3>1, UpTo
  <2>9. \A n \in 0 .. L : h[n] \in Seq(Group) /\ Len(h[n]) \in Nat
    BY <2>8
  <2>10. 0 \notin V
    BY <1>1, <2>9
  <2>11. ASSUME NEW n \in 0 + 1 .. L, n - 1 \notin V
         PROVE  n \notin V
    <3>1. PICK k \in 1 .. L : k = L - (n - 1) /\ k - 1 = L - n /\ k - 1 \in 0 .. L /\ k \in 0 .. L
                              /\ L \in 0 .. L /\ n - 1 \in 0 .. L
      <4>1. /\ L - (n - 1) \in 1 .. L /\ (L - (n - 1)) - 1 = L - n /\ L - n \in 0 .. L
            /\ L - (n - 1) \in 0 .. L /\ L \in 0 .. L /\ n - 1 \in 0 .. L
        BY <1>1
      <4> QED
        BY <4>1, Zenon
    <3>2. Len(h[k]) <= Len(h[L])
      BY <2>11, <3>1
    <3>3. Len(h[k]) = Len(h[k - 1]) + Len(GroupsOf(texts[k])) /\ Len(GroupsOf(texts[k])) \in Nat
      <4>1. GroupsOf(texts[k]) \in Seq(Group) /\ h[k - 1] \in Seq(Group)
        BY <1>1, <2>9, <3>1, TextGroups
      <4>2. h[k] = h[k - 1] \o GroupsOf(texts[k])
        BY <2>5
      <4> QED
        BY <4>1, <4>2, Joins, Zenon
    <3>4. Len(h[k - 1]) <= Len(h[L])
      <4> DEFINE u == Len(h[k - 1])
                 v == Len(h[k])
                 w == Len(h[L])
                 z == Len(GroupsOf(texts[k]))
      <4>1. u \in Nat /\ v \in Nat /\ w \in Nat /\ z \in Nat /\ v = u + z /\ v <= w
        BY <2>9, <3>1, <3>2, <3>3
      <4> HIDE DEF u, v, w, z
      <4>2. u <= w
        BY <4>1
      <4> QED
        BY <4>2 DEF u, w
    <3> QED
      BY <3>1, <3>4
  <2>12. V = {}
    <3> HIDE DEF V
    <3>1. V \in SUBSET (0 .. L)
      BY DEF V
    <3> QED
      BY <1>1, <2>10, <2>11, <3>1, UpTo
  <2>13. ASSUME NEW k \in 0 .. L
         PROVE  Len(h[k]) <= Len(h[L])
    <3>1. PICK n \in 0 .. L : k = L - n
      <4>1. L - k \in 0 .. L /\ k = L - (L - k)
        BY <1>1
      <4> QED
        BY <4>1
    <3> QED
      BY <2>12, <3>1
  <2>14. h[L] = Standing(texts)
    BY <1>2, <1>3, <2>1, <2>2, <2>3
  <2>15. Stands(h, texts)
    BY <2>3, <2>5, <2>9, <2>13, <2>14, Zenon DEF Stands
  <2> QED
    BY <1>4, <2>15
<1> QED
  BY <1>5, <1>6

-----------------------------------------------------------------------------
(* The rounds over a literal.                                              *)

\* The walk between two rounds, with nothing against the literal so far.
Going(head, tail, gap) ==
  [head |-> head, tail |-> tail, gap |-> gap, paired |-> FALSE, ok |-> TRUE]

\* A walk is known by its fields.
Fields == {"head", "tail", "gap", "paired", "ok"}
Has(r, head, tail, gap, paired, ok) ==
  /\ r = [f \in Fields |-> r[f]]
  /\ r.head = head /\ r.tail = tail /\ r.gap = gap /\ r.paired = paired /\ r.ok = ok

\* Two walks with the same fields are the same.
LEMMA SameWalk ==
  ASSUME NEW r, NEW q, NEW head, NEW tail, NEW gap, NEW paired, NEW ok,
         Has(r, head, tail, gap, paired, ok), Has(q, head, tail, gap, paired, ok)
  PROVE  r = q
<1>1. \A f \in Fields : r[f] = q[f]
  <2>1. \A f \in Fields : f = "head" \/ f = "tail" \/ f = "gap" \/ f = "paired" \/ f = "ok"
    BY Zenon DEF Fields
  <2> QED
    BY <2>1, Zenon DEF Has
<1> QED
  BY <1>1, Zenon DEF Has

\* The fields of a walk that goes on.
LEMMA Begun ==
  ASSUME NEW head, NEW tail, NEW gap
  PROVE  Has(Going(head, tail, gap), head, tail, gap, FALSE, TRUE)
BY DEF Going, Has, Fields

\* What a text after the gap sets.
LEMMA SetTail ==
  ASSUME NEW head, NEW tail, NEW all
  PROVE  [Going(head, tail, TRUE) EXCEPT !.tail = all] = Going(head, all, TRUE)
<1>1. Has([Going(head, tail, TRUE) EXCEPT !.tail = all], head, all, TRUE, FALSE, TRUE)
  BY DEF Going, Has, Fields
<1>2. Has(Going(head, all, TRUE), head, all, TRUE, FALSE, TRUE)
  BY Begun
<1> QED
  BY <1>1, <1>2, SameWalk

\* What a text before the gap sets.
LEMMA SetHead ==
  ASSUME NEW head, NEW all, NEW tail
  PROVE  [Going(head, tail, FALSE) EXCEPT !.head = all] = Going(all, tail, FALSE)
<1> DEFINE r == [Going(head, tail, FALSE) EXCEPT !.head = all]
<1>1. Has(r, all, tail, FALSE, FALSE, TRUE)
  BY DEF Going, Has, Fields
<1>2. Has(Going(all, tail, FALSE), all, tail, FALSE, FALSE, TRUE)
  BY Begun
<1> HIDE DEF r
<1>3. r = Going(all, tail, FALSE)
  BY <1>1, <1>2, SameWalk
<1> QED
  BY <1>3 DEF r

\* What a single separator sets.
LEMMA SetOk ==
  ASSUME NEW head, NEW tail, NEW gap \in BOOLEAN
  PROVE  [Going(head, tail, gap) EXCEPT !.ok = TRUE] = Going(head, tail, gap)
<1>1. Has([Going(head, tail, gap) EXCEPT !.ok = TRUE], head, tail, gap, FALSE, TRUE)
  BY DEF Going, Has, Fields
<1>2. Has(Going(head, tail, gap), head, tail, gap, FALSE, TRUE)
  BY Begun
<1> QED
  BY <1>1, <1>2, SameWalk

\* What the two separators of the gap set.
LEMMA SetGap ==
  ASSUME NEW head, NEW tail
  PROVE  [[Going(head, tail, FALSE) EXCEPT !.ok = TRUE, !.gap = TRUE, !.paired = TRUE]
             EXCEPT !.paired = FALSE] = Going(head, tail, TRUE)
<1>1. Has([[Going(head, tail, FALSE) EXCEPT !.ok = TRUE, !.gap = TRUE, !.paired = TRUE]
             EXCEPT !.paired = FALSE], head, tail, TRUE, FALSE, TRUE)
  BY DEF Going, Has, Fields
<1>2. Has(Going(head, tail, TRUE), head, tail, TRUE, FALSE, TRUE)
  BY Begun
<1> QED
  BY <1>1, <1>2, SameWalk

\* The side on which groups go now.
Side(front, side, gap) == IF gap THEN Going(front, side, TRUE) ELSE Going(side, front, FALSE)

\* A round takes the side from one sequence of groups to another.
Takes(s, i, front, side, to, gap) ==
  Round(s, Side(front, side, gap), i) = Side(front, to, gap)

\* A round that reads a text places its groups.
LEMMA RoundText ==
  ASSUME NEW s, NEW i, NEW t \in GroupText, s[i] = t,
         NEW front, NEW side, NEW gap \in BOOLEAN,
         Len(side \o GroupsOf(t)) \in Nat, Len(side \o GroupsOf(t)) <= 8
  PROVE  Takes(s, i, front, side, side \o GroupsOf(t), gap)
<1> DEFINE all == side \o GroupsOf(t)
<1>1. GroupsOf(t) # Unreadable /\ t # Sep
  BY TextGroups
<1>2. ~(Len(all) > 8)
  OBVIOUS
<1>3. CASE gap
  <2>1. Place(Going(front, side, TRUE), GroupsOf(t)) = [Going(front, side, TRUE) EXCEPT !.tail = all]
    <3>1. Going(front, side, TRUE).gap /\ Going(front, side, TRUE).tail = side
      BY DEF Going
    <3> HIDE DEF all
    <3> QED
      BY <1>1, <1>2, <3>1, Zenon DEF Place, all
  <2>2. [Going(front, side, TRUE) EXCEPT !.tail = all] = Going(front, all, TRUE)
    BY SetTail
  <2>3. Round(s, Going(front, side, TRUE), i) = Place(Going(front, side, TRUE), GroupsOf(t))
    <3>1. Going(front, side, TRUE).ok = TRUE /\ Going(front, side, TRUE).paired = FALSE
      BY DEF Going
    <3> QED
      BY <1>1, <3>1 DEF Round
  <2> QED
    BY <1>3, <2>1, <2>2, <2>3 DEF Takes, Side
<1>4. CASE ~gap
  <2>1. Place(Going(side, front, FALSE), GroupsOf(t)) = [Going(side, front, FALSE) EXCEPT !.head = all]
    <3>1. ~Going(side, front, FALSE).gap /\ Going(side, front, FALSE).head = side
      BY DEF Going
    <3> HIDE DEF all
    <3> QED
      BY <1>1, <1>2, <3>1, Zenon DEF Place, all
  <2>2. [Going(side, front, FALSE) EXCEPT !.head = all] = Going(all, front, FALSE)
    <3>1. \A h, x : [Going(h, front, FALSE) EXCEPT !.head = x] = Going(x, front, FALSE)
      BY SetHead
    <3>2. \A h : [Going(h, front, FALSE) EXCEPT !.head = all] = Going(all, front, FALSE)
      BY <3>1
    <3> QED
      BY <3>2
  <2>3. Round(s, Going(side, front, FALSE), i) = Place(Going(side, front, FALSE), GroupsOf(t))
    <3>1. Going(side, front, FALSE).ok = TRUE /\ Going(side, front, FALSE).paired = FALSE
      BY DEF Going
    <3> QED
      BY <1>1, <3>1 DEF Round
  <2> QED
    BY <1>4, <2>1, <2>2, <2>3 DEF Takes, Side
<1> QED
  BY <1>3, <1>4

\* A round that reads a separator changes nothing, unless it opens the gap.
LEMMA RoundSep ==
  ASSUME NEW s, NEW i, s[i] = Sep, i # 1, ~(i < Len(s) /\ s[i + 1] = Sep),
         NEW front, NEW side, NEW gap \in BOOLEAN
  PROVE  Takes(s, i, front, side, side, gap)
<1> DEFINE walk == Side(front, side, gap)
<1>1. walk.ok = TRUE /\ walk.paired = FALSE
  BY DEF Side, Going
<1>3. [walk EXCEPT !.ok = TRUE] = walk
  BY SetOk DEF Side
<1> HIDE DEF walk
<1>2. Round(s, walk, i) = [walk EXCEPT !.ok = i # 1]
  BY <1>1 DEF Round
<1> QED
  BY <1>2, <1>3 DEF walk, Takes

\* Two separators open it.
LEMMA RoundGap ==
  ASSUME NEW s, NEW i \in Nat, s[i] = Sep, i < Len(s), s[i + 1] = Sep, NEW head
  PROVE  Round(s, Round(s, Going(head, <<>>, FALSE), i), i + 1) = Going(head, <<>>, TRUE)
<1> DEFINE walk == Going(head, <<>>, FALSE)
           then == [walk EXCEPT !.ok = TRUE, !.gap = TRUE, !.paired = TRUE]
<1>1. walk.ok = TRUE /\ walk.paired = FALSE /\ walk.gap = FALSE
  BY DEF Going
<1>2. then.ok = TRUE /\ then.paired = TRUE
  BY DEF Going
<1>3. [then EXCEPT !.paired = FALSE] = Going(head, <<>>, TRUE)
  BY SetGap
<1>4. Round(s, walk, i) = then
  <2> HIDE DEF walk
  <2> QED
    BY <1>1 DEF Round
<1>5. Round(s, then, i + 1) = [then EXCEPT !.paired = FALSE]
  <2> HIDE DEF walk, then
  <2> QED
    BY <1>2 DEF Round
<1> QED
  BY <1>3, <1>4, <1>5, Zenon

Token == GroupText \cup {Sep, Scope}

\* Where the texts and the separators are.
LEMMA PartedReads ==
  ASSUME NEW texts \in Seq(GroupText), NEW L, L = Len(texts)
  PROVE  /\ Parted(texts) \in Seq(Token)
         /\ L = 0 => Parted(texts) = <<>>
         /\ L # 0 => Len(Parted(texts)) = 2 * L - 1
         /\ \A k \in 1 .. L : Parted(texts)[2 * k - 1] = texts[k]
         /\ \A k \in 2 .. L : Parted(texts)[2 * k - 2] = Sep
         /\ \A p \in 1 .. Len(Parted(texts)) : Parted(texts)[p] # Scope
<1>1. L \in Nat /\ \A k \in 1 .. L : texts[k] \in GroupText
  OBVIOUS
<1>2. PICK N \in Nat : N = IF texts = <<>> THEN 0 ELSE 2 * L - 1
  <2>1. texts = <<>> \/ L # 0
    OBVIOUS
  <2>2. 0 \in Nat /\ (L # 0 => 2 * L - 1 \in Nat)
    BY <1>1
  <2> QED
    BY <2>1, <2>2
<1>3. (L = 0 <=> N = 0) /\ (L # 0 => N = 2 * L - 1)
  <2>1. texts = <<>> <=> L = 0
    BY <1>1
  <2> QED
    BY <1>1, <1>2, <2>1
<1>4. Parted(texts) = [p \in 1 .. N |-> IF p % 2 = 1 THEN texts[(p + 1) \div 2] ELSE Sep]
  BY <1>2 DEF Parted
<1>5. \A p \in 1 .. N : p % 2 = 1 => (p + 1) \div 2 \in 1 .. L
  BY <1>1, <1>3
<1>6. \A p \in 1 .. N : (IF p % 2 = 1 THEN texts[(p + 1) \div 2] ELSE Sep) \in GroupText \cup {Sep}
  <2> SUFFICES ASSUME NEW p \in 1 .. N
               PROVE  (IF p % 2 = 1 THEN texts[(p + 1) \div 2] ELSE Sep) \in GroupText \cup {Sep}
    OBVIOUS
  <2>1. p % 2 = 1 => texts[(p + 1) \div 2] \in GroupText
    BY <1>1, <1>5, Zenon
  <2> QED
    BY <2>1, Zenon
<1>7. Parted(texts) \in [1 .. N -> Token] /\ Parted(texts) \in Seq(Token) /\ Len(Parted(texts)) = N
  <2>1. \A p \in 1 .. N : (IF p % 2 = 1 THEN texts[(p + 1) \div 2] ELSE Sep) \in Token
    BY <1>6, Zenon DEF Token
  <2>2. Parted(texts) \in [1 .. N -> Token]
    BY <1>4, <2>1, Zenon
  <2> QED
    BY <2>2
<1>8. \A k \in 1 .. L : /\ 2 * k - 1 \in 1 .. N /\ (2 * k - 1) % 2 = 1
                        /\ ((2 * k - 1) + 1) \div 2 = k
  BY <1>1, <1>3
<1>9. \A k \in 2 .. L : 2 * k - 2 \in 1 .. N /\ (2 * k - 2) % 2 # 1
  BY <1>1, <1>3
<1>10. \A k \in 1 .. L : Parted(texts)[2 * k - 1] = texts[k]
  BY <1>4, <1>8, Zenon
<1>11. \A k \in 2 .. L : Parted(texts)[2 * k - 2] = Sep
  BY <1>4, <1>9, Zenon
<1>12. \A p \in 1 .. N : Parted(texts)[p] # Scope
  <2>1. \A t \in GroupText : t # Scope
    BY TextGroups
  <2>2. Sep # Scope
    BY DEF Sep, Scope
  <2>3. \A t \in GroupText \cup {Sep} : t # Scope
    BY <2>1, <2>2
  <2> QED
    BY <1>4, <1>6, <2>3, Zenon
<1>13. L = 0 => Parted(texts) = <<>>
  BY <1>3, <1>7
<1> QED
  BY <1>3, <1>7, <1>10, <1>11, <1>12, <1>13

\* The rounds over a text.
Rounds(w, s) == \A i \in 1 .. Len(s) : w[i] = Round(s, w[i - 1], i)

\* Where some texts of a literal are: the pth token of theirs is the one at place from + p.
Placing(s, from, texts) ==
  /\ from \in Nat /\ from + Len(Parted(texts)) <= Len(s)
  /\ \A p \in 1 .. Len(Parted(texts)) : s[from + p] = Parted(texts)[p]

\* The rounds over them place what they stand for.
Reaches(s, w, from, texts, front, gap) ==
  /\ s \in Seq(Token) /\ Rounds(w, s)
  /\ texts \in Seq(GroupText) /\ Placing(s, from, texts) /\ Len(Standing(texts)) <= 8
  /\ gap \in BOOLEAN /\ w[from] = Side(front, <<>>, gap)
Leaves(w, from, texts, front, gap) ==
  w[from + Len(Parted(texts))] = Side(front, Standing(texts), gap)

\* A walk that reaches the first of them leaves the last one so.
LEMMA Stretch ==
  ASSUME NEW s, NEW w, NEW from, NEW texts, NEW front, NEW gap,
         Reaches(s, w, from, texts, front, gap)
  PROVE  Leaves(w, from, texts, front, gap)
<1>0. /\ s \in Seq(Token) /\ Rounds(w, s)
      /\ texts \in Seq(GroupText) /\ Placing(s, from, texts) /\ Len(Standing(texts)) <= 8
      /\ gap \in BOOLEAN /\ w[from] = Side(front, <<>>, gap)
  BY Zenon DEF Reaches
<1> SUFFICES ASSUME s \in Seq(Token), Rounds(w, s),
                    texts \in Seq(GroupText), Placing(s, from, texts), Len(Standing(texts)) <= 8,
                    gap \in BOOLEAN, w[from] = Side(front, <<>>, gap)
             PROVE  w[from + Len(Parted(texts))] = Side(front, Standing(texts), gap)
  BY <1>0, Zenon DEF Leaves
<1>1. PICK L \in Nat : L = Len(texts)
  OBVIOUS
<1>2. PICK N \in Nat : N = Len(s)
  OBVIOUS
<1>3. PICK P \in Nat : P = Len(Parted(texts)) /\ (L # 0 => P = 2 * L - 1) /\ (L = 0 => P = 0)
  <2>1. /\ Parted(texts) \in Seq(Token) /\ (L = 0 => Parted(texts) = <<>>)
        /\ (L # 0 => Len(Parted(texts)) = 2 * L - 1)
    BY <1>1, PartedReads
  <2> QED
    BY <2>1
<1>4. /\ from \in Nat /\ from + P <= N
      /\ \A p \in 1 .. P : s[from + p] = Parted(texts)[p]
  BY <1>2, <1>3, Zenon DEF Placing
<1>16. (L # 0 => P = 2 * L - 1) /\ (L = 0 => P = 0) /\ from \in Nat /\ from + P <= N
  BY <1>3, <1>4, Zenon
<1>5. PICK h : Stands(h, texts)
  BY StandingRuns
<1>6. /\ h[0] = <<>> /\ h[L] = Standing(texts)
      /\ \A k \in 1 .. L : h[k] = h[k - 1] \o GroupsOf(texts[k])
      /\ \A k \in 0 .. L : h[k] \in Seq(Group) /\ Len(h[k]) <= Len(Standing(texts))
  BY <1>1, <1>5, Zenon DEF Stands
<1>7. \A i \in 1 .. N : w[i] = Round(s, w[i - 1], i)
  BY <1>2, Zenon DEF Rounds
<1>8. \A k \in 1 .. L : texts[k] \in GroupText
  BY <1>1
\* A round over a text.
<1>9. ASSUME NEW k \in 1 .. L, w[from + 2 * k - 2] = Side(front, h[k - 1], gap)
      PROVE  w[from + 2 * k - 1] = Side(front, h[k], gap)
  <2>1. PICK i \in 1 .. N : i = from + 2 * k - 1 /\ i - 1 = from + 2 * k - 2 /\ i = from + (2 * k - 1)
                            /\ 2 * k - 1 \in 1 .. P
    <3>1. /\ from + 2 * k - 1 \in 1 .. N /\ (from + 2 * k - 1) - 1 = from + 2 * k - 2
          /\ from + 2 * k - 1 = from + (2 * k - 1) /\ 2 * k - 1 \in 1 .. P
      BY <1>16
    <3> QED
      BY <3>1
  <2>2. s[i] = texts[k]
    <3>1. Parted(texts)[2 * k - 1] = texts[k]
      BY <1>1, PartedReads
    <3> QED
      BY <1>4, <2>1, <3>1, Zenon
  <2>3. Len(h[k - 1] \o GroupsOf(texts[k])) \in Nat /\ Len(h[k - 1] \o GroupsOf(texts[k])) <= 8
    <3>1. h[k] \in Seq(Group) /\ Len(h[k]) <= Len(Standing(texts)) /\ h[k] = h[k - 1] \o GroupsOf(texts[k])
      <4>1. k \in 0 .. L
        OBVIOUS
      <4> QED
        BY <1>6, <4>1, Zenon
    <3>2. Len(h[k]) \in Nat /\ Len(Standing(texts)) \in Nat
      <4>1. Standing(texts) \in Seq(Group) /\ h[k] \in Seq(Group)
        BY <3>1, StandingRuns
      <4> QED
        BY <4>1
    <3>3. Len(h[k]) <= 8
      <4> DEFINE u == Len(h[k])
                 v == Len(Standing(texts))
      <4>1. u \in Nat /\ v \in Nat /\ u <= v /\ v <= 8
        BY <3>1, <3>2
      <4> HIDE DEF u, v
      <4>2. u <= 8
        BY <4>1
      <4> QED
        BY <4>2 DEF u
    <3> QED
      BY <3>1, <3>2, <3>3
  <2>4. Round(s, Side(front, h[k - 1], gap), i) = Side(front, h[k - 1] \o GroupsOf(texts[k]), gap)
    <3>1. PICK side \in Seq(Group), t \in GroupText : side = h[k - 1] /\ t = texts[k]
      <4>1. k - 1 \in 0 .. L
        BY <1>1
      <4> QED
        BY <1>6, <1>8, <4>1, Zenon
    <3>2. s[i] = t /\ Len(side \o GroupsOf(t)) \in Nat /\ Len(side \o GroupsOf(t)) <= 8
      BY <2>2, <2>3, <3>1, Zenon
    <3>3. Takes(s, i, front, side, side \o GroupsOf(t), gap)
      BY <3>2, RoundText, Zenon
    <3> QED
      BY <3>1, <3>3, Zenon DEF Takes
  <2>5. w[i] = Round(s, w[i - 1], i)
    BY <1>7
  <2> QED
    BY <1>6, <1>9, <2>1, <2>4, <2>5, Zenon
\* One over a separator.
<1>10. ASSUME NEW k \in 2 .. L, w[from + 2 * k - 3] = Side(front, h[k - 1], gap)
       PROVE  w[from + 2 * k - 2] = Side(front, h[k - 1], gap)
  <2>1. PICK i \in 1 .. N : /\ i = from + 2 * k - 2 /\ i - 1 = from + 2 * k - 3 /\ i = from + (2 * k - 2)
                            /\ 2 * k - 2 \in 1 .. P /\ i # 1 /\ i + 1 = from + (2 * k - 1)
                            /\ 2 * k - 1 \in 1 .. P /\ k \in 1 .. L
    <3>1. /\ from + 2 * k - 2 \in 1 .. N /\ (from + 2 * k - 2) - 1 = from + 2 * k - 3
          /\ from + 2 * k - 2 = from + (2 * k - 2) /\ 2 * k - 2 \in 1 .. P
          /\ from + 2 * k - 2 # 1 /\ (from + 2 * k - 2) + 1 = from + (2 * k - 1)
          /\ 2 * k - 1 \in 1 .. P /\ k \in 1 .. L
      BY <1>16
    <3> QED
      BY <3>1
  <2>2. s[i] = Sep /\ s[i + 1] = texts[k]
    <3>1. Parted(texts)[2 * k - 2] = Sep /\ Parted(texts)[2 * k - 1] = texts[k]
      BY <1>1, <2>1, PartedReads
    <3> QED
      BY <1>4, <2>1, <3>1, Zenon
  <2>3. s[i + 1] # Sep
    <3>1. texts[k] # Sep
      BY <1>8, <2>1, TextGroups
    <3> QED
      BY <2>2, <3>1
  <2>4. Round(s, Side(front, h[k - 1], gap), i) = Side(front, h[k - 1], gap)
    <3>1. s[i] = Sep /\ i # 1 /\ ~(i < Len(s) /\ s[i + 1] = Sep)
      BY <2>1, <2>2, <2>3, Zenon
    <3>2. Takes(s, i, front, h[k - 1], h[k - 1], gap)
      BY <3>1, RoundSep, Zenon
    <3> QED
      BY <3>2, Zenon DEF Takes
  <2>5. w[i] = Round(s, w[i - 1], i)
    BY <1>7
  <2> QED
    BY <1>10, <2>1, <2>4, <2>5, Zenon
<1> DEFINE U == {k \in 1 .. L : w[from + 2 * k - 1] # Side(front, h[k], gap)}
<1>11. 1 \notin U
  <2> SUFFICES ASSUME 1 \in 1 .. L PROVE w[from + 2 * 1 - 1] = Side(front, h[1], gap)
    OBVIOUS
  <2>1. from + 2 * 1 - 2 = from /\ 1 - 1 = 0
    BY <1>4
  <2>2. w[from + 2 * 1 - 2] = Side(front, h[1 - 1], gap)
    BY <1>6, <2>1, Zenon
  <2> QED
    BY <1>9, <2>2
<1>12. ASSUME NEW n \in 1 + 1 .. L, n - 1 \notin U
       PROVE  n \notin U
  <2>1. n - 1 \in 1 .. L /\ from + 2 * (n - 1) - 1 = from + 2 * n - 3 /\ n \in 1 .. L /\ n \in 2 .. L
    BY <1>4
  <2>2. w[from + 2 * n - 3] = Side(front, h[n - 1], gap)
    BY <1>12, <2>1, Zenon
  <2>3. w[from + 2 * n - 2] = Side(front, h[n - 1], gap)
    BY <1>10, <2>1, <2>2
  <2>4. w[from + 2 * n - 1] = Side(front, h[n], gap)
    BY <1>9, <2>1, <2>3
  <2> QED
    BY <2>4
<1>13. U = {}
  <2> HIDE DEF U
  <2>1. U \in SUBSET (1 .. L) /\ 1 \in Nat
    BY DEF U
  <2> QED
    BY <1>1, <1>11, <1>12, <2>1, UpTo
<1>14. CASE L = 0
  <2>1. from + P = from /\ h[L] = <<>>
    BY <1>3, <1>4, <1>6, <1>14
  <2> QED
    BY <1>3, <1>6, <2>1
<1>15. CASE L # 0
  <2>1. L \in 1 .. L /\ from + P = from + 2 * L - 1
    BY <1>15, <1>16
  <2>2. w[from + 2 * L - 1] = Side(front, h[L], gap)
    BY <1>13, <2>1
  <2> QED
    BY <1>3, <1>6, <2>1, <2>2, Zenon
<1> QED
  BY <1>14, <1>15

\* A scope is cut off.
LEMMA Cuts ==
  ASSUME NEW text \in Seq(Token), \A p \in 1 .. Len(text) : text[p] # Scope, NEW scope \in BOOLEAN,
         NEW tokens, tokens = text \o (IF scope THEN <<Scope>> ELSE <<>>)
  PROVE  Unscoped(tokens) = text
<1> DEFINE I == {i \in 1 .. Len(tokens) : tokens[i] = Scope}
           cut == IF I # {} THEN Min(I) ELSE 0
<1>1. Unscoped(tokens) = IF cut = 0 THEN tokens ELSE SubSeq(tokens, 1, cut - 1)
  BY DEF Unscoped, SelectInSeq
<1>2. PICK N \in Nat : N = Len(text)
  OBVIOUS
<1>3. CASE ~scope
  <2>1. tokens = text
    BY <1>3
  <2>2. I = {}
    BY <2>1
  <2> QED
    BY <1>1, <2>1, <2>2
<1>4. CASE scope
  <2>1. Scope \in Token
    BY DEF Token
  <2>2. /\ tokens \in Seq(Token) /\ Len(tokens) = N + 1 /\ tokens[N + 1] = Scope
        /\ \A p \in 1 .. N : tokens[p] = text[p]
    BY <1>2, <1>4, <2>1
  <2>3. I = {N + 1}
    <3>1. \A p \in 1 .. N + 1 : tokens[p] = Scope <=> p = N + 1
      BY <1>2, <2>2
    <3> QED
      BY <2>2, <3>1
  <2>4. Min(I) = N + 1
    <3>1. Min({N + 1}) = N + 1
      BY DEF Min
    <3> QED
      BY <2>3, <3>1
  <2>5. cut # 0 /\ cut - 1 = N
    <3>1. I # {}
      BY <2>3
    <3>2. cut = N + 1
      BY <2>4, <3>1, Zenon
    <3> HIDE DEF cut
    <3> QED
      BY <3>2
  <2> HIDE DEF cut
  <2>6. SubSeq(tokens, 1, N) = text
    <3>1. SubSeq(tokens, 1, N) \in Seq(Token) /\ Len(SubSeq(tokens, 1, N)) = N
      BY <2>2
    <3>2. \A p \in 1 .. N : SubSeq(tokens, 1, N)[p] = text[p]
      BY <2>2
    <3> QED
      BY <1>2, <3>1, <3>2
  <2> QED
    BY <1>1, <2>5, <2>6
<1> QED
  BY <1>3, <1>4

\* What the rounds come to.
Result(end) ==
  IF end.ok /\ (IF end.gap THEN Len(end.head) + Len(end.tail) <= 7
                ELSE Len(end.head) + Len(end.tail) = 8)
  THEN Expand(end) ELSE Unreadable

\* parseIp6 goes through such rounds.
LEMMA ParseRuns ==
  ASSUME NEW tokens, Unscoped(tokens) \in Seq(Token), Unscoped(tokens) # <<>>
  PROVE  \E w : /\ w[0] = Going(<<>>, <<>>, FALSE) /\ Rounds(w, Unscoped(tokens))
                /\ ParseIp6(tokens) = Result(w[Len(Unscoped(tokens))])
<1> DEFINE text == Unscoped(tokens)
           start == [head |-> <<>>, tail |-> <<>>, gap |-> FALSE, paired |-> FALSE,
                     ok |-> text # <<>>]
           Def(v, i) == Round(text, v, i)
           h == CHOOSE g : g = [i \in 0 .. Len(text) |-> IF i = 0 THEN start ELSE Def(g[i - 1], i)]
           walk == CHOOSE g : g = [i \in 0 .. Len(text) |->
                                     IF i = 0 THEN start ELSE Round(text, g[i - 1], i)]
<1>1. Len(text) \in Nat
  OBVIOUS
<1>2. FiniteNatInductiveDefHypothesis(h, start, Def, 0, Len(text))
  BY DEF FiniteNatInductiveDefHypothesis
<1> HIDE DEF h, start
<1>3. FiniteNatInductiveDefConclusion(h, start, Def, 0, Len(text))
  BY <1>1, <1>2, FiniteNatInductiveDef
<1>4. h = [i \in 0 .. Len(text) |-> IF i = 0 THEN start ELSE Round(text, h[i - 1], i)]
  BY <1>3 DEF FiniteNatInductiveDefConclusion
<1>5. walk = [i \in 0 .. Len(text) |-> IF i = 0 THEN start ELSE Round(text, walk[i - 1], i)]
  BY <1>4, Zenon
<1>6. ParseIp6(tokens) = Result(walk[Len(text)])
  BY Zenon DEF ParseIp6, Result, start
<1> HIDE DEF walk, text
<1>7. walk[0] = Going(<<>>, <<>>, FALSE)
  <2>1. walk[0] = start
    BY <1>1, <1>5
  <2>2. start = Going(<<>>, <<>>, FALSE)
    BY DEF start, Going, text
  <2> QED
    BY <2>1, <2>2
<1>8. Rounds(walk, text)
  <2>1. \A i \in 1 .. Len(text) : i \in 0 .. Len(text) /\ i # 0
    BY <1>1
  <2>2. \A i \in 1 .. Len(text) : walk[i] = Round(text, walk[i - 1], i)
    BY <1>5, <2>1, Zenon
  <2> QED
    BY <2>2 DEF Rounds
<1> QED
  BY <1>6, <1>7, <1>8 DEF text

\* Where the sides of a gap are.
Sided(s, p1, p2) ==
  /\ s \in Seq(Token) /\ Len(s) = Len(p1) + 2 + Len(p2)
  /\ \A i \in 1 .. Len(p1) : s[i] = p1[i]
  /\ s[Len(p1) + 1] = Sep /\ s[Len(p1) + 2] = Sep
  /\ \A j \in 1 .. Len(p2) : s[Len(p1) + 2 + j] = p2[j]
  /\ \A i \in 1 .. Len(s) : s[i] # Scope
Bare == {p \in Seq(Token) : \A i \in 1 .. Len(p) : p[i] # Scope}

\* The two sides are where the gap leaves them.
LEMMA Sides ==
  ASSUME NEW p1 \in Bare, NEW p2 \in Bare, NEW s, s = p1 \o (<<Sep, Sep>> \o p2)
  PROVE  Sided(s, p1, p2)
<1>0. /\ p1 \in Seq(Token) /\ p2 \in Seq(Token)
      /\ \A i \in 1 .. Len(p1) : p1[i] # Scope
      /\ \A i \in 1 .. Len(p2) : p2[i] # Scope
  BY DEF Bare
<1> DEFINE q == <<Sep, Sep>> \o p2
<1>1. PICK n1 \in Nat, n2 \in Nat : n1 = Len(p1) /\ n2 = Len(p2)
  BY <1>0
<1>2. <<Sep, Sep>> \in Seq(Token) /\ Len(<<Sep, Sep>>) = 2
  BY DEF Token
<1>3. q \in Seq(Token) /\ Len(q) = 2 + n2 /\ q[1] = Sep /\ q[2] = Sep
  BY <1>0, <1>1, <1>2
<1>4. \A j \in 1 .. n2 : q[2 + j] = p2[j]
  <2>1. \A j \in 1 .. n2 : q[Len(<<Sep, Sep>>) + j] = p2[j]
    BY <1>0, <1>1, <1>2, JoinsTail
  <2> QED
    BY <1>2, <2>1, Zenon
<1> HIDE DEF q
<1>5. s \in Seq(Token) /\ Len(s) = n1 + (2 + n2) /\ \A i \in 1 .. n1 : s[i] = p1[i]
  BY <1>0, <1>1, <1>3 DEF q
<1>6. \A j \in 1 .. 2 + n2 : s[n1 + j] = q[j]
  <2>1. s = p1 \o q
    BY DEF q
  <2> QED
    BY <1>0, <1>1, <1>3, <2>1, JoinsTail
<1>7. \A j \in 1 .. n2 : s[n1 + 2 + j] = p2[j]
  <2> SUFFICES ASSUME NEW j \in 1 .. n2 PROVE s[n1 + 2 + j] = p2[j]
    OBVIOUS
  <2>1. 2 + j \in 1 .. 2 + n2 /\ n1 + 2 + j = n1 + (2 + j)
    OBVIOUS
  <2> QED
    BY <1>4, <1>6, <2>1, Zenon
<1>8. s[n1 + 1] = Sep /\ s[n1 + 2] = Sep
  <2>1. 1 \in 1 .. 2 + n2 /\ 2 \in 1 .. 2 + n2
    OBVIOUS
  <2> QED
    BY <1>3, <1>6, <2>1, Zenon
<1>9. ASSUME NEW i \in 1 .. n1 + (2 + n2)
      PROVE  s[i] # Scope
  <2>1. Sep # Scope
    BY DEF Sep, Scope
  <2>2. CASE i \in 1 .. n1
    <3>1. p1[i] # Scope
      BY <1>0, <1>1, <2>2
    <3> QED
      BY <1>5, <2>2, <3>1, Zenon
  <2>3. CASE i = n1 + 1 \/ i = n1 + 2
    BY <1>8, <2>1, <2>3, Zenon
  <2>4. CASE i > n1 + 2
    <3>1. PICK j \in 1 .. n2 : i = n1 + 2 + j
      <4>1. i - (n1 + 2) \in 1 .. n2 /\ i = n1 + 2 + (i - (n1 + 2))
        BY <2>4
      <4> QED
        BY <4>1
    <3>2. p2[j] # Scope
      BY <1>0, <1>1
    <3> QED
      BY <1>7, <3>1, <3>2, Zenon
  <2>5. i \in 1 .. n1 \/ (i = n1 + 1 \/ i = n1 + 2) \/ i > n1 + 2
    OBVIOUS
  <2> QED
    BY <2>2, <2>3, <2>4, <2>5, Zenon
<1>10. Len(s) = n1 + 2 + n2
  BY <1>5
<1> QED
  BY <1>1, <1>5, <1>7, <1>8, <1>9, <1>10 DEF Sided

\* parseIp6 reads every literal as the eight groups it stands for: the gap as the groups
\* that are missing, a dotted tail as two groups, the scope as nothing
\* (addr_filter.cpp:59-128).
THEOREM Ip6Reads ==
  ASSUME NEW l \in Literals
  PROVE  ParseIp6(Spelled(l)) = Value(l)
<1> DEFINE A == Standing(l.before)
           B == Standing(l.after)
           p1 == Parted(l.before)
           p2 == Parted(l.after)
           text == p1 \o (IF l.gap THEN <<Sep, Sep>> \o p2 ELSE <<>>)
<1>1. /\ l.before \in Seq(GroupText) /\ l.after \in Seq(GroupText)
      /\ l.gap \in BOOLEAN /\ l.scope \in BOOLEAN
      /\ l.gap => Len(A) + Len(B) <= 7
      /\ ~l.gap => l.after = <<>> /\ Len(A) + Len(B) = 8
  BY DEF Literals
<1>2. Spelled(l) = text \o (IF l.scope THEN <<Scope>> ELSE <<>>)
  BY DEF Spelled
<1>3. A \in Seq(Group) /\ B \in Seq(Group) /\ Len(A) \in Nat /\ Len(B) \in Nat
  <2>1. A \in Seq(Group) /\ B \in Seq(Group)
    BY <1>1, StandingRuns
  <2> HIDE DEF A, B
  <2> QED
    BY <2>1
<1>4. Len(A) <= 8 /\ Len(B) <= 8
  <2> HIDE DEF A, B
  <2> QED
    BY <1>1, <1>3
<1>5. /\ p1 \in Seq(Token) /\ \A i \in 1 .. Len(p1) : p1[i] # Scope
      /\ p2 \in Seq(Token) /\ \A i \in 1 .. Len(p2) : p2[i] # Scope
  BY <1>1, PartedReads
<1>6. Value(l) = A \o [k \in 1 .. 8 - (Len(A) + Len(B)) |-> 0] \o B
  BY DEF Value
<1>7. ASSUME NEW head \in Seq(Group), NEW tail \in Seq(Group), NEW gap \in BOOLEAN,
             IF gap THEN Len(head) + Len(tail) <= 7 ELSE Len(head) + Len(tail) = 8
      PROVE  Result(Going(head, tail, gap))
               = head \o [k \in 1 .. 8 - (Len(head) + Len(tail)) |-> 0] \o tail
  <2>1. /\ Going(head, tail, gap).ok = TRUE /\ Going(head, tail, gap).gap = gap
        /\ Going(head, tail, gap).head = head /\ Going(head, tail, gap).tail = tail
    BY DEF Going
  <2>2. Len(head \o tail) = Len(head) + Len(tail)
    OBVIOUS
  <2>3. Result(Going(head, tail, gap)) = Expand(Going(head, tail, gap))
    BY <1>7, <2>1, Zenon DEF Result
  <2>4. Expand(Going(head, tail, gap)) = head \o [k \in 1 .. 8 - Len(head \o tail) |-> 0] \o tail
    BY <2>1, Zenon DEF Expand
  <2> QED
    BY <2>2, <2>3, <2>4, Zenon
<1> HIDE DEF A, B, p1, p2
<1>8. CASE ~l.gap
  <2>1. text = p1 /\ p1 # <<>>
    <3>1. text = p1
      BY <1>5, <1>8
    <3>2. p1 # <<>>
      <4> SUFFICES ASSUME p1 = <<>> PROVE FALSE
        OBVIOUS
      <4>1. l.before = <<>>
        <5>1. PICK L \in Nat : L = Len(l.before)
          BY <1>1
        <5>2. L # 0 => Len(p1) = 2 * L - 1
          BY <1>1, <5>1, PartedReads DEF p1
        <5>3. L = 0
          <6>1. Len(p1) = 0
            OBVIOUS
          <6>2. L # 0 => 0 = 2 * L - 1
            BY <5>2, <6>1, Zenon
          <6> QED
            BY <6>2
        <5>4. l.before \in Seq(GroupText) /\ Len(l.before) = 0
          BY <1>1, <5>1, <5>3
        <5> QED
          BY <5>4
      <4>2. A = B
        BY <1>1, <1>8, <4>1 DEF A, B
      <4>3. A = <<>>
        BY <4>1 DEF A, Standing, FlattenSeq
      <4> QED
        BY <1>1, <1>8, <4>2, <4>3
    <3> QED
      BY <3>1, <3>2
  <2>2. Unscoped(Spelled(l)) = p1
    BY <1>1, <1>2, <1>5, <2>1, Cuts
  <2>3. PICK w : /\ w[0] = Going(<<>>, <<>>, FALSE) /\ Rounds(w, p1)
                 /\ ParseIp6(Spelled(l)) = Result(w[Len(p1)])
    BY <1>5, <2>1, <2>2, ParseRuns
  <2>4. Placing(p1, 0, l.before)
    BY <1>5 DEF Placing, p1
  <2>5. w[0] = Side(<<>>, <<>>, FALSE)
    BY <2>3 DEF Side
  <2>6. w[0 + Len(p1)] = Side(<<>>, A, FALSE)
    <3>1. l.before \in Seq(GroupText) /\ Len(Standing(l.before)) <= 8
      BY <1>1, <1>4 DEF A
    <3>2. p1 \in Seq(Token) /\ Rounds(w, p1)
      BY <1>5, <2>3
    <3>3. Leaves(w, 0, l.before, <<>>, FALSE)
      <4>1. Reaches(p1, w, 0, l.before, <<>>, FALSE)
        BY <2>4, <2>5, <3>1, <3>2 DEF Reaches
      <4> QED
        BY <4>1, Stretch, Zenon
    <3> QED
      BY <3>3, Zenon DEF Leaves, A, p1
  <2>7. w[Len(p1)] = Going(A, <<>>, FALSE)
    <3>1. 0 + Len(p1) = Len(p1)
      BY <1>5
    <3> QED
      BY <2>6, <3>1 DEF Side
  <2>8. B = <<>>
    <3>1. l.after = <<>>
      BY <1>1, <1>8
    <3> QED
      BY <3>1 DEF B, Standing, FlattenSeq
  <2>9. Result(Going(A, B, FALSE)) = A \o [k \in 1 .. 8 - (Len(A) + Len(B)) |-> 0] \o B
    BY <1>1, <1>3, <1>7, <1>8
  <2> QED
    BY <1>6, <2>3, <2>7, <2>8, <2>9, Zenon
<1>9. CASE l.gap
  <2>1. PICK n1 \in Nat, n2 \in Nat : n1 = Len(p1) /\ n2 = Len(p2)
    BY <1>5
  <2>2. text = p1 \o (<<Sep, Sep>> \o p2)
    BY <1>9
  <2> HIDE DEF text
  <2>3. /\ text \in Seq(Token) /\ Len(text) = n1 + 2 + n2
        /\ \A i \in 1 .. n1 : text[i] = p1[i]
        /\ text[n1 + 1] = Sep /\ text[n1 + 2] = Sep
        /\ \A j \in 1 .. n2 : text[n1 + 2 + j] = p2[j]
        /\ \A i \in 1 .. Len(text) : text[i] # Scope
    <3>1. Sided(text, p1, p2)
      BY <1>5, <2>2, Sides DEF Bare
    <3> QED
      BY <2>1, <3>1, Zenon DEF Sided
  <2>4. text # <<>> /\ Unscoped(Spelled(l)) = text
    <3>1. text # <<>>
      BY <2>1, <2>3
    <3>2. Unscoped(Spelled(l)) = text
      BY <1>1, <1>2, <2>3, Cuts
    <3> QED
      BY <3>1, <3>2
  <2>5. PICK w : /\ w[0] = Going(<<>>, <<>>, FALSE) /\ Rounds(w, text)
                 /\ ParseIp6(Spelled(l)) = Result(w[Len(text)])
    BY <2>3, <2>4, ParseRuns
  <2>6. w[0] = Side(<<>>, <<>>, FALSE)
    BY <2>5 DEF Side
  <2>7. w[n1] = Going(A, <<>>, FALSE)
    <3>1. Placing(text, 0, l.before)
      <4>1. 0 + n1 <= n1 + 2 + n2 /\ \A p \in 1 .. n1 : 0 + p = p
        OBVIOUS
      <4> QED
        BY <2>1, <2>3, <4>1 DEF Placing, p1
    <3>2. w[0 + Len(p1)] = Side(<<>>, A, FALSE)
      <4>1. l.before \in Seq(GroupText) /\ Len(Standing(l.before)) <= 8
        BY <1>1, <1>4 DEF A
      <4>2. text \in Seq(Token) /\ Rounds(w, text)
        BY <2>3, <2>5
      <4>3. Leaves(w, 0, l.before, <<>>, FALSE)
        <5>1. Reaches(text, w, 0, l.before, <<>>, FALSE)
          BY <2>6, <3>1, <4>1, <4>2 DEF Reaches
        <5> QED
          BY <5>1, Stretch, Zenon
      <4> QED
        BY <4>3, Zenon DEF Leaves, A, p1
    <3>3. 0 + Len(p1) = n1
      BY <2>1
    <3> QED
      BY <3>2, <3>3 DEF Side
  <2>8. w[n1 + 2] = Going(A, <<>>, TRUE)
    <3>1. /\ n1 + 1 \in 1 .. Len(text) /\ n1 + 2 \in 1 .. Len(text)
          /\ (n1 + 1) - 1 = n1 /\ (n1 + 2) - 1 = n1 + 1 /\ (n1 + 1) + 1 = n1 + 2
          /\ n1 + 1 \in Nat /\ n1 + 1 < Len(text)
      BY <2>3
    <3>2. w[n1 + 1] = Round(text, w[n1], n1 + 1) /\ w[n1 + 2] = Round(text, w[n1 + 1], n1 + 2)
      BY <2>5, <3>1, Zenon DEF Rounds
    <3>3. Round(text, Round(text, Going(A, <<>>, FALSE), n1 + 1), (n1 + 1) + 1) = Going(A, <<>>, TRUE)
      <4>1. text[n1 + 1] = Sep /\ text[(n1 + 1) + 1] = Sep
        BY <2>3, <3>1, Zenon
      <4>2. PICK i \in Nat : i = n1 + 1
        BY <3>1
      <4>3. Round(text, Round(text, Going(A, <<>>, FALSE), i), i + 1) = Going(A, <<>>, TRUE)
        BY <3>1, <4>1, <4>2, RoundGap
      <4> QED
        BY <4>2, <4>3, Zenon
    <3> QED
      BY <2>7, <3>1, <3>2, <3>3, Zenon
  <2>9. w[n1 + 2 + n2] = Going(A, B, TRUE)
    <3>1. Placing(text, n1 + 2, l.after)
      BY <2>1, <2>3 DEF Placing, p2
    <3>2. w[n1 + 2] = Side(A, <<>>, TRUE)
      BY <2>8 DEF Side
    <3>3. w[(n1 + 2) + Len(p2)] = Side(A, B, TRUE)
      <4>1. l.after \in Seq(GroupText) /\ Len(Standing(l.after)) <= 8
        BY <1>1, <1>4 DEF B
      <4>2. text \in Seq(Token) /\ Rounds(w, text)
        BY <2>3, <2>5
      <4>3. Leaves(w, n1 + 2, l.after, A, TRUE)
        <5>1. Reaches(text, w, n1 + 2, l.after, A, TRUE)
          BY <3>1, <3>2, <4>1, <4>2 DEF Reaches
        <5> QED
          BY <5>1, Stretch, Zenon
      <4> QED
        BY <4>3, Zenon DEF Leaves, B, p2
    <3> QED
      BY <2>1, <3>3 DEF Side
  <2>10. Result(Going(A, B, TRUE)) = A \o [k \in 1 .. 8 - (Len(A) + Len(B)) |-> 0] \o B
    BY <1>1, <1>3, <1>7, <1>9
  <2> QED
    BY <1>6, <2>3, <2>5, <2>9, <2>10, Zenon
<1> QED
  BY <1>1, <1>8, <1>9

-----------------------------------------------------------------------------
(* What the author of a component knows of it.                             *)

Numbers(fields) == [k \in 1 .. 4 |-> fields[k][2]]

\* A host of four octets.
Says4(v) ==
  IF v[1] = "dotted" /\ v[2] \in Quad
  THEN IF Numbers(v[2]) = <<0, 0, 0, 0>> THEN "wildcard"
       ELSE IF Numbers(v[2])[1] = 127 THEN "loopback" ELSE "other"
  ELSE "other"

\* A host of eight groups.
Says6(groups) ==
  IF groups = <<0, 0, 0, 0, 0, 0, 0, 0>> THEN "wildcard"
  ELSE IF groups = <<0, 0, 0, 0, 0, 0, 0, 1>> THEN "loopback" ELSE "other"

Hosts6(v) == {l \in Literals : v = <<"colons", Spelled(l)>>}

Ported == {Word("tcp"), Word("udp"), Word("sctp")}

\* What a value says, by its protocol.  A text that is no host, and the value of any
\* other protocol, has nothing against it.
Truth(says, proto, v) ==
  /\ proto = Word("ip4") => /\ v[1] = "dotted" => v[2] \in Seq(Nat \X Nat)
                            /\ says = Says4(v)
  /\ proto = Word("ip6") => \/ \E l \in Hosts6(v) : says = Says6(Value(l))
                            \/ Ip6(v) = Unreadable /\ says = "other"
  /\ proto \in Ported => says = IF IsZeroPort(v) THEN "zeroPort" ELSE "other"
  /\ proto \notin Ported \cup {Word("ip4"), Word("ip6")} => says = "other"

Truthful(c) ==
  /\ Shaped(c)
  /\ HasValue(c) => Truth(c.says, c.segs[1], c.segs[2])
  /\ ~HasValue(c) => c.says = "other"

\* Only the last component may lack the value that its protocol takes.
Whole(a) ==
  /\ \A i \in 1 .. Len(a) : Truthful(a[i])
  /\ \A i \in 1 .. Len(a) - 1 : HasValue(a[i]) \/ ~TakesValue(a[i].segs[1])

\* What a sequence of a set has at a place.
LEMMA Elements ==
  ASSUME NEW S, NEW s \in Seq(S), NEW n, n = Len(s)
  PROVE  \A k \in 1 .. n : s[k] \in S
OBVIOUS

\* ParseIp4 reads the quads, and no other text.
LEMMA Ip4Reads ==
  ASSUME NEW fields \in Seq(Nat \X Nat)
  PROVE  /\ fields \in Quad => ParseIp4(fields) = Numbers(fields) /\ ParseIp4(fields) # Unreadable
         /\ fields \notin Quad => ParseIp4(fields) = Unreadable
<1>1. CASE Len(fields) # 4
  BY <1>1 DEF ParseIp4, Quad
<1>2. CASE Len(fields) = 4
  <2> DEFINE Pair == Nat \X Nat
  <2>1. \A k \in 1 .. 4 : fields[k] \in Pair
    BY <1>2, Elements, Zenon
  <2>2. \A k \in 1 .. 4 : ParseU8(fields[k]) <=> fields[k] \in Field
    <3> SUFFICES ASSUME NEW k \in 1 .. 4 PROVE ParseU8(fields[k]) <=> fields[k] \in Field
      OBVIOUS
    <3>1. PICK w \in Nat, n \in Nat : fields[k] = <<w, n>>
      <4>1. fields[k] \in Nat \X Nat
        BY <2>1, Zenon
      <4>2. \A x \in Nat \X Nat : x = <<x[1], x[2]>> /\ x[1] \in Nat /\ x[2] \in Nat
        OBVIOUS
      <4> QED
        BY <4>1, <4>2, Zenon
    <3>2. n <= 255 <=> n < 256
      OBVIOUS
    <3> QED
      BY <3>1, <3>2 DEF ParseU8, Field, Octet
  <2>3. fields \in Quad <=> \A k \in 1 .. 4 : fields[k] \in Field
    <3>1. ASSUME fields \in Quad PROVE \A k \in 1 .. 4 : fields[k] \in Field
      <4>1. fields \in Seq(Field)
        BY <3>1 DEF Quad
      <4> QED
        BY <1>2, <4>1, Elements, Zenon
    <3>2. ASSUME \A k \in 1 .. 4 : fields[k] \in Field PROVE fields \in Quad
      <4>1. fields = [k \in 1 .. 4 |-> fields[k]]
        BY <1>2
      <4>2. fields \in Seq(Field)
        BY <3>2, <4>1
      <4> QED
        BY <1>2, <4>2 DEF Quad
    <3> QED
      BY <3>1, <3>2
  <2>4. fields \in Quad <=> \A k \in 1 .. 4 : ParseU8(fields[k])
    BY <2>2, <2>3
  <2>5. Numbers(fields) # Unreadable
    BY DEF Numbers, Unreadable
  <2> QED
    BY <1>2, <2>4, <2>5 DEF ParseIp4, Numbers
<1> QED
  BY <1>1, <1>2

\* The conditions of classify are what the author says.
LEMMA Says ==
  ASSUME NEW says, NEW proto, NEW v, Truth(says, proto, v)
  PROVE  /\ WildcardHost(proto, v) <=> says = "wildcard"
         /\ LoopbackHost(proto, v) <=> says = "loopback"
         /\ ZeroPort(proto, v) <=> says = "zeroPort"
<1>1. /\ Word("ip4") # Word("ip6") /\ Word("ip4") \notin Ported /\ Word("ip6") \notin Ported
      /\ ZeroPort(proto, v) <=> proto \in Ported /\ IsZeroPort(v)
  BY DEF Word, Ported, ZeroPort
<1>2. CASE proto = Word("ip4")
  <2>1. (v[1] = "dotted" => v[2] \in Seq(Nat \X Nat)) /\ says = Says4(v)
    BY <1>2 DEF Truth
  <2>2. /\ v[1] = "dotted" /\ v[2] \in Quad => Ip4(v) = Numbers(v[2]) /\ Ip4(v) # Unreadable
        /\ ~(v[1] = "dotted" /\ v[2] \in Quad) => Ip4(v) = Unreadable
    BY <2>1, Ip4Reads DEF Ip4
  <2>3. Unreadable # <<0, 0, 0, 0>> /\ (<<0, 0, 0, 0>>)[1] # 127
    BY DEF Unreadable
  <2>4. CASE v[1] = "dotted" /\ v[2] \in Quad
    BY <1>1, <1>2, <2>1, <2>2, <2>3, <2>4 DEF WildcardHost, LoopbackHost, Says4
  <2>5. CASE ~(v[1] = "dotted" /\ v[2] \in Quad)
    BY <1>1, <1>2, <2>1, <2>2, <2>3, <2>5 DEF WildcardHost, LoopbackHost, Says4
  <2> QED
    BY <2>4, <2>5
<1>3. CASE proto = Word("ip6")
  <2>1. (\E l \in Hosts6(v) : says = Says6(Value(l))) \/ (Ip6(v) = Unreadable /\ says = "other")
    BY <1>3 DEF Truth
  <2>2. /\ Unreadable # <<0, 0, 0, 0, 0, 0, 0, 0>> /\ Unreadable # <<0, 0, 0, 0, 0, 0, 0, 1>>
        /\ <<0, 0, 0, 0, 0, 0, 0, 0>> # <<0, 0, 0, 0, 0, 0, 0, 1>>
    BY DEF Unreadable
  <2>3. CASE \E l \in Hosts6(v) : says = Says6(Value(l))
    <3>1. PICK l \in Literals : v = <<"colons", Spelled(l)>> /\ says = Says6(Value(l))
      BY <2>3 DEF Hosts6
    <3>2. Ip6(v) = Value(l)
      BY <3>1, Ip6Reads DEF Ip6
    <3> QED
      BY <1>1, <1>3, <2>2, <3>1, <3>2 DEF WildcardHost, LoopbackHost, Says6
  <2>4. CASE Ip6(v) = Unreadable /\ says = "other"
    BY <1>1, <1>3, <2>2, <2>4 DEF WildcardHost, LoopbackHost
  <2> QED
    BY <2>1, <2>3, <2>4
<1>4. CASE proto \in Ported
  <2>1. says = IF IsZeroPort(v) THEN "zeroPort" ELSE "other"
    BY <1>4 DEF Truth
  <2>2. ~WildcardHost(proto, v) /\ ~LoopbackHost(proto, v)
    BY <1>1, <1>4 DEF WildcardHost, LoopbackHost
  <2> QED
    BY <1>1, <1>4, <2>1, <2>2
<1>5. CASE proto \notin Ported \cup {Word("ip4"), Word("ip6")}
  <2>1. says = "other"
    BY <1>5 DEF Truth
  <2> QED
    BY <1>1, <1>5, <2>1 DEF WildcardHost, LoopbackHost
<1> QED
  BY <1>2, <1>3, <1>4, <1>5

\* Whether some component of an address is so, by the segments that are looked at.
Found(parts, Is(_, _)) == {i \in Protocols(parts) : Is(parts[i], parts[i + 1])}
FoundAt(a, Is(_, _)) ==
  Found(Segments(a), Is) = {} <=>
    \A k \in 1 .. Len(a) : HasValue(a[k]) => ~Is(a[k].segs[1], a[k].segs[2])

\* The walk looks at every component that has a value, and at nothing else.
LEMMA Finds ==
  ASSUME NEW Is(_, _), NEW C, NEW a \in Seq(C), Whole(a)
  PROVE  FoundAt(a, Is)
<1>1. /\ \A i \in 1 .. Len(a) : Shaped(a[i])
      /\ \A i \in 1 .. Len(a) - 1 : HasValue(a[i]) \/ ~TakesValue(a[i].segs[1])
  BY Zenon DEF Whole, Truthful
<1>2. PICK off : Placed(off, a)
  BY <1>1, SegmentsPlaced
<1>3. Protocols(Segments(a)) = {off[k - 1] + 1 : k \in {k \in 1 .. Len(a) : HasValue(a[k])}}
  BY <1>1, <1>2, WalkReads
<1>4. ASSUME NEW k \in 1 .. Len(a), HasValue(a[k])
      PROVE  /\ Segments(a)[off[k - 1] + 1] = a[k].segs[1]
             /\ Segments(a)[(off[k - 1] + 1) + 1] = a[k].segs[2]
  <2>1. Segments(a)[off[k - 1] + 1] = a[k].segs[1] /\ Segments(a)[off[k - 1] + 2] = a[k].segs[2]
    BY <1>2, <1>4, Zenon DEF Placed
  <2>2. off[k - 1] \in Nat
    <3>1. k - 1 \in 0 .. Len(a)
      OBVIOUS
    <3> QED
      BY <1>2, <3>1, Zenon DEF Placed
  <2>3. (off[k - 1] + 1) + 1 = off[k - 1] + 2
    BY <2>2
  <2> QED
    BY <2>1, <2>3, Zenon
<1>5. ASSUME Found(Segments(a), Is) = {}, NEW k \in 1 .. Len(a), HasValue(a[k])
      PROVE  ~Is(a[k].segs[1], a[k].segs[2])
  <2>1. off[k - 1] + 1 \in Protocols(Segments(a))
    BY <1>3, <1>5
  <2>2. ~Is(Segments(a)[off[k - 1] + 1], Segments(a)[(off[k - 1] + 1) + 1])
    BY <1>5, <2>1 DEF Found
  <2> QED
    BY <1>4, <1>5, <2>2, Zenon
<1>6. ASSUME NEW i \in Found(Segments(a), Is)
      PROVE  \E k \in 1 .. Len(a) : HasValue(a[k]) /\ Is(a[k].segs[1], a[k].segs[2])
  <2>1. i \in Protocols(Segments(a)) /\ Is(Segments(a)[i], Segments(a)[i + 1])
    BY DEF Found
  <2>2. PICK k \in 1 .. Len(a) : HasValue(a[k]) /\ i = off[k - 1] + 1
    BY <1>3, <2>1
  <2> QED
    BY <1>4, <2>1, <2>2, Zenon
<1> QED
  BY <1>5, <1>6, Zenon DEF FoundAt

\* An address passes when no component has anything against it, and only then.
LEMMA ClassifyReads ==
  ASSUME NEW C, NEW a \in Seq(C), Whole(a), NEW allow \in BOOLEAN
  PROVE  Classify(a, allow) = "ok" <=> Admissible(a, allow)
<1> DEFINE W == Found(Segments(a), WildcardHost)
           Z == Found(Segments(a), ZeroPort)
           B == Found(Segments(a), LoopbackHost)
<1>1. Classify(a, allow) =
        IF W \cup Z # {} THEN IF Min(W \cup Z) \in W THEN "wildcard" ELSE "zeroPort"
        ELSE IF B # {} /\ ~allow THEN "loopback" ELSE "ok"
  BY Zenon DEF Classify, Found
<1>2. /\ W = {} <=> \A k \in 1 .. Len(a) : HasValue(a[k]) => ~WildcardHost(a[k].segs[1], a[k].segs[2])
      /\ Z = {} <=> \A k \in 1 .. Len(a) : HasValue(a[k]) => ~ZeroPort(a[k].segs[1], a[k].segs[2])
      /\ B = {} <=> \A k \in 1 .. Len(a) : HasValue(a[k]) => ~LoopbackHost(a[k].segs[1], a[k].segs[2])
  <2>1. FoundAt(a, WildcardHost)
    BY Finds
  <2>2. FoundAt(a, ZeroPort)
    BY Finds
  <2>3. FoundAt(a, LoopbackHost)
    BY Finds
  <2> QED
    BY <2>1, <2>2, <2>3, Zenon DEF FoundAt
<1> HIDE DEF W, Z, B
<1>3. ASSUME NEW k \in 1 .. Len(a)
      PROVE  /\ HasValue(a[k]) => /\ WildcardHost(a[k].segs[1], a[k].segs[2]) <=> a[k].says = "wildcard"
                                  /\ LoopbackHost(a[k].segs[1], a[k].segs[2]) <=> a[k].says = "loopback"
                                  /\ ZeroPort(a[k].segs[1], a[k].segs[2]) <=> a[k].says = "zeroPort"
             /\ ~HasValue(a[k]) => a[k].says = "other"
  <2>1. Truthful(a[k])
    BY DEF Whole
  <2> QED
    BY <2>1, Says, Zenon DEF Truthful
<1>4. /\ W = {} <=> \A k \in 1 .. Len(a) : a[k].says # "wildcard"
      /\ Z = {} <=> \A k \in 1 .. Len(a) : a[k].says # "zeroPort"
      /\ B = {} <=> \A k \in 1 .. Len(a) : a[k].says # "loopback"
  <2>1. "other" # "wildcard" /\ "other" # "zeroPort" /\ "other" # "loopback"
    OBVIOUS
  <2> QED
    BY <1>2, <1>3, <2>1, Zenon
<1>5. Classify(a, allow) = "ok" <=> W = {} /\ Z = {} /\ (B = {} \/ allow)
  BY <1>1
<1> QED
  BY <1>4, <1>5, Zenon DEF Admissible

-----------------------------------------------------------------------------
(* The specification.                                                      *)

\* The addresses whose author knows what they say.
Screenable(C) == {a \in Seq(C) : Whole(a)}

\* The admissible ones of a list.
Good(list, allow) == Those(list, LAMBDA a : Admissible(a, allow))

\* No address of none.
LEMMA GoodNone ==
  ASSUME NEW allow PROVE Good(<<>>, allow) = <<>>
<1> DEFINE IsSo(a) == Admissible(a, allow)
<1>1. Agree(<<>>, IsSo, LAMBDA x : FALSE)
  BY DEF Agree
<1>2. <<>> \in Seq({})
  OBVIOUS
<1>3. Those(<<>>, IsSo) = <<>>
  BY <1>1, <1>2, ThoseNone
<1> QED
  BY <1>3 DEF Good

\* One more address is kept if it is admissible.
LEMMA GoodAppend ==
  ASSUME NEW S, NEW list \in Seq(S), NEW x \in S, NEW allow
  PROVE  Good(Append(list, x), allow)
           = IF Admissible(x, allow) THEN Append(Good(list, allow), x) ELSE Good(list, allow)
<1> DEFINE IsSo(a) == Admissible(a, allow)
<1>1. ThoseStep(list, x, IsSo)
  BY ThoseAppend
<1> QED
  BY <1>1 DEF ThoseStep, Good

\* What the replies show are the admissible addresses.
LEMMA DialableGood ==
  ASSUME NEW C, NEW list \in Seq(Screenable(C))
  PROVE  SeqDialable(list) = Good(list, TRUE)
<1> DEFINE IsSo(a) == Admissible(a, TRUE)
<1>1. Agree(list, Dialable, IsSo)
  <2> SUFFICES ASSUME NEW i \in 1 .. Len(list) PROVE Dialable(list[i]) <=> Admissible(list[i], TRUE)
    BY DEF Agree
  <2>1. list[i] \in Seq(C) /\ Whole(list[i])
    BY DEF Screenable
  <2> QED
    BY <2>1, ClassifyReads DEF Dialable
<1>2. ThoseSame(list, Dialable, IsSo)
  BY <1>1, ThoseAgree
<1> QED
  BY <1>2 DEF ThoseSame, Good, SeqDialable

\* A sequence of bounded length is a sequence.
LEMMA Bounded ==
  ASSUME NEW S, NEW n \in Nat, NEW s \in BoundedSeq(S, n)
  PROVE  s \in Seq(S)
<1>1. PICK m \in 0 .. n : s \in [1 .. m -> S]
  BY DEF BoundedSeq, SeqOf
<1> QED
  BY <1>1

\* What is announced was bound.
LEMMA AnnouncedListed ==
  ASSUME NEW S, NEW list \in Seq(S)
  PROVE  Announced(list) \in Seq(S)
<1> DEFINE IsSo(a) == CASE policy = "unfiltered" -> TRUE
                        [] policy = "dialable" -> IsDialableMA(a)
                        [] policy = "routable" -> IsRoutableMA(a)
<1>1. Those(list, IsSo) \in Seq(S)
  BY ThoseListed
<1> QED
  BY <1>1 DEF Announced

-----------------------------------------------------------------------------
(* The screening.                                                          *)

\* What is given is screenable, and nothing is given, or has been screened, before the
\* call that screens it.
Screening(C) ==
  /\ given \in Seq(Screenable(C)) /\ seen \in 0 .. Len(given)
  /\ pc \in {"idle", "resolve"} => given = <<>> /\ seen = 0 /\ kept = <<>>
  /\ device \in BOOLEAN
  /\ kept = Good(SubSeq(given, 1, seen), AllowLoopback)

\* Nothing has been screened at first.
LEMMA NoneYet ==
  ASSUME NEW S, NEW list \in Seq(S), NEW allow
  PROVE  Good(SubSeq(list, 1, 0), allow) = <<>>
<1>1. SubSeq(list, 1, 0) = <<>>
  OBVIOUS
<1> QED
  BY <1>1, GoodNone

\* The lists that callers and sockets make are of screenable addresses.
LEMMA ArgumentsScreenable ==
  ASSUME NEW C, Addresses \cup Listed \subseteq Screenable(C), MaxList \in Nat,
         NEW list \in Argument \cup {<<a>> : a \in Listed}
  PROVE  list \in Seq(Screenable(C))
<1>1. CASE list \in Lists
  <2>1. list \in Seq(Listed)
    BY <1>1, Bounded DEF Lists
  <2>2. Listed \subseteq Screenable(C)
    OBVIOUS
  <2> QED
    BY <2>1, <2>2
<1>2. CASE \E a \in Addresses \cup Listed : list = <<a>>
  <2>1. PICK a \in Screenable(C) : list = <<a>>
    BY <1>2
  <2> QED
    BY <2>1
<1> QED
  BY <1>1, <1>2 DEF Argument

\* It holds at first.
LEMMA ScreeningInit ==
  ASSUME NEW C, Init
  PROVE  Screening(C)
<1>1. <<>> \in Seq(Screenable(C)) /\ Len(<<>>) = 0
  OBVIOUS
<1>2. Good(SubSeq(<<>>, 1, 0), AllowLoopback) = <<>>
  BY <1>1, NoneYet
<1> QED
  BY <1>1, <1>2 DEF Init, Screening

\* It holds after every step.
LEMMA ScreeningNext ==
  ASSUME NEW C, Addresses \cup Listed \subseteq Screenable(C), MaxList \in Nat,
         Screening(C), [Next]_vars
  PROVE  Screening(C)'
<1> DEFINE G == Screenable(C)
<1>1. /\ given \in Seq(G) /\ seen \in 0 .. Len(given)
      /\ pc \in {"idle", "resolve"} => given = <<>> /\ seen = 0 /\ kept = <<>>
      /\ device \in BOOLEAN
      /\ kept = Good(SubSeq(given, 1, seen), AllowLoopback)
  BY Zenon DEF Screening
<1> HIDE DEF G
\* A call begins with nothing screened.
<1>2. ASSUME seen' = 0, kept' = <<>>, device' = device, given' \in Seq(G),
             pc' \in {"idle", "resolve"} => given' = <<>>
      PROVE  Screening(C)'
  <2>1. seen' \in 0 .. Len(given')
    BY <1>2
  <2>2. PICK allow : allow = AllowLoopback'
    OBVIOUS
  <2>3. Good(SubSeq(given', 1, 0), allow) = <<>>
    BY <1>2, NoneYet
  <2>4. Good(SubSeq(given, 1, seen), AllowLoopback)' = Good(SubSeq(given', 1, seen'), AllowLoopback')
    BY Zenon
  <2> QED
    BY <1>1, <1>2, <2>1, <2>2, <2>3, <2>4, Zenon DEF Screening, G
\* A step that leaves the list and what was screened alone.
<1>3. ASSUME UNCHANGED <<device, op, given, seen, kept>>,
             pc' \notin {"idle", "resolve"} \/ pc' = pc
      PROVE  Screening(C)'
  <2>1. Good(SubSeq(given, 1, seen), AllowLoopback)' = Good(SubSeq(given, 1, seen), AllowLoopback)
    BY <1>3 DEF AllowLoopback, PublishLoopback
  <2> QED
    BY <1>1, <1>3, <2>1, Zenon DEF Screening, G
<1>4. ASSUME NEW call, NEW list \in Seq(G), NEW at, Start(call, list, at),
             at # "idle", at = "resolve" => list = <<>>
      PROVE  Screening(C)'
  <2>1. pc = "idle" /\ pc' = at /\ given' = list /\ UNCHANGED <<device, seen, kept>>
    BY <1>4 DEF Start
  <2> QED
    BY <1>1, <1>2, <1>4, <2>1
<1>5. \A list \in Argument \cup {<<a>> : a \in Listed} : list \in Seq(G)
  BY ArgumentsScreenable DEF G
<1>6. Lists \subseteq Argument /\ <<>> \in Seq(G)
  BY DEF Argument
<1>7. CASE CallDial
  BY <1>4, <1>5, <1>7 DEF CallDial
<1>8. CASE CallReserve
  BY <1>4, <1>5, <1>6, <1>8 DEF CallReserve
<1>9. CASE CallRelay
  BY <1>4, <1>5, <1>9 DEF CallRelay
<1>10. CASE CallCreateXpr
  BY <1>4, <1>5, <1>10 DEF CallCreateXpr
<1>11. CASE CallAsk
  BY <1>4, <1>6, <1>11 DEF CallAsk
<1>12. CASE Resolve
  <2>1. PICK sockets \in Lists : given' = Announced(sockets)
    BY <1>12 DEF Resolve
  <2>2. given' \in Seq(G)
    BY <1>5, <1>6, <2>1, AnnouncedListed
  <2>3. seen' = 0 /\ kept' = <<>> /\ device' = device /\ pc' = "screen"
    BY <1>1, <1>12 DEF Resolve
  <2> QED
    BY <1>2, <2>2, <2>3
<1>13. CASE Screen
  <2> DEFINE a == given[seen + 1]
             done == SubSeq(given, 1, seen)
  <2>1. /\ pc = "screen" /\ seen < Len(given) /\ seen' = seen + 1
        /\ kept' = IF Classify(a, AllowLoopback) = "ok" THEN Append(kept, a) ELSE kept
        /\ UNCHANGED <<device, op, pc, given>>
    BY <1>13 DEF Screen
  <2>2. seen' \in 0 .. Len(given') /\ a \in G /\ done \in Seq(G)
    BY <1>1, <2>1
  <2>3. SubSeq(given, 1, seen + 1) = Append(done, a)
    BY <1>1, <2>1
  <2>4. AllowLoopback \in BOOLEAN /\ AllowLoopback' = AllowLoopback
    BY <1>1, <2>1 DEF AllowLoopback, PublishLoopback
  <2>5. Classify(a, AllowLoopback) = "ok" <=> Admissible(a, AllowLoopback)
    <3>1. a \in Seq(C) /\ Whole(a)
      BY <2>2 DEF G, Screenable
    <3> QED
      BY <2>4, <3>1, ClassifyReads
  <2>6. Good(Append(done, a), AllowLoopback)
          = IF Admissible(a, AllowLoopback) THEN Append(Good(done, AllowLoopback), a)
            ELSE Good(done, AllowLoopback)
    BY <2>2, GoodAppend
  <2>7. kept' = Good(Append(done, a), AllowLoopback)
    BY <1>1, <2>1, <2>5, <2>6, Zenon
  <2>8. Good(SubSeq(given, 1, seen), AllowLoopback)' = Good(SubSeq(given, 1, seen + 1), AllowLoopback)
    BY <2>1, <2>4
  <2> HIDE DEF a, done
  <2>9. kept' = Good(SubSeq(given, 1, seen), AllowLoopback)'
    BY <2>3, <2>7, <2>8, Zenon
  <2>10. given' \in Seq(G) /\ pc' \notin {"idle", "resolve"} /\ device' \in BOOLEAN
    BY <1>1, <2>1
  <2> QED
    BY <2>2, <2>9, <2>10, Zenon DEF Screening, G
<1>14. CASE Refuse
  BY <1>3, <1>14 DEF Refuse, callvars
<1>15. CASE Submit
  BY <1>3, <1>15 DEF Submit, callvars
<1>16. CASE Answer
  BY <1>3, <1>16 DEF Answer
<1>17. CASE Fail
  BY <1>3, <1>17 DEF Fail, callvars
<1>18. CASE Return
  BY <1>2, <1>6, <1>18 DEF Return
<1>19. CASE UNCHANGED vars
  BY <1>3, <1>19 DEF vars
<1> QED
  BY <1>7, <1>8, <1>9, <1>10, <1>11, <1>12, <1>13, <1>14, <1>15, <1>16, <1>17, <1>18, <1>19 DEF Next

\* For any addresses that only their authors need to know: those that are kept are the
\* admissible ones of those that were screened.
THEOREM KeepsSafety ==
  ASSUME NEW C, Addresses \cup Listed \subseteq Screenable(C), MaxList \in Nat
  PROVE  Spec => []KeepsAdmissible
<1>1. Init => Screening(C)
  BY ScreeningInit
<1>2. Screening(C) /\ [Next]_vars => Screening(C)'
  BY ScreeningNext
<1>3. Screening(C) => KeepsAdmissible
  BY DEF Screening, KeepsAdmissible, Good
<1> QED
  BY <1>1, <1>2, <1>3, PTL DEF Spec

-----------------------------------------------------------------------------
(* What is handed out.                                                     *)

Transports == {Word("tcp"), Word("udp")}

\* An address of one socket at most: it has one port, and nothing else in it has the name
\* of a transport.
OnePort(a) ==
  /\ \A j, k \in 1 .. Len(a) :
        a[j].segs[1] \in Transports /\ a[k].segs[1] \in Transports => j = k
  /\ \A k \in 1 .. Len(a) :
        /\ a[k].segs[1] \in Transports => HasValue(a[k]) /\ a[k].segs[2][1] = "digits"
        /\ HasValue(a[k]) => a[k].segs[2] \notin Transports

\* The port of such an address is the one that MyBoundPorts extracts.
LEMMA PortReads ==
  ASSUME NEW C, NEW a \in Screenable(C), OnePort(a)
  PROVE  ExtractPort(a) = PortsOf(a)
<1> DEFINE L == Len(a)
           parts == Segments(a)
           IsSo(c) == c.segs[1] \in Transports
           after == {i \in 2 .. Len(parts) : parts[i - 1] \in Transports}
           ports == Those(a, IsSo)
<1>1. a \in Seq(C) /\ Whole(a) /\ L \in Nat
  BY DEF Screenable
<1>2. \A i \in 1 .. L : Shaped(a[i])
  BY <1>1, Zenon DEF Whole, Truthful
<1>3. PICK off : Placed(off, a)
  BY <1>1, <1>2, SegmentsPlaced
<1>4. PICK N \in Nat : N = Len(parts)
  <2>1. \E X : parts \in Seq(X)
    BY <1>1, <1>2, SegmentsPlaced
  <2> QED
    BY <2>1
<1>5. /\ \A k \in 0 .. L : off[k] \in Nat /\ off[k] <= N
      /\ \A k \in 1 .. L : /\ off[k] = off[k - 1] + (IF HasValue(a[k]) THEN 2 ELSE 1)
                           /\ parts[off[k - 1] + 1] = a[k].segs[1]
                           /\ HasValue(a[k]) => parts[off[k - 1] + 2] = a[k].segs[2]
      /\ \A p \in 1 .. N : \E k \in 1 .. L :
            p = off[k - 1] + 1 \/ (HasValue(a[k]) /\ p = off[k - 1] + 2)
  BY <1>3, <1>4, Zenon DEF Placed
<1>6. ExtractPort(a) = IF after # {} /\ parts[Min(after)][1] \in {"digits", "prefixed"}
                       THEN <<parts[Min(after)][2][2]>> ELSE <<>>
  BY Zenon DEF ExtractPort, Transports
<1>7. PortsOf(a) = [i \in 1 .. Len(ports) |-> ports[i].segs[2][2][2]]
  BY DEF PortsOf, Transports
<1> HIDE DEF parts, ports, after
<1>8. \A p \in 1 .. N : parts[p] \in Transports => \E k \in 1 .. L : IsSo(a[k]) /\ p = off[k - 1] + 1
  <2> SUFFICES ASSUME NEW p \in 1 .. N, parts[p] \in Transports
               PROVE  \E k \in 1 .. L : IsSo(a[k]) /\ p = off[k - 1] + 1
    OBVIOUS
  <2>1. PICK k \in 1 .. L : p = off[k - 1] + 1 \/ (HasValue(a[k]) /\ p = off[k - 1] + 2)
    BY <1>5
  <2>2. HasValue(a[k]) => a[k].segs[2] \notin Transports
    BY DEF OnePort
  <2> QED
    BY <1>5, <2>1, <2>2, Zenon
<1>9. CASE \E k \in 1 .. L : IsSo(a[k])
  <2>1. PICK k \in 1 .. L : IsSo(a[k])
    BY <1>9
  <2>2. \A i \in 1 .. L : IsSo(a[i]) => i = k
    BY <2>1, Zenon DEF OnePort
  <2>3. HasValue(a[k]) /\ a[k].segs[2][1] = "digits"
    BY <2>1, Zenon DEF OnePort
  <2>4. ports = <<a[k]>>
    <3>1. Only(a, k, IsSo)
      BY <2>1, <2>2, Zenon DEF Only
    <3> QED
      BY <1>1, <3>1, ThoseOne DEF ports
  <2>5. PortsOf(a) = <<a[k].segs[2][2][2]>>
    BY <1>7, <2>4
  <2>6. PICK m \in Nat : m = off[k - 1] + 2 /\ m - 1 = off[k - 1] + 1 /\ m \in 2 .. N
    <3>1. k - 1 \in 0 .. L /\ k \in 0 .. L
      BY <1>1
    <3>2. off[k - 1] \in Nat /\ off[k] = off[k - 1] + 2 /\ off[k] <= N
      BY <1>5, <2>3, <3>1, Zenon
    <3>3. /\ off[k - 1] + 2 \in Nat /\ (off[k - 1] + 2) - 1 = off[k - 1] + 1
          /\ off[k - 1] + 2 \in 2 .. N
      BY <3>2
    <3> QED
      BY <3>3
  <2>7. parts[m - 1] \in Transports /\ parts[m] = a[k].segs[2]
    BY <1>5, <2>1, <2>3, <2>6, Zenon
  <2>8. \A i \in 2 .. N : parts[i - 1] \in Transports => i = m
    <3> SUFFICES ASSUME NEW i \in 2 .. N, parts[i - 1] \in Transports PROVE i = m
      OBVIOUS
    <3>1. i - 1 \in 1 .. N
      BY <1>4
    <3>2. PICK j \in 1 .. L : IsSo(a[j]) /\ i - 1 = off[j - 1] + 1
      BY <1>8, <3>1
    <3>3. i - 1 = m - 1
      BY <2>2, <2>6, <3>2, Zenon
    <3> QED
      BY <3>3
  <2>9. after = {m}
    BY <1>4, <2>6, <2>7, <2>8 DEF after
  <2>10. Min(after) = m
    <3>1. Min({m}) = m
      BY DEF Min
    <3> QED
      BY <2>9, <3>1
  <2>11. ExtractPort(a) = <<a[k].segs[2][2][2]>>
    BY <1>6, <2>3, <2>7, <2>9, <2>10
  <2> QED
    BY <2>5, <2>11
<1>10. CASE \A k \in 1 .. L : ~IsSo(a[k])
  <2>1. Agree(a, IsSo, LAMBDA x : FALSE)
    BY <1>10 DEF Agree
  <2>2. ports = <<>>
    BY <1>1, <2>1, ThoseNone DEF ports
  <2>3. PortsOf(a) = <<>>
    BY <1>7, <2>2
  <2>4. after = {}
    <3>1. \A i \in 2 .. N : i - 1 \in 1 .. N
      BY <1>4
    <3>2. \A i \in 2 .. N : parts[i - 1] \notin Transports
      BY <1>8, <1>10, <3>1, Zenon
    <3> QED
      BY <1>4, <3>2 DEF after
  <2> QED
    BY <1>6, <2>3, <2>4
<1> QED
  BY <1>9, <1>10

\* What the caller should get of a reply.
Expected(reply) ==
  CASE op \in {"peerInfo", "Multiaddrs", "decodeXpr"} -> reply
    [] op = "MyBoundPorts" ->
         <<FlattenSeq([i \in 1 .. Len(reply[1]) |-> PortsOf(reply[1][i])])>>
    [] OTHER -> [i \in 1 .. Len(reply) |-> Good(reply[i], TRUE)]

\* The callbacks and the transforms hand it over.
LEMMA HandedReads ==
  ASSUME NEW C, \A a \in Listed : a \in Screenable(C) /\ OnePort(a), MaxList \in Nat,
         NEW reply \in Replies
  PROVE  Handed(reply) = Expected(reply)
<1>1. \A list \in Lists : list \in Seq(Listed)
  BY Bounded DEF Lists
<1>2. \A list \in Seq(Listed) : SeqDialable(list) = Good(list, TRUE)
  <2> SUFFICES ASSUME NEW list \in Seq(Listed) PROVE SeqDialable(list) = Good(list, TRUE)
    OBVIOUS
  <2>1. list \in Seq(Screenable(C))
    <3>1. Listed \subseteq Screenable(C)
      OBVIOUS
    <3> QED
      BY <3>1
  <2> QED
    BY <2>1, DialableGood
<1>3. CASE op \in {"peerInfo", "Multiaddrs"}
  <2>1. op \in {"peerInfo", "Multiaddrs", "decodeXpr"}
    BY <1>3
  <2>2. /\ op # "MyBoundPorts" /\ op # "decodeXpr" /\ op # "kadGetProviders"
        /\ op \notin Peers \ {"kadGetProviders"}
        /\ op \notin {"peerstoreGetPeerInfo", "circuitRelayReserve"}
    BY <1>3 DEF Peers
  <2>3. Handed(reply) = reply
    BY <1>3, <2>2, Zenon DEF Handed
  <2>4. Expected(reply) = reply
    BY <2>1, <2>2, Zenon DEF Expected
  <2> QED
    BY <2>3, <2>4
<1>4. CASE op = "MyBoundPorts"
  <2>1. PICK sockets \in Lists : reply = <<Announced(sockets)>>
    <3>1. op \in Own /\ op \notin Peers /\ op \notin {"peerstoreGetPeerInfo", "circuitRelayReserve", "decodeXpr"}
      BY <1>4 DEF Own, Peers
    <3>2. Replies = {<<Announced(sockets)>> : sockets \in Lists}
      BY <3>1, Zenon DEF Replies
    <3> QED
      BY <3>2, Zenon
  <2> DEFINE list == Announced(sockets)
  <2>2. list \in Seq(Listed) /\ reply[1] = list
    BY <1>1, <2>1, AnnouncedListed
  <2> HIDE DEF list
  <2>3. \A i \in 1 .. Len(list) : ExtractPort(list[i]) = PortsOf(list[i])
    <3> SUFFICES ASSUME NEW i \in 1 .. Len(list) PROVE ExtractPort(list[i]) = PortsOf(list[i])
      OBVIOUS
    <3>1. list[i] \in Listed
      BY <2>2
    <3> QED
      BY <3>1, PortReads
  <2>4. [i \in 1 .. Len(list) |-> ExtractPort(list[i])] = [i \in 1 .. Len(list) |-> PortsOf(list[i])]
    BY <2>3, Zenon
  <2>5. Handed(reply) = <<FlattenSeq([i \in 1 .. Len(list) |-> ExtractPort(list[i])])>>
    <3>1. /\ op \notin {"peerInfo", "Multiaddrs"} /\ op # "decodeXpr" /\ op # "kadGetProviders"
          /\ op \notin Peers \ {"kadGetProviders"}
          /\ op \notin {"peerstoreGetPeerInfo", "circuitRelayReserve"}
      BY <1>4 DEF Peers
    <3>2. Handed(reply) = <<FlattenSeq([i \in 1 .. Len(reply[1]) |-> ExtractPort(reply[1][i])])>>
      BY <1>4, <3>1, Zenon DEF Handed
    <3> QED
      BY <2>2, <3>2, Zenon
  <2>6. Expected(reply) = <<FlattenSeq([i \in 1 .. Len(list) |-> PortsOf(list[i])])>>
    BY <1>4, <2>2 DEF Expected
  <2> QED
    BY <2>4, <2>5, <2>6, Zenon
<1>5. CASE op = "decodeXpr"
  <2>1. PICK list \in Lists : reply = <<list>>
    BY <1>5 DEF Replies, Own, Peers
  <2>2. Handed(reply) = <<RecordEntry(reply[1], FALSE)>> /\ Expected(reply) = reply
    <3>1. /\ op \notin {"peerInfo", "Multiaddrs"} /\ op # "MyBoundPorts" /\ op # "kadGetProviders"
          /\ op \notin Peers \ {"kadGetProviders"} /\ op \in {"peerInfo", "Multiaddrs", "decodeXpr"}
          /\ op \notin {"peerstoreGetPeerInfo", "circuitRelayReserve"}
      BY <1>5 DEF Peers
    <3>2. Handed(reply) = <<RecordEntry(reply[1], FALSE)>>
      BY <1>5, <3>1, Zenon DEF Handed
    <3>3. Expected(reply) = reply
      BY <3>1, Zenon DEF Expected
    <3> QED
      BY <3>2, <3>3
  <2>3. RecordEntry(reply[1], FALSE) = list
    BY <2>1 DEF RecordEntry
  <2> QED
    BY <2>1, <2>2, <2>3
<1>6. CASE op \in Peers
  <2>1. reply \in BoundedSeq(BoundedSeq(Listed, 2), 2)
    BY <1>6 DEF Replies, Own, Peers
  <2>2. reply \in Seq(BoundedSeq(Listed, 2))
    BY <2>1, Bounded
  <2>3. \A i \in 1 .. Len(reply) : reply[i] \in BoundedSeq(Listed, 2)
    BY <2>2, Elements
  <2>4. \A i \in 1 .. Len(reply) : SeqDialable(reply[i]) = Good(reply[i], TRUE)
    <3>1. \A s \in BoundedSeq(Listed, 2) : s \in Seq(Listed)
      BY Bounded
    <3> QED
      BY <1>2, <2>3, <3>1, Zenon
  <2>5. Handed(reply) = [i \in 1 .. Len(reply) |-> SeqDialable(reply[i])]
    <3>1. \A i \in 1 .. Len(reply) : RecordEntry(reply[i], TRUE) = SeqDialable(reply[i])
      BY DEF RecordEntry
    <3>2. CASE op = "kadGetProviders"
      BY <3>2 DEF Handed
    <3>3. CASE op # "kadGetProviders"
      <4>1. Handed(reply) = [i \in 1 .. Len(reply) |-> RecordEntry(reply[i], TRUE)]
        BY <1>6, <3>3 DEF Handed, Peers
      <4> QED
        BY <3>1, <4>1, Zenon
    <3> QED
      BY <3>2, <3>3
  <2>6. Expected(reply) = [i \in 1 .. Len(reply) |-> Good(reply[i], TRUE)]
    BY <1>6 DEF Expected, Peers
  <2> QED
    BY <2>4, <2>5, <2>6, Zenon
<1>7. CASE op \in {"peerstoreGetPeerInfo", "circuitRelayReserve"}
  <2>1. PICK list \in Lists : reply = <<list>>
    BY <1>7 DEF Replies, Own, Peers
  <2>2. Handed(reply) = <<SeqDialable(list)>>
    BY <1>7, <2>1 DEF Handed, Peers
  <2>3. Expected(reply) = [i \in 1 .. 1 |-> Good(reply[i], TRUE)]
    BY <1>7, <2>1 DEF Expected
  <2>4. [i \in 1 .. 1 |-> Good(reply[i], TRUE)] = <<Good(list, TRUE)>>
    <3>1. [i \in 1 .. 1 |-> Good(reply[i], TRUE)] = <<Good(reply[1], TRUE)>>
      <4>1. PICK g : g = Good(reply[1], TRUE)
        OBVIOUS
      <4>2. \A i \in 1 .. 1 : i = 1
        OBVIOUS
      <4>3. [i \in 1 .. 1 |-> Good(reply[i], TRUE)] = [i \in 1 .. 1 |-> g]
        BY <4>1, <4>2, Zenon
      <4>4. [i \in 1 .. 1 |-> g] = <<g>>
        OBVIOUS
      <4> QED
        BY <4>1, <4>3, <4>4
    <3>2. reply[1] = list
      BY <2>1
    <3> QED
      BY <3>1, <3>2, Zenon
  <2> QED
    BY <1>1, <1>2, <2>2, <2>3, <2>4
<1>8. CASE op \notin {"peerInfo", "Multiaddrs", "MyBoundPorts", "decodeXpr", "peerstoreGetPeerInfo",
                     "circuitRelayReserve"} \cup Peers
  <2>1. reply = <<>>
    BY <1>8 DEF Replies, Own
  <2>2. Handed(reply) = <<>>
    BY <1>8 DEF Handed, Peers
  <2>3. Expected(reply) = [i \in 1 .. 0 |-> Good(reply[i], TRUE)]
    BY <1>8, <2>1 DEF Expected
  <2> QED
    BY <2>2, <2>3
<1> QED
  BY <1>3, <1>4, <1>5, <1>6, <1>7, <1>8

\* For any lists of such addresses, of which each is of one socket: the caller gets the
\* dialable ones of another node, and the ports and the addresses of its own as they are.
THEOREM HandsOutSafety ==
  ASSUME NEW C, \A a \in Listed : a \in Screenable(C) /\ OnePort(a), MaxList \in Nat
  PROVE  Spec => []HandsOutDialable
<1>1. Init => HandsOutDialable
  BY DEF Init, HandsOutDialable
<1>2. ASSUME HandsOutDialable, [Next]_vars
      PROVE  HandsOutDialable'
  <2>1. CASE Answer
    <3>1. PICK reply \in Replies : told' = reply /\ handed' = Handed(reply)
      BY <2>1 DEF Answer
    <3>2. op' = op /\ handed' = Expected(told')
      BY <2>1, <3>1, HandedReads DEF Answer
    <3>3. handed' = Expected(told)'
      BY <3>2 DEF Expected
    <3> QED
      BY <3>3, Zenon DEF HandsOutDialable, Expected, Good
  <2>2. CASE pc' # "answered"
    BY <2>2 DEF HandsOutDialable
  <2>3. CASE UNCHANGED vars
    <3>1. op' = op /\ pc' = pc /\ told' = told /\ handed' = handed
      BY <2>3 DEF vars
    <3>2. pc = "answered" => handed = Expected(told)
      BY <1>2, Zenon DEF HandsOutDialable, Expected, Good
    <3>3. Expected(told)' = Expected(told)
      BY <3>1, Zenon DEF Expected
    <3>4. (pc = "answered" => handed = Expected(told))'
      BY <3>1, <3>2, <3>3
    <3> QED
      BY <3>4, Zenon DEF HandsOutDialable, Expected, Good
  <2>4. ASSUME Next, ~Answer PROVE pc' # "answered"
    BY <2>4 DEF Next, CallDial, CallReserve, CallRelay, CallCreateXpr, CallAsk, Start, Resolve,
                Screen, Refuse, Submit, Fail, Return
  <2> QED
    BY <1>2, <2>1, <2>2, <2>3, <2>4
<1> QED
  BY <1>1, <1>2, PTL DEF Spec
===============================================================================
