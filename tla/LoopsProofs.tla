---------------------------- MODULE LoopsProofs ----------------------------
(***************************************************************************)
(* What a flattened and a filtered sequence consist of, and in which       *)
(* order, for all sequences.  FlattenSeq is a recursive function: that it  *)
(* exists is shown for the first length where it would not.                *)
(***************************************************************************)
EXTENDS Loops, NaturalsInduction, WellFoundedInduction, TLAPS

\* A set of naturals that is not empty has a first one.
LEMMA FirstOf ==
    ASSUME NEW S \in SUBSET Nat, S # {}
    PROVE  \E i \in S : \A j \in S : i <= j
<1>1. PICK i \in S : \A j \in S : ~(<<j, i>> \in OpToRel(<, Nat))
  BY NatLessThanWellFounded, WFMin
<1>2. \A j \in S : ~(j < i)
  BY <1>1 DEF OpToRel
<1> QED
  BY <1>2

\* The recursive function inside FlattenSeq, up to m.
FlatTo(ss, g, m) == g = [i \in 1 .. m |-> IF i = 1 THEN ss[i] ELSE g[i - 1] \o ss[i]]

\* The function inside FlattenSeq exists.
LEMMA FlatExists ==
    ASSUME NEW S, NEW ss \in Seq(Seq(S)), NEW n \in 1 .. Len(ss)
    PROVE  \E g \in [1 .. n -> Seq(S)] : FlatTo(ss, g, n)
<1> DEFINE Bad == {m \in 1 .. n : ~\E g \in [1 .. m -> Seq(S)] : FlatTo(ss, g, m)}
<1>0. n \in Nat \ {0} /\ n \in 1 .. n /\ \A i \in 1 .. n : ss[i] \in Seq(S)
  OBVIOUS
<1> SUFFICES ASSUME Bad # {} PROVE FALSE
  BY <1>0
<1>1. Bad \in SUBSET Nat
  BY <1>0
<1>2. \A m \in 1 .. n : m \in Bad \/ \E g \in [1 .. m -> Seq(S)] : FlatTo(ss, g, m)
  OBVIOUS
<1>3. \A m \in Bad : m \in 1 .. n /\ ~\E g \in [1 .. m -> Seq(S)] : FlatTo(ss, g, m)
  OBVIOUS
<1> HIDE DEF Bad
<1>4. PICK m \in Bad : \A j \in Bad : m <= j
  BY <1>1, FirstOf
<1>5. m \in 1 .. n /\ m \in Nat
  BY <1>0, <1>3, <1>4
<1>6. CASE m = 1
  <2> DEFINE g == [i \in 1 .. 1 |-> ss[1]]
  <2>1. g \in [1 .. 1 -> Seq(S)]
    BY <1>0
  <2>2. FlatTo(ss, g, 1)
    BY DEF FlatTo
  <2> QED
    BY <1>3, <1>4, <1>6, <2>1, <2>2
<1>7. CASE m # 1
  <2>1. m - 1 \in 1 .. n /\ m - 1 \notin Bad
    BY <1>0, <1>4, <1>5, <1>7
  <2>2. PICK g \in [1 .. m - 1 -> Seq(S)] : FlatTo(ss, g, m - 1)
    BY <1>2, <2>1
  <2>3. /\ \A i \in 1 .. m : i # m => i \in 1 .. m - 1
        /\ \A i \in 1 .. m : i # 1 => i - 1 \in 1 .. m - 1
        /\ \A i \in 1 .. m - 1 : i \in 1 .. m /\ i # m
    BY <1>5, <1>7
  <2>7. m \in 1 .. m /\ m - 1 \in 1 .. m /\ m - 1 # m
    BY <1>5, <1>7
  <2> DEFINE h == [i \in 1 .. m |-> IF i = m THEN g[m - 1] \o ss[m] ELSE g[i]]
  <2>4. h \in [1 .. m -> Seq(S)]
    BY <1>0, <1>5, <1>7, <2>2, <2>3
  <2>5. \A i \in 1 .. m - 1 : g[i] = IF i = 1 THEN ss[i] ELSE g[i - 1] \o ss[i]
    BY <2>2 DEF FlatTo
  <2>6. \A i \in 1 .. m : h[i] = IF i = 1 THEN ss[i] ELSE h[i - 1] \o ss[i]
    <3> TAKE i \in 1 .. m
    <3>1. CASE i = m
      <4>1. h[m] = g[m - 1] \o ss[m] /\ h[m - 1] = g[m - 1]
        BY <1>7, <2>3, <2>7
      <4> QED BY <1>7, <3>1, <4>1
    <3>2. CASE i # m
      <4>1. h[i] = g[i] /\ (i # 1 => h[i - 1] = g[i - 1])
        BY <1>5, <2>3, <3>2
      <4> QED BY <2>3, <2>5, <3>2, <4>1
    <3> QED BY <3>1, <3>2
  <2> HIDE DEF h
  <2>8. FlatTo(ss, h, m)
    BY <2>4, <2>6 DEF FlatTo
  <2> QED
    BY <1>3, <1>4, <2>4, <2>8
<1> QED BY <1>6, <1>7

\* The parts of what is flattened up to m.
Parts(ss, s, off, m) ==
    /\ \A i \in 1 .. m : off[i] + Len(ss[i]) <= Len(s)
    /\ \A i \in 1 .. m : \A a \in 1 .. Len(ss[i]) : s[off[i] + a] = ss[i][a]
    /\ \A i, j \in 1 .. m : i < j => off[i] + Len(ss[i]) <= off[j]
    /\ \A p \in 1 .. Len(s) : \E i \in 1 .. m : off[i] < p /\ p <= off[i] + Len(ss[i])

\* A place in a part is a place of the whole,
LEMMA PartWithin ==
    ASSUME NEW o \in Nat, NEW l \in Nat, NEW m \in Nat, o + l <= m, NEW a \in 1 .. l
    PROVE  o + a \in 1 .. m
OBVIOUS

\* before those of the next part,
LEMMA PartBefore ==
    ASSUME NEW o \in Nat, NEW l \in Nat, NEW next \in Nat, o + l <= next,
           NEW b \in 1 .. l, NEW a \in Nat, a >= 1
    PROVE  o + b < next + a
OBVIOUS

\* and a place between the ends of a part is one of its places.
LEMMA PartAt ==
    ASSUME NEW o \in Nat, NEW l \in Nat, NEW p \in Nat, o < p, p <= o + l
    PROVE  \E a \in 1 .. l : p = o + a
<1>1. p - o \in 1 .. l /\ p = o + (p - o)
  OBVIOUS
<1> QED BY <1>1

\* One more part at the end.
LEMMA PartsStep ==
    ASSUME NEW S, NEW ss \in Seq(Seq(S)), NEW k \in Nat, k + 1 \in 1 .. Len(ss),
           NEW off \in [1 .. Len(ss) -> Nat], NEW s \in Seq(S),
           Parts(ss, s, off, k), off[k + 1] = Len(s)
    PROVE  Parts(ss, s \o ss[k + 1], off, k + 1)
<1> DEFINE t == s \o ss[k + 1]
<1>1. /\ ss[k + 1] \in Seq(S) /\ t \in Seq(S) /\ Len(t) = Len(s) + Len(ss[k + 1])
      /\ Len(s) \in Nat /\ Len(ss[k + 1]) \in Nat /\ Len(ss) \in Nat
  OBVIOUS
<1>2. \A i \in 1 .. k + 1 : i \in 1 .. Len(ss) /\ off[i] \in Nat /\ Len(ss[i]) \in Nat
  <2> TAKE i \in 1 .. k + 1
  <2>1. i \in 1 .. Len(ss)
    BY <1>1
  <2>2. ss[i] \in Seq(S) /\ off[i] \in Nat
    BY <2>1
  <2> QED BY <2>1, <2>2
<1>3. \A i \in 1 .. k + 1 : i \in 1 .. k \/ i = k + 1
  OBVIOUS
<1>4. \A p \in 1 .. Len(s) : t[p] = s[p]
  BY <1>1
<1>5. \A a \in 1 .. Len(ss[k + 1]) : t[Len(s) + a] = ss[k + 1][a]
  BY <1>1
<1> HIDE DEF t
<1>6. \A i \in 1 .. k + 1 : off[i] + Len(ss[i]) <= Len(t)
  <2> TAKE i \in 1 .. k + 1
  <2>1. CASE i \in 1 .. k
    <3>1. off[i] + Len(ss[i]) <= Len(s)
      BY <2>1 DEF Parts
    <3>2. off[i] + Len(ss[i]) \in Nat
      BY <1>2
    <3>3. Len(s) <= Len(t)
      BY <1>1
    <3> QED BY ONLY <1>1, <3>1, <3>2, <3>3
  <2>2. CASE i = k + 1
    BY <1>1, <2>2
  <2> QED BY <1>3, <2>1, <2>2
<1>7. \A i \in 1 .. k + 1 : \A a \in 1 .. Len(ss[i]) : t[off[i] + a] = ss[i][a]
  <2> TAKE i \in 1 .. k + 1
  <2> TAKE a \in 1 .. Len(ss[i])
  <2>1. CASE i \in 1 .. k
    <3>1. off[i] + a \in 1 .. Len(s)
      <4>1. off[i] + Len(ss[i]) <= Len(s)
        BY <2>1 DEF Parts
      <4>2. off[i] \in Nat /\ Len(ss[i]) \in Nat
        BY <1>2
      <4>3. Len(s) \in Nat
        BY <1>1
      <4> HIDE DEF t
      <4> QED BY <4>1, <4>2, <4>3, PartWithin
    <3>2. s[off[i] + a] = ss[i][a]
      BY <2>1 DEF Parts
    <3>3. t[off[i] + a] = s[off[i] + a]
      BY <1>4, <3>1
    <3> QED BY <3>2, <3>3
  <2>2. CASE i = k + 1
    BY <1>5, <2>2
  <2> QED BY <1>3, <2>1, <2>2
<1>8. \A i, j \in 1 .. k + 1 : i < j => off[i] + Len(ss[i]) <= off[j]
  <2> TAKE i, j \in 1 .. k + 1
  <2> HAVE i < j
  <2>1. i \in 1 .. k /\ (j \in 1 .. k \/ j = k + 1)
    BY <1>3
  <2>2. CASE j \in 1 .. k
    BY <2>1, <2>2 DEF Parts
  <2>3. CASE j = k + 1
    BY <2>1, <2>3 DEF Parts
  <2> QED BY <2>1, <2>2, <2>3
<1>9. \A p \in 1 .. Len(t) : \E i \in 1 .. k + 1 : off[i] < p /\ p <= off[i] + Len(ss[i])
  <2> TAKE p \in 1 .. Len(t)
  <2>1. CASE p \in 1 .. Len(s)
    BY <2>1 DEF Parts
  <2>2. CASE p \notin 1 .. Len(s)
    <3>1. off[k + 1] < p /\ p <= off[k + 1] + Len(ss[k + 1])
      BY <1>1, <2>2
    <3>2. k + 1 \in 1 .. k + 1
      OBVIOUS
    <3> QED BY <3>1, <3>2
  <2> QED BY <2>1, <2>2
<1> QED
  BY <1>6, <1>7, <1>8, <1>9 DEF Parts, t

\* FlattenSeq makes a sequence of the parts, one after the other.
LEMMA Flattened ==
    ASSUME NEW S, NEW ss \in Seq(Seq(S))
    PROVE  /\ FlattenSeq(ss) \in Seq(S)
           /\ \E off \in [1 .. Len(ss) -> Nat] : Parts(ss, FlattenSeq(ss), off, Len(ss))
<1> DEFINE n == Len(ss)
<1>0. n \in Nat /\ \A i \in 1 .. n : ss[i] \in Seq(S) /\ Len(ss[i]) \in Nat
  OBVIOUS
<1>1. CASE n = 0
  <2>1. FlattenSeq(ss) = ss /\ ss = <<>>
    BY <1>1 DEF FlattenSeq
  <2>2. ss \in Seq(S)
    BY <2>1
  <2>3. [i \in 1 .. Len(ss) |-> 0] \in [1 .. Len(ss) -> Nat]
    OBVIOUS
  <2>4. Parts(ss, FlattenSeq(ss), [i \in 1 .. Len(ss) |-> 0], Len(ss))
    BY <2>1 DEF Parts
  <2> QED
    BY <2>1, <2>2, <2>3, <2>4
<1>2. CASE n # 0
  <2>1. n \in 1 .. Len(ss)
    BY <1>0, <1>2
  <2>2. \E g \in [1 .. n -> Seq(S)] : FlatTo(ss, g, n)
    BY <2>1, FlatExists
  <2> DEFINE flat == CHOOSE g : FlatTo(ss, g, n)
  <2>3. FlatTo(ss, flat, n)
    BY <2>2
  <2>4. FlattenSeq(ss) = flat[n]
    BY <1>2 DEF FlattenSeq, FlatTo
  <2> HIDE DEF flat
  <2>5. \A i \in 1 .. n : flat[i] = IF i = 1 THEN ss[i] ELSE flat[i - 1] \o ss[i]
    BY <2>3 DEF FlatTo
  <2> DEFINE off == [i \in 1 .. n |-> IF i = 1 THEN 0 ELSE Len(flat[i - 1])]
             Upto(m) == flat[m] \in Seq(S) /\ Parts(ss, flat[m], off, m)
             Odd == {m \in 1 .. n : ~(flat[m] \in Seq(S))}
             Bad == {m \in 1 .. n : ~Parts(ss, flat[m], off, m)}
  <2>6. Odd = {}
    <3> SUFFICES ASSUME Odd # {} PROVE FALSE
      OBVIOUS
    <3>1. Odd \in SUBSET Nat /\ \A m \in Odd : m \in 1 .. n /\ flat[m] \notin Seq(S)
      BY <1>0
    <3>2. \A m \in 1 .. n : m \in Odd \/ flat[m] \in Seq(S)
      OBVIOUS
    <3> HIDE DEF Odd
    <3>3. PICK m \in Odd : \A j \in Odd : m <= j
      BY <3>1, FirstOf
    <3>4. CASE m = 1
      BY <1>0, <2>5, <3>1, <3>4
    <3>5. CASE m # 1
      <4>1. m - 1 \in 1 .. n /\ m - 1 \notin Odd
        BY <1>0, <3>1, <3>3, <3>5
      <4> QED
        <5>1. flat[m - 1] \in Seq(S) /\ ss[m] \in Seq(S)
          BY <1>0, <3>1, <3>2, <4>1
        <5>2. flat[m] = flat[m - 1] \o ss[m]
          BY <2>5, <3>1, <3>5
        <5>3. flat[m - 1] \o ss[m] \in Seq(S)
          BY <5>1
        <5> HIDE DEF Odd, Bad, Upto
        <5> QED BY <3>1, <5>2, <5>3
    <3> QED BY <3>4, <3>5
  <2>7. off \in [1 .. n -> Nat]
    <3>1. \A i \in 1 .. n : i # 1 => flat[i - 1] \in Seq(S)
      <4> TAKE i \in 1 .. n
      <4>1. i # 1 => i - 1 \in 1 .. n
        BY <1>0
      <4> QED BY <2>6, <4>1
    <3> QED BY <3>1
  <2>8. Bad = {}
    <3> SUFFICES ASSUME Bad # {} PROVE FALSE
      OBVIOUS
    <3>1. Bad \in SUBSET Nat /\ \A m \in Bad : m \in 1 .. n /\ ~Parts(ss, flat[m], off, m)
      BY <1>0
    <3>2. \A m \in 1 .. n : m \in Bad \/ Parts(ss, flat[m], off, m)
      OBVIOUS
    <3>3. \A m \in 1 .. n : flat[m] \in Seq(S)
      BY <2>6
    <3>4. off[1] = 0 /\ \A i \in 1 .. n : i # 1 => off[i] = Len(flat[i - 1])
      BY <1>0, <1>2
    <3> HIDE DEF Bad, off, Odd
    <3>5. PICK m \in Bad : \A j \in Bad : m <= j
      BY <3>1, FirstOf
    <3>6. CASE m = 1
      <4>1. flat[1] = ss[1] /\ ss[1] \in Seq(S)
        BY <1>0, <2>1, <2>5
      <4>2. \A i \in 1 .. 1 : i = 1
        OBVIOUS
      <4>3. \A p \in 1 .. Len(ss[1]) : 0 < p /\ p <= Len(ss[1])
        BY <4>1
      <4>4. Len(ss[1]) \in Nat /\ \A a \in 1 .. Len(ss[1]) : 0 + a = a
        BY <4>1
      <4>5. Parts(ss, ss[1], off, 1)
        BY <3>4, <4>2, <4>3, <4>4 DEF Parts
      <4> QED
        BY <3>1, <3>6, <4>1, <4>5
    <3>7. CASE m # 1
      <4>1. m - 1 \in 1 .. n /\ m - 1 \notin Bad
        BY <1>0, <3>1, <3>5, <3>7
      <4>2. Parts(ss, flat[m - 1], off, m - 1)
        BY <3>2, <4>1
      <4>3. PICK k \in Nat : k = m - 1 /\ k + 1 = m /\ k + 1 \in 1 .. Len(ss)
        BY <1>0, <3>1, <4>1
      <4>4. flat[m] = flat[k] \o ss[k + 1] /\ off[k + 1] = Len(flat[k])
        BY <2>5, <3>1, <3>4, <3>7, <4>3
      <4>5. Parts(ss, flat[k] \o ss[k + 1], off, k + 1)
        BY <2>7, <3>3, <4>1, <4>2, <4>3, <4>4, PartsStep
      <4> QED
        BY <3>1, <4>3, <4>4, <4>5
    <3> QED BY <3>6, <3>7
  <2>9. flat[n] \in Seq(S) /\ Parts(ss, flat[n], off, n)
    BY <2>1, <2>6, <2>8
  <2> QED
    BY <2>4, <2>7, <2>9
<1> QED BY <1>1, <1>2

\* What a flattened sequence holds, in which order, and what follows an element.
IsFlat(S, ss, s) ==
    /\ s \in Seq(S)
    /\ \A p \in 1 .. Len(s) : \E i \in 1 .. Len(ss) : \E a \in 1 .. Len(ss[i]) :
          /\ s[p] = ss[i][a]
          /\ \A b \in a + 1 .. Len(ss[i]) : \E q \in p + 1 .. Len(s) : s[q] = ss[i][b]
    /\ \A i \in 1 .. Len(ss) : \A a \in 1 .. Len(ss[i]) :
          \E p \in 1 .. Len(s) : s[p] = ss[i][a]
    /\ \A p, q \in 1 .. Len(s) : p < q =>
          \E i, j \in 1 .. Len(ss) : \E a \in 1 .. Len(ss[i]), b \in 1 .. Len(ss[j]) :
             s[p] = ss[i][a] /\ s[q] = ss[j][b] /\ (i < j \/ (i = j /\ a < b))

\* FlattenSeq's result holds the elements of the parts, in their order.
LEMMA FlatElements ==
    ASSUME NEW S, NEW ss \in Seq(Seq(S))
    PROVE  IsFlat(S, ss, FlattenSeq(ss))
<1> DEFINE s == FlattenSeq(ss)
<1>0. s \in Seq(S) /\ \E off \in [1 .. Len(ss) -> Nat] : Parts(ss, s, off, Len(ss))
  BY Flattened
<1> HIDE DEF s
<1>1. PICK off \in [1 .. Len(ss) -> Nat] : s \in Seq(S) /\ Parts(ss, s, off, Len(ss))
  BY <1>0
<1>2. \A i \in 1 .. Len(ss) : Len(ss[i]) \in Nat /\ off[i] \in Nat
  <2> TAKE i \in 1 .. Len(ss)
  <2>1. ss[i] \in Seq(S)
    OBVIOUS
  <2> QED BY <1>1, <2>1
<1>3. Len(s) \in Nat /\ Len(ss) \in Nat
  BY <1>1
<1>4. \A i \in 1 .. Len(ss) : \A a \in 1 .. Len(ss[i]) :
         off[i] + a \in 1 .. Len(s) /\ s[off[i] + a] = ss[i][a]
  <2> TAKE i \in 1 .. Len(ss)
  <2> TAKE a \in 1 .. Len(ss[i])
  <2>1. off[i] + Len(ss[i]) <= Len(s) /\ s[off[i] + a] = ss[i][a]
    BY <1>1 DEF Parts
  <2> QED BY <1>2, <1>3, <2>1
<1>5. \A p \in 1 .. Len(s) : \E i \in 1 .. Len(ss) :
         \E a \in 1 .. Len(ss[i]) : p = off[i] + a /\ s[p] = ss[i][a]
  <2> TAKE p \in 1 .. Len(s)
  <2>1. PICK i \in 1 .. Len(ss) : off[i] < p /\ p <= off[i] + Len(ss[i])
    BY <1>1 DEF Parts
  <2>2. off[i] \in Nat /\ Len(ss[i]) \in Nat /\ p \in Nat
    BY <1>2, <1>3
  <2>3. PICK a \in 1 .. Len(ss[i]) : p = off[i] + a
    BY <2>1, <2>2, PartAt
  <2>4. s[off[i] + a] = ss[i][a]
    BY <1>4
  <2> QED BY <2>3, <2>4
<1>6. \A p \in 1 .. Len(s) : \E i \in 1 .. Len(ss) : \E a \in 1 .. Len(ss[i]) :
         /\ s[p] = ss[i][a]
         /\ \A b \in a + 1 .. Len(ss[i]) : \E q \in p + 1 .. Len(s) : s[q] = ss[i][b]
  <2> TAKE p \in 1 .. Len(s)
  <2>i. PICK i \in 1 .. Len(ss) : \E a \in 1 .. Len(ss[i]) : p = off[i] + a /\ s[p] = ss[i][a]
    BY <1>5
  <2>1. PICK a \in 1 .. Len(ss[i]) : p = off[i] + a /\ s[p] = ss[i][a]
    BY <2>i
  <2>2. \A b \in a + 1 .. Len(ss[i]) : \E q \in p + 1 .. Len(s) : s[q] = ss[i][b]
    <3> TAKE b \in a + 1 .. Len(ss[i])
    <3>1. b \in 1 .. Len(ss[i])
      BY <1>2
    <3>2. off[i] + b \in 1 .. Len(s) /\ s[off[i] + b] = ss[i][b]
      BY <1>4, <3>1
    <3>3. off[i] + b \in p + 1 .. Len(s)
      BY <1>2, <2>1, <3>2
    <3> QED BY <3>2, <3>3
  <2> QED BY <2>1, <2>2
<1>7. \A p, q \in 1 .. Len(s) : p < q =>
         \E i, j \in 1 .. Len(ss) :
            \E a \in 1 .. Len(ss[i]), b \in 1 .. Len(ss[j]) :
               s[p] = ss[i][a] /\ s[q] = ss[j][b] /\ (i < j \/ (i = j /\ a < b))
  <2> TAKE p, q \in 1 .. Len(s)
  <2> HAVE p < q
  <2>i. PICK i \in 1 .. Len(ss) : \E a \in 1 .. Len(ss[i]) : p = off[i] + a /\ s[p] = ss[i][a]
    BY <1>5
  <2>1. PICK a \in 1 .. Len(ss[i]) : p = off[i] + a /\ s[p] = ss[i][a]
    BY <2>i
  <2>j. PICK j \in 1 .. Len(ss) : \E b \in 1 .. Len(ss[j]) : q = off[j] + b /\ s[q] = ss[j][b]
    BY <1>5
  <2>2. PICK b \in 1 .. Len(ss[j]) : q = off[j] + b /\ s[q] = ss[j][b]
    BY <2>j
  <2>3. CASE j < i
    <3>1. off[j] + Len(ss[j]) <= off[i]
      BY <1>1, <2>3 DEF Parts
    <3>2. off[i] \in Nat /\ off[j] \in Nat /\ Len(ss[j]) \in Nat /\ a \in Nat /\ b \in Nat
          /\ a >= 1 /\ b <= Len(ss[j])
      BY <1>2
    <3>3. q < p
      <4>1. off[j] + b < off[i] + a
        BY <3>1, <3>2, PartBefore
      <4> QED BY <2>1, <2>2, <4>1
    <3> QED BY <1>3, <3>3
  <2>4. CASE i = j
    <3>1. a < b
      BY <1>2, <2>1, <2>2, <2>4
    <3> QED BY <2>1, <2>2, <2>4, <3>1
  <2>5. CASE i < j
    BY <2>1, <2>2, <2>5
  <2> QED BY <1>3, <2>3, <2>4, <2>5
<1> QED
  BY <1>1, <1>4, <1>6, <1>7 DEF IsFlat, s

\* What a filter keeps.
IsChosen(X, s, Y, c) ==
    /\ c \in Seq(X)
    /\ \A p \in 1 .. Len(c) : c[p] \in Y /\ \E i \in 1 .. Len(s) : c[p] = s[i]
    /\ \A i \in 1 .. Len(s) : s[i] \in Y => \E p \in 1 .. Len(c) : c[p] = s[i]
    /\ IsInjective(s) => \A p, q \in 1 .. Len(c) : p # q => c[p] # c[q]

\* The parts of what Chosen flattens: an element, or nothing.
Picks(s, Y) == [i \in 1 .. Len(s) |-> IF s[i] \in Y THEN <<s[i]>> ELSE <<>>]

\* A filter leaves the order as it is.
LEMMA ChosenOrder ==
    ASSUME NEW X, NEW s \in Seq(X), NEW Y, NEW c, c = Chosen(s, Y),
           NEW p \in 1 .. Len(c), NEW q \in 1 .. Len(c), p < q
    PROVE  \E i, j \in 1 .. Len(s) : i < j /\ c[p] = s[i] /\ c[q] = s[j]
<1> DEFINE ss == Picks(s, Y)
<1>1. ss \in Seq(Seq(X)) /\ Len(ss) = Len(s) /\ Len(s) \in Nat
  <2>1. \A i \in 1 .. Len(s) : s[i] \in X
    OBVIOUS
  <2>2. Len(s) \in Nat
    OBVIOUS
  <2> QED BY <2>1, <2>2 DEF Picks
<1>2. c = FlattenSeq(ss)
  BY DEF Chosen, Each, Picks
<1>3. \A i \in 1 .. Len(ss) : \A a \in 1 .. Len(ss[i]) : a = 1 /\ ss[i][a] = s[i]
  BY <1>1 DEF Picks
<1> HIDE DEF ss
<1>4. IsFlat(X, ss, c)
  <2>1. IsFlat(X, ss, FlattenSeq(ss))
    BY ONLY <1>1, FlatElements
  <2> QED BY <1>2, <2>1
<1>5. PICK i \in 1 .. Len(ss), j \in 1 .. Len(ss) :
         \E a \in 1 .. Len(ss[i]), b \in 1 .. Len(ss[j]) :
            c[p] = ss[i][a] /\ c[q] = ss[j][b] /\ (i < j \/ (i = j /\ a < b))
  BY <1>4 DEF IsFlat
<1>6. PICK a \in 1 .. Len(ss[i]), b \in 1 .. Len(ss[j]) :
            c[p] = ss[i][a] /\ c[q] = ss[j][b] /\ (i < j \/ (i = j /\ a < b))
  BY <1>5
<1>7. a = 1 /\ ss[i][a] = s[i] /\ b = 1 /\ ss[j][b] = s[j]
  BY <1>3
<1>8. c[p] = s[i] /\ c[q] = s[j] /\ i < j
  BY <1>6, <1>7
<1> QED BY <1>1, <1>8

\* A filter keeps what is chosen, in its order.
LEMMA ChosenFacts ==
    ASSUME NEW X, NEW s \in Seq(X), NEW Y, NEW c, c = Chosen(s, Y)
    PROVE  IsChosen(X, s, Y, c)
<1> DEFINE ss == Picks(s, Y)
<1>1. ss \in Seq(Seq(X)) /\ Len(ss) = Len(s) /\ Len(s) \in Nat
  <2>1. \A i \in 1 .. Len(s) : s[i] \in X
    OBVIOUS
  <2>2. Len(s) \in Nat
    OBVIOUS
  <2> QED BY <2>1, <2>2 DEF Picks
<1>2. c = FlattenSeq(ss)
  BY DEF Chosen, Each, Picks
<1>3. \A i \in 1 .. Len(ss) : \A a \in 1 .. Len(ss[i]) :
         a = 1 /\ s[i] \in Y /\ ss[i][a] = s[i]
  BY <1>1 DEF Picks
<1>4. \A i \in 1 .. Len(ss) : s[i] \in Y => 1 \in 1 .. Len(ss[i]) /\ ss[i][1] = s[i]
  BY <1>1 DEF Picks
<1> HIDE DEF ss
<1>5. IsFlat(X, ss, c)
  <2>1. IsFlat(X, ss, FlattenSeq(ss))
    BY ONLY <1>1, FlatElements
  <2> QED BY <1>2, <2>1
<1>6. c \in Seq(X)
  BY <1>5 DEF IsFlat
<1>7. \A p \in 1 .. Len(c) : c[p] \in Y /\ \E i \in 1 .. Len(s) : c[p] = s[i]
  <2> TAKE p \in 1 .. Len(c)
  <2>1. PICK i \in 1 .. Len(ss) : \E a \in 1 .. Len(ss[i]) : c[p] = ss[i][a]
    BY <1>5 DEF IsFlat
  <2>2. PICK a \in 1 .. Len(ss[i]) : c[p] = ss[i][a]
    BY <2>1
  <2>3. c[p] = s[i] /\ s[i] \in Y /\ i \in 1 .. Len(s)
    BY <1>1, <1>3, <2>2
  <2> QED BY <2>3
<1>8. \A i \in 1 .. Len(s) : s[i] \in Y => \E p \in 1 .. Len(c) : c[p] = s[i]
  <2> TAKE i \in 1 .. Len(s)
  <2> HAVE s[i] \in Y
  <2>1. i \in 1 .. Len(ss) /\ 1 \in 1 .. Len(ss[i]) /\ ss[i][1] = s[i]
    BY <1>1, <1>4
  <2>2. \E p \in 1 .. Len(c) : c[p] = ss[i][1]
    BY <1>5, <2>1 DEF IsFlat
  <2> QED BY <2>1, <2>2
<1>9. ASSUME IsInjective(s), NEW p \in 1 .. Len(c), NEW q \in 1 .. Len(c), p < q
      PROVE  c[p] # c[q]
  <2>1. PICK i \in 1 .. Len(s), j \in 1 .. Len(s) : i < j /\ c[p] = s[i] /\ c[q] = s[j]
    BY <1>9, ChosenOrder
  <2>2. DOMAIN s = 1 .. Len(s) /\ i # j
    BY <1>1, <2>1
  <2> QED BY <1>9, <2>1, <2>2 DEF IsInjective
<1>10. \A p, q \in 1 .. Len(c) : p # q => p < q \/ q < p
  BY <1>6
<1> QED
  BY <1>6, <1>7, <1>8, <1>9, <1>10 DEF IsChosen

\* What is kept is of the kind asked for.
LEMMA ChosenKind ==
    ASSUME NEW X, NEW s \in Seq(X), NEW Y
    PROVE  Chosen(s, Y) \in Seq(Y)
<1> DEFINE c == Chosen(s, Y)
<1>1. IsChosen(X, s, Y, c)
  BY ChosenFacts
<1> HIDE DEF c
<1>2. c \in Seq(X) /\ \A p \in 1 .. Len(c) : c[p] \in Y
  BY <1>1 DEF IsChosen
<1> QED BY <1>2 DEF c
=============================================================================
