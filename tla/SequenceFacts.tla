----------------------------- MODULE SequenceFacts -----------------------------
(***************************************************************************)
(* Facts about the operators on sequences that the models use, which the   *)
(* theorems of the library do not state.                                   *)
(***************************************************************************)
EXTENDS SequencesExt, SequenceTheorems, WellFoundedInduction, TLAPS

\* A set of naturals has a smallest element.
LEMMA SmallestNat ==
  ASSUME NEW T \in SUBSET Nat, T # {}
  PROVE  \E x \in T : \A y \in T : x <= y
<1>0. DEFINE R == OpToRel(<, Nat)
<1>1. \E x \in T : \A y \in T : ~ (<<y, x>> \in R)
  <2>1. IsWellFoundedOn(R, Nat)
    BY NatLessThanWellFounded
  <2> HIDE DEF R
  <2>2. QED
    BY <2>1, WFMin
<1>2. \A x, y \in Nat : x < y => <<x, y>> \in R
  BY DEF OpToRel
<1> HIDE DEF R
<1>3. PICK x \in T : \A y \in T : ~ (<<y, x>> \in R)
  BY <1>1
<1>4. \A y \in T : ~ (y < x)
  BY <1>2, <1>3
<1>5. QED
  BY <1>4

\* RemoveFirst removes at a place of the element.
LEMMA FirstPlace ==
  ASSUME NEW S, NEW s \in Seq(S), NEW e, \E i \in 1..Len(s) : s[i] = e
  PROVE  \E k \in 1..Len(s) : s[k] = e /\ RemoveFirst(s, e) = RemoveAt(s, k)
<1> DEFINE I == {i \in 1..Len(s) : s[i] = e}
<1>1. I # {} /\ I \in SUBSET Nat
  OBVIOUS
<1>2. Min(I) \in I
  <2>1. \E x \in I : \A y \in I : x <= y
    BY <1>1, SmallestNat
  <2>2. QED
    BY <2>1 DEF Min
<1>3. RemoveFirst(s, e) = RemoveAt(s, Min(I))
  <2>1. SelectInSeq(s, LAMBDA v : v = e) = IF I # {} THEN Min(I) ELSE 0
    BY DEF SelectInSeq
  <2>2. QED
  BY <1>1, <2>1 DEF RemoveFirst
<1>4. QED
  BY <1>2, <1>3

\* What RemoveFirst leaves: every other element, and not this one if it was there once.
LEMMA Removal ==
  ASSUME NEW S, NEW s \in Seq(S), NEW e
  PROVE  LET t == RemoveFirst(s, e)
         IN  /\ t \in Seq(S)
             /\ ToSet(t) \subseteq ToSet(s)
             /\ \A x \in ToSet(s) : x # e => x \in ToSet(t)
             /\ IsInjective(s) => IsInjective(t) /\ e \notin ToSet(t)
<1> DEFINE t == RemoveFirst(s, e)
<1>1. CASE ~ \E i \in 1..Len(s) : s[i] = e
  BY <1>1 DEF RemoveFirst, ToSet
<1>2. CASE \E i \in 1..Len(s) : s[i] = e
  <2>1. PICK k \in 1..Len(s) : s[k] = e /\ t = SubSeq(s, 1, k-1) \o SubSeq(s, k+1, Len(s))
    BY <1>2, FirstPlace DEF RemoveAt
  <2> DEFINE a == SubSeq(s, 1, k-1)
             b == SubSeq(s, k+1, Len(s))
  <2>2. /\ Len(s) \in Nat
        /\ \A i \in 1..Len(s) : s[i] \in S
    OBVIOUS
  <2>3. /\ a \in Seq(S)
        /\ Len(a) = k-1
        /\ \A i \in 1..k-1 : a[i] = s[i]
    BY <2>2, SubSeqProperties
  <2>4. /\ b \in Seq(S)
        /\ Len(b) = Len(s) - k
        /\ \A i \in 1..(Len(s)-k) : b[i] = s[k+i]
    BY <2>2, SubSeqProperties
  <2>5. /\ t \in Seq(S)
        /\ Len(t) = Len(s) - 1
        /\ \A i \in 1..(Len(s)-1) : t[i] = IF i < k THEN s[i] ELSE s[i+1]
    <3>1. /\ a \o b \in Seq(S)
          /\ Len(a \o b) = Len(a) + Len(b)
          /\ \A i \in 1..(Len(a) + Len(b)) :
               (a \o b)[i] = IF i <= Len(a) THEN a[i] ELSE b[i - Len(a)]
      BY <2>3, <2>4, ConcatProperties
    <3>2. t = a \o b
      BY <2>1
    <3> HIDE DEF t, a, b
    <3>3. Len(t) = Len(s) - 1
      <4>1. Len(t) = Len(a) + Len(b)
        BY <3>1, <3>2
      <4>2. Len(a) = k-1 /\ Len(b) = Len(s) - k /\ k \in Nat
        BY <2>3, <2>4
      <4>3. QED
        BY <4>1, <4>2, <2>2
    <3>4. ASSUME NEW i \in 1..(Len(s)-1)
          PROVE  t[i] = IF i < k THEN s[i] ELSE s[i+1]
      <4>1. CASE i < k
        BY <4>1, <3>1, <3>2, <2>2, <2>3, <2>4
      <4>2. CASE ~(i < k)
        <5>1. t[i] = b[i - (k-1)]
          BY <4>2, <3>1, <3>2, <2>2, <2>3, <2>4
        <5>2. i - (k-1) \in 1..(Len(s)-k) /\ k + (i - (k-1)) = i + 1
          BY <4>2, <2>2
        <5>3. QED
          BY <4>2, <5>1, <5>2, <2>4
      <4>3. QED
        BY <4>1, <4>2
    <3>5. QED
      BY <3>1, <3>2, <3>3, <3>4
  <2> HIDE DEF t
  <2>6. ToSet(t) \subseteq ToSet(s)
    BY <2>2, <2>5 DEF ToSet
  <2>7. ASSUME NEW i \in 1..Len(s), i # k
        PROVE  s[i] \in ToSet(t)
    <3>1. CASE i < k
      <4>1. i \in 1..(Len(s)-1) /\ t[i] = s[i]
        BY <2>2, <2>5, <3>1
      <4>2. QED
        BY <4>1, <2>5 DEF ToSet
    <3>2. CASE i > k
      <4>1. i-1 \in 1..(Len(s)-1) /\ t[i-1] = s[i]
        BY <2>2, <2>5, <3>2
      <4>2. QED
        BY <4>1, <2>5 DEF ToSet
    <3>3. QED
      BY <2>7, <3>1, <3>2, <2>2
  <2>8. \A x \in ToSet(s) : x # e => x \in ToSet(t)
    <3>1. \A x \in ToSet(s) : \E i \in 1..Len(s) : x = s[i]
      BY <2>2 DEF ToSet
    <3>2. QED
      BY <2>1, <2>7, <3>1
  <2>9. ASSUME IsInjective(s)
        PROVE  IsInjective(t) /\ e \notin ToSet(t)
    <3>1. \A i, j \in 1..Len(s) : s[i] = s[j] => i = j
      BY <2>9, <2>2 DEF IsInjective
    <3>2. IsInjective(t)
      BY <3>1, <2>2, <2>5 DEF IsInjective
    <3>3. e \notin ToSet(t)
      <4>0. /\ s[k] = e
            /\ \A i \in 1..(Len(s)-1) : t[i] = IF i < k THEN s[i] ELSE s[i+1]
        BY <2>1, <2>5
      <4>1. ASSUME NEW i \in 1..(Len(s)-1), t[i] = e
            PROVE  FALSE
        <5>1. CASE i < k
          <6>1. i \in 1..Len(s) /\ s[i] = s[k]
            BY <4>1, <5>1, <4>0, <2>2
          <6>2. QED
            BY <6>1, <5>1, <3>1
        <5>2. CASE ~(i < k)
          <6>1. i+1 \in 1..Len(s) /\ s[i+1] = s[k]
            BY <4>1, <5>2, <4>0, <2>2
          <6>2. QED
            BY <6>1, <5>2, <3>1
        <5>3. QED
          BY <5>1, <5>2
      <4>2. QED
        BY <4>1, <2>5 DEF ToSet
    <3>4. QED
      BY <3>2, <3>3
  <2>10. QED
    BY <2>5, <2>6, <2>8, <2>9 DEF t
<1>3. QED
  BY <1>1, <1>2

\* An empty sequence holds nothing.
LEMMA EmptyToSet == ToSet(<<>>) = {}
BY DEF ToSet

\* Set.add on the sequence of its elements.
LEMMA Addition ==
  ASSUME NEW S, NEW s \in Seq(S), NEW e \in S
  PROVE  LET t == IF Contains(s, e) THEN s ELSE Append(s, e)
         IN  /\ t \in Seq(S)
             /\ ToSet(t) = ToSet(s) \cup {e}
             /\ IsInjective(s) => IsInjective(t)
<1>1. CASE Contains(s, e)
  BY <1>1 DEF Contains, ToSet
<1>2. CASE ~Contains(s, e)
  <2> DEFINE t == Append(s, e)
  <2>1. /\ t \in Seq(S)
        /\ Len(s) \in Nat
        /\ DOMAIN t = 1..(Len(s) + 1)
        /\ DOMAIN s = 1..Len(s)
        /\ \A i \in 1..Len(s) : t[i] = s[i] /\ s[i] # e
        /\ t[Len(s) + 1] = e
    BY <1>2 DEF Contains
  <2> HIDE DEF t
  <2>2. ToSet(t) = ToSet(s) \cup {e}
    <3>1. 1..(Len(s) + 1) = 1..Len(s) \cup {Len(s) + 1}
      BY <2>1
    <3>2. QED
      BY <2>1, <3>1 DEF ToSet
  <2>3. IsInjective(s) => IsInjective(t)
    BY <2>1 DEF IsInjective
  <2>4. QED
    BY <1>2, <2>1, <2>2, <2>3 DEF t
<1>3. QED
  BY <1>1, <1>2

\* A sequence that is not empty is its head and its tail.
LEMMA HeadAndTail ==
  ASSUME NEW S, NEW s \in Seq(S), s # <<>>
  PROVE  /\ Tail(s) \in Seq(S)
         /\ Head(s) \in S
         /\ ToSet(s) = {Head(s)} \cup ToSet(Tail(s))
<1>1. /\ Len(s) \in Nat \ {0}
      /\ Tail(s) \in Seq(S)
      /\ Head(s) = s[1]
      /\ s[1] \in S
      /\ DOMAIN s = 1..Len(s)
      /\ DOMAIN Tail(s) = 1..(Len(s) - 1)
      /\ \A i \in 1..(Len(s) - 1) : Tail(s)[i] = s[i + 1]
  OBVIOUS
<1>2. \A i \in 1..Len(s) : i = 1 \/ (i - 1 \in 1..(Len(s) - 1) /\ (i - 1) + 1 = i)
  BY <1>1
<1>3. ASSUME NEW i \in 1..Len(s)
      PROVE  s[i] = Head(s) \/ s[i] \in ToSet(Tail(s))
  <2>1. i # 1 => s[i] = Tail(s)[i - 1]
    BY <1>1, <1>2
  <2>2. i # 1 => i - 1 \in DOMAIN Tail(s)
    BY <1>1, <1>2
  <2>3. QED
    BY <1>1, <2>1, <2>2 DEF ToSet
<1>4. Head(s) \in ToSet(s)
  BY <1>1 DEF ToSet
<1>5. \A x \in ToSet(Tail(s)) : x \in ToSet(s)
  BY <1>1 DEF ToSet
<1>6. \A x \in ToSet(s) : x = Head(s) \/ x \in ToSet(Tail(s))
  BY <1>1, <1>3 DEF ToSet
<1>7. QED
  BY <1>1, <1>4, <1>5, <1>6

\* A sequence without its last element.
LEMMA WithoutLast ==
  ASSUME NEW S, NEW s \in Seq(S), s # <<>>
  PROVE  LET t == SubSeq(s, 1, Len(s) - 1)
         IN  /\ t \in Seq(S)
             /\ Len(t) = Len(s) - 1
             /\ \A i \in 1..(Len(s) - 1) : t[i] = s[i]
<1>1. /\ Len(s) \in Nat \ {0}
      /\ \A i \in 1..Len(s) : s[i] \in S
  OBVIOUS
<1> DEFINE t == SubSeq(s, 1, Len(s) - 1)
<1>2. Len(s) - 1 \in Nat /\ (Len(s) - 1 <= Len(s))
  BY <1>1
<1>3. t = [i \in 1..(Len(s) - 1) |-> s[i]]
  BY <1>1, <1>2
<1> HIDE DEF t
<1>4. t \in [1..(Len(s) - 1) -> S]
  BY <1>1, <1>3
<1>5. t \in Seq(S)
  BY <1>2, <1>4
<1>6. Len(t) = Len(s) - 1
  BY <1>2, <1>3
<1>7. QED
  BY <1>3, <1>5, <1>6 DEF t
\* Append adds one element.
LEMMA Appended ==
  ASSUME NEW S, NEW s \in Seq(S), NEW e \in S
  PROVE  ToSet(Append(s, e)) = ToSet(s) \cup {e}
<1> DEFINE t == Append(s, e)
<1>1. /\ Len(s) \in Nat /\ DOMAIN s = 1..Len(s)
      /\ DOMAIN t = 1..(Len(s) + 1)
      /\ \A i \in 1..Len(s) : t[i] = s[i]
      /\ t[Len(s) + 1] = e
  OBVIOUS
<1> HIDE DEF t
<1>2. ToSet(t) = ToSet(s) \cup {e}
  BY <1>1 DEF ToSet
<1>3. QED
  BY <1>2 DEF t

\* Concatenation, and its elements.
LEMMA Concatenated ==
  ASSUME NEW S, NEW s \in Seq(S), NEW t \in Seq(S)
  PROVE  /\ s \o t \in Seq(S)
         /\ ToSet(s \o t) = ToSet(s) \cup ToSet(t)
<1>1. /\ Len(s) \in Nat /\ Len(t) \in Nat
      /\ DOMAIN s = 1..Len(s) /\ DOMAIN t = 1..Len(t)
      /\ s \o t \in Seq(S)
      /\ DOMAIN (s \o t) = 1..(Len(s) + Len(t))
      /\ \A i \in 1..Len(s) : (s \o t)[i] = s[i]
      /\ \A i \in (Len(s) + 1)..(Len(s) + Len(t)) : (s \o t)[i] = t[i - Len(s)]
  OBVIOUS
<1>2. \A j \in 1..Len(t) : /\ Len(s) + j \in (Len(s) + 1)..(Len(s) + Len(t))
                           /\ (s \o t)[Len(s) + j] = t[j]
  <2> TAKE j \in 1..Len(t)
  <2>1. Len(s) + j \in (Len(s) + 1)..(Len(s) + Len(t)) /\ Len(s) + j - Len(s) = j
    BY <1>1
  <2>2. QED
    BY <1>1, <2>1
<1> DEFINE r == s \o t
<1> HIDE DEF r
<1>3. ASSUME NEW x \in ToSet(r)
      PROVE  x \in ToSet(s) \cup ToSet(t)
  <2>1. PICK i \in 1..(Len(s) + Len(t)) : x = r[i]
    BY <1>1 DEF ToSet, r
  <2>2. CASE i \in 1..Len(s)
    BY <1>1, <2>1, <2>2 DEF ToSet, r
  <2>3. CASE i \notin 1..Len(s)
    <3>1. i - Len(s) \in 1..Len(t) /\ i \in (Len(s) + 1)..(Len(s) + Len(t))
      BY <1>1, <2>3
    <3>2. x = t[i - Len(s)]
      BY <1>1, <2>1, <3>1 DEF r
    <3>3. QED
      BY <1>1, <3>1, <3>2 DEF ToSet
  <2>4. QED
    BY <2>2, <2>3
<1>4. ToSet(s) \subseteq ToSet(r)
  BY <1>1 DEF ToSet, r
<1>5. ToSet(t) \subseteq ToSet(r)
  <2>1. \A j \in 1..Len(t) : Len(s) + j \in DOMAIN r /\ r[Len(s) + j] = t[j]
    BY <1>1, <1>2 DEF r
  <2>2. QED
    BY <1>1, <2>1 DEF ToSet
<1>6. ToSet(r) = ToSet(s) \cup ToSet(t)
  BY <1>3, <1>4, <1>5
<1>7. QED
  BY <1>1, <1>6 DEF r

\* The prefixes that FlattenSeq accumulates exist.
LEMMA FlattenExists ==
  ASSUME NEW ss, NEW n \in Nat \ {0}
  PROVE  \E f : f = [i \in 1..n |-> IF i = 1 THEN ss[i] ELSE f[i - 1] \o ss[i]]
<1> DEFINE G(m, f) == f = [i \in 1..m |-> IF i = 1 THEN ss[i] ELSE f[i - 1] \o ss[i]]
           T == {m \in Nat \ {0} : ~ \E f : G(m, f)}
<1>1. SUFFICES ASSUME T # {}
               PROVE  FALSE
  OBVIOUS
<1>2. PICK m \in T : \A y \in T : m <= y
  <2>1. T \in SUBSET Nat
    OBVIOUS
  <2> HIDE DEF T
  <2>2. QED
    BY <1>1, <2>1, SmallestNat
<1>3. m \in Nat \ {0} /\ ~ \E f : G(m, f)
  OBVIOUS
<1>4. CASE m = 1
  <2>1. G(1, [i \in 1..1 |-> ss[1]])
    OBVIOUS
  <2>2. QED
    BY <1>3, <1>4, <2>1
<1>5. CASE m # 1
  <2>1. m - 1 \in Nat \ {0} /\ m - 1 \notin T
    <3>1. m - 1 \in Nat \ {0} /\ ~ (m <= m - 1)
      BY <1>3, <1>5
    <3> HIDE DEF T
    <3>2. QED
      BY <1>2, <3>1
  <2>2. PICK g : G(m - 1, g)
    BY <2>1
  <2> DEFINE h == [i \in 1..m |-> IF i = m THEN g[m - 1] \o ss[m] ELSE g[i]]
  <2>3. \A i \in 1..m : h[i] = IF i = 1 THEN ss[i] ELSE h[i - 1] \o ss[i]
    <3> TAKE i \in 1..m
    <3>1. CASE i = m
      <4>1. m - 1 \in 1..m /\ m - 1 # m
        BY <1>3, <1>5
      <4>2. h[m - 1] = g[m - 1]
        BY <4>1
      <4>3. QED
        BY <1>3, <1>5, <3>1, <4>2
    <3>2. CASE i # m
      <4>1. i \in 1..(m - 1)
        BY <1>3, <3>2
      <4>2. g[i] = IF i = 1 THEN ss[i] ELSE g[i - 1] \o ss[i]
        BY <2>2, <4>1
      <4>3. i # 1 => i - 1 \in 1..m /\ i - 1 # m
        BY <1>3, <4>1
      <4>4. i # 1 => h[i - 1] = g[i - 1]
        BY <4>3
      <4>5. QED
        BY <3>2, <4>2, <4>4
    <3>3. QED
      BY <3>1, <3>2
  <2>4. G(m, h)
    <3>1. h = [i \in 1..m |-> h[i]]
      OBVIOUS
    <3> HIDE DEF h
    <3>2. QED
      BY <2>3, <3>1
  <2>5. QED
    BY <1>3, <2>4
<1>6. QED
  BY <1>4, <1>5

\* FlattenSeq keeps exactly the elements of its sequences.
LEMMA Flattened ==
  ASSUME NEW S, NEW ss \in Seq(Seq(S))
  PROVE  /\ FlattenSeq(ss) \in Seq(S)
         /\ ToSet(FlattenSeq(ss)) = UNION {ToSet(ss[i]) : i \in DOMAIN ss}
<1>1. Len(ss) \in Nat /\ DOMAIN ss = 1..Len(ss) /\ \A i \in 1..Len(ss) : ss[i] \in Seq(S)
  OBVIOUS
<1>2. CASE Len(ss) = 0
  <2>1. FlattenSeq(ss) = <<>> /\ DOMAIN ss = {}
    BY <1>1, <1>2 DEF FlattenSeq
  <2>2. QED
    BY <2>1, EmptyToSet
<1>3. CASE Len(ss) # 0
  <2> DEFINE n == Len(ss)
             G(f) == f = [i \in 1..n |-> IF i = 1 THEN ss[i] ELSE f[i - 1] \o ss[i]]
             Fine(s, i) == s \in Seq(S) /\ ToSet(s) = UNION {ToSet(ss[j]) : j \in 1..i}
  <2>1. n \in Nat \ {0}
    BY <1>1, <1>3
  <2>2. PICK f : G(f) /\ FlattenSeq(ss) = f[n]
    <3>1. G(CHOOSE f : G(f))
      BY <2>1, FlattenExists
    <3>2. FlattenSeq(ss) = (CHOOSE f : G(f))[n]
      BY <1>3, <2>1 DEF FlattenSeq
    <3>3. QED
      BY <3>1, <3>2
  <2>3. \A i \in 1..n : f[i] = IF i = 1 THEN ss[i] ELSE f[i - 1] \o ss[i]
    BY <2>2
  <2> DEFINE T == {i \in 1..n : ~ Fine(f[i], i)}
  <2>4. T = {}
    <3>1. SUFFICES ASSUME T # {}
                   PROVE  FALSE
      OBVIOUS
    <3>2. PICK i \in T : \A y \in T : i <= y
      <4>1. T \in SUBSET Nat
        OBVIOUS
      <4> HIDE DEF T
      <4>2. QED
        BY <3>1, <4>1, SmallestNat
    <3>3. i \in 1..n /\ ~ Fine(f[i], i)
      OBVIOUS
    <3>4. CASE i = 1
      <4>1. f[1] = ss[1] /\ ss[1] \in Seq(S)
        BY <1>1, <2>1, <2>3, <3>3, <3>4
      <4>2. UNION {ToSet(ss[j]) : j \in 1..1} = ToSet(ss[1])
        OBVIOUS
      <4>3. QED
        BY <3>3, <3>4, <4>1, <4>2
    <3>5. CASE i # 1
      <4>1. i - 1 \in 1..n /\ ~ (i <= i - 1)
        BY <2>1, <3>3, <3>5
      <4>2. Fine(f[i - 1], i - 1)
        BY <3>2, <4>1
      <4>3. f[i] = f[i - 1] \o ss[i] /\ ss[i] \in Seq(S)
        BY <1>1, <2>3, <3>3, <3>5
      <4>4. f[i] \in Seq(S) /\ ToSet(f[i]) = ToSet(f[i - 1]) \cup ToSet(ss[i])
        BY <4>2, <4>3, Concatenated
      <4>5. UNION {ToSet(ss[j]) : j \in 1..i} =
              (UNION {ToSet(ss[j]) : j \in 1..(i - 1)}) \cup ToSet(ss[i])
        <5>1. 1..i = (1..(i - 1)) \cup {i}
          BY <2>1, <3>3, <3>5
        <5>2. QED
          BY <5>1
      <4>6. QED
        BY <3>3, <4>2, <4>4, <4>5
    <3>6. QED
      BY <3>4, <3>5
  <2>5. Fine(f[n], n)
    <3>1. n \in 1..n
      BY <2>1
    <3>2. n \notin T
      BY <2>4
    <3> HIDE DEF n, Fine
    <3>3. QED
      BY <3>1, <3>2
  <2>6. QED
    BY <1>1, <2>2, <2>5
<1>4. QED
  BY <1>2, <1>3
===============================================================================
