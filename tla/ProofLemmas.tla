------------------------------ MODULE ProofLemmas ------------------------------
(***************************************************************************)
(* Facts about numbers and sequences that the proofs about several modules *)
(* need: the least-element principle, induction as the closure of a set of *)
(* naturals, and what the operators on sequences return.                   *)
(***************************************************************************)
EXTENDS Integers, SequencesExt, SequenceTheorems, FiniteSetTheorems,
        WellFoundedInduction, TLAPS

\* A set of naturals has a least element.
LEMMA LeastNatural ==
  ASSUME NEW S \in SUBSET Nat, S # {}
  PROVE  \E x \in S : \A y \in S : x <= y
  <1> DEFINE R == OpToRel(<, Nat)
  <1>1. IsWellFoundedOn(R, Nat)
    BY NatLessThanWellFounded
  <1>2. \A x, y \in Nat : y < x => <<y, x>> \in R
    BY DEF OpToRel
  <1> HIDE DEF R
  <1>3. PICK x \in S : \A y \in S : ~ (<<y, x>> \in R)
    BY <1>1, WFMin
  <1>4. \A y \in S : ~ (y < x)
    BY <1>2, <1>3
  <1>5. \A y \in S : x <= y
    BY <1>4
  <1> QED BY <1>5

\* A set of naturals with 0 that is closed under the successor has them all.
LEMMA AllNaturals ==
  ASSUME NEW S, 0 \in S, \A n \in Nat : n \in S => n + 1 \in S
  PROVE  \A n \in Nat : n \in S
  <1> DEFINE T == Nat \ S
  <1> SUFFICES ASSUME T # {} PROVE FALSE
    OBVIOUS
  <1>1. PICK x \in T : \A y \in T : x <= y
    <2> HIDE DEF T
    <2>1. T \in SUBSET Nat
      BY DEF T
    <2> QED BY <2>1, LeastNatural
  <1>2. x # 0 /\ x - 1 \in Nat /\ ~(x <= x - 1) /\ (x - 1) + 1 = x
    OBVIOUS
  <1>3. x - 1 \in S
    BY <1>1, <1>2
  <1> QED BY <1>2, <1>3

LEMMA RemoveAtProperties ==
  ASSUME NEW T, NEW s \in Seq(T), NEW i \in 1 .. Len(s)
  PROVE  /\ RemoveAt(s, i) \in Seq(T)
         /\ Len(RemoveAt(s, i)) = Len(s) - 1
         /\ \A j \in 1 .. Len(s) - 1 :
              RemoveAt(s, i)[j] = IF j < i THEN s[j] ELSE s[j + 1]
  <1> DEFINE front == SubSeq(s, 1, i - 1)
             back  == SubSeq(s, i + 1, Len(s))
  <1>1. /\ front \in Seq(T) /\ Len(front) = i - 1
        /\ \A j \in 1 .. i - 1 : front[j] = s[j]
    OBVIOUS
  <1>2. /\ back \in Seq(T) /\ Len(back) = Len(s) - i
        /\ \A j \in 1 .. Len(s) - i : back[j] = s[i + j]
    OBVIOUS
  <1> HIDE DEF front, back
  <1>3. /\ front \o back \in Seq(T)
        /\ Len(front \o back) = Len(front) + Len(back)
        /\ \A j \in 1 .. Len(front) + Len(back) :
             (front \o back)[j] = IF j <= Len(front) THEN front[j]
                                                     ELSE back[j - Len(front)]
    BY <1>1, <1>2, ConcatProperties
  <1>4. RemoveAt(s, i) = front \o back
    BY DEF RemoveAt, front, back
  <1>5. Len(front \o back) = Len(s) - 1
    BY <1>1, <1>2, <1>3
  <1>6. ASSUME NEW j \in 1 .. Len(s) - 1
        PROVE  (front \o back)[j] = IF j < i THEN s[j] ELSE s[j + 1]
    <2>1. CASE j < i
      BY <1>1, <1>2, <1>3, <2>1
    <2>2. CASE ~(j < i)
      <3>1. (front \o back)[j] = back[j - (i - 1)]
        BY <1>1, <1>2, <1>3, <2>2
      <3>2. j - (i - 1) \in 1 .. Len(s) - i /\ i + (j - (i - 1)) = j + 1
        BY <2>2
      <3> QED BY <1>2, <2>2, <3>1, <3>2
    <2> QED BY <2>1, <2>2
  <1> QED BY <1>3, <1>4, <1>5, <1>6

LEMMA InsertAtProperties ==
  ASSUME NEW T, NEW s \in Seq(T), NEW i \in 1 .. Len(s) + 1, NEW e \in T
  PROVE  /\ InsertAt(s, i, e) \in Seq(T)
         /\ Len(InsertAt(s, i, e)) = Len(s) + 1
         /\ \A j \in 1 .. Len(s) + 1 :
              InsertAt(s, i, e)[j] = IF j < i THEN s[j] ELSE IF j = i THEN e ELSE s[j - 1]
  <1> DEFINE front == SubSeq(s, 1, i - 1)
             mid   == <<e>>
             back  == SubSeq(s, i, Len(s))
  <1>1. /\ front \in Seq(T) /\ Len(front) = i - 1
        /\ \A j \in 1 .. i - 1 : front[j] = s[j]
    OBVIOUS
  <1>2. /\ back \in Seq(T) /\ Len(back) = Len(s) - i + 1
        /\ \A j \in 1 .. Len(s) - i + 1 : back[j] = s[i - 1 + j]
    OBVIOUS
  <1>3. mid \in Seq(T) /\ Len(mid) = 1 /\ mid[1] = e
    OBVIOUS
  <1> HIDE DEF front, back, mid
  <1>4. InsertAt(s, i, e) = (front \o mid) \o back
    BY DEF InsertAt, front, back, mid
  <1>5. /\ front \o mid \in Seq(T) /\ Len(front \o mid) = i
        /\ \A j \in 1 .. i : (front \o mid)[j] = IF j < i THEN s[j] ELSE e
    <2>1. /\ front \o mid \in Seq(T) /\ Len(front \o mid) = Len(front) + Len(mid)
          /\ \A j \in 1 .. Len(front) + Len(mid) :
               (front \o mid)[j] = IF j <= Len(front) THEN front[j] ELSE mid[j - Len(front)]
      BY <1>1, <1>3, ConcatProperties
    <2>2. ASSUME NEW j \in 1 .. i PROVE (front \o mid)[j] = IF j < i THEN s[j] ELSE e
      <3>1. CASE j < i
        <4>1. j \in 1 .. Len(front) + Len(mid) /\ j <= Len(front) /\ j \in 1 .. i - 1
          BY <1>1, <1>3, <3>1
        <4> QED BY <1>1, <2>1, <3>1, <4>1
      <3>2. CASE j = i
        <4>1. j \in 1 .. Len(front) + Len(mid) /\ ~(j <= Len(front)) /\ j - Len(front) = 1
          BY <1>1, <1>3, <3>2
        <4> QED BY <1>3, <2>1, <3>2, <4>1
      <3>3. j < i \/ j = i
        OBVIOUS
      <3> QED BY <3>1, <3>2, <3>3
    <2> QED BY <1>1, <1>3, <2>1, <2>2
  <1> DEFINE fm == front \o mid
  <1> HIDE DEF fm
  <1>6. /\ fm \o back \in Seq(T) /\ Len(fm \o back) = Len(fm) + Len(back)
        /\ \A j \in 1 .. Len(fm) + Len(back) :
             (fm \o back)[j] = IF j <= Len(fm) THEN fm[j] ELSE back[j - Len(fm)]
    BY <1>2, <1>5, ConcatProperties DEF fm
  <1>7. ASSUME NEW j \in 1 .. Len(s) + 1
        PROVE  (fm \o back)[j] = IF j < i THEN s[j] ELSE IF j = i THEN e ELSE s[j - 1]
    <2>1. CASE j <= i
      BY <1>2, <1>5, <1>6, <2>1 DEF fm
    <2>2. CASE ~(j <= i)
      <3>1. (fm \o back)[j] = back[j - i]
        BY <1>2, <1>5, <1>6, <2>2 DEF fm
      <3>2. j - i \in 1 .. Len(s) - i + 1 /\ i - 1 + (j - i) = j - 1
        BY <2>2
      <3> QED BY <1>2, <2>2, <3>1, <3>2
    <2> QED BY <2>1, <2>2
  <1>8. Len(fm \o back) = Len(s) + 1
    BY <1>2, <1>5, <1>6 DEF fm
  <1> QED BY <1>4, <1>6, <1>7, <1>8 DEF fm

\* The places of a sequence are as many as it is long.
LEMMA PlacesCount ==
  ASSUME NEW n \in Nat
  PROVE  IsFiniteSet(1 .. n) /\ Cardinality(1 .. n) = n
  <1>1. n \in Int /\ 1 \in Int
    OBVIOUS
  <1>2. /\ IsFiniteSet(1 .. n)
        /\ Cardinality(1 .. n) = IF 1 > n THEN 0 ELSE n - 1 + 1
    BY <1>1, FS_Interval
  <1>3. (IF 1 > n THEN 0 ELSE n - 1 + 1) = n
    OBVIOUS
  <1> QED BY <1>2, <1>3

\* A function on the places of a sequence is a sequence of the same length.
LEMMA PlaceByPlace ==
  ASSUME NEW S, NEW T, NEW s \in Seq(S), NEW f \in [DOMAIN s -> T]
  PROVE  f \in Seq(T) /\ Len(f) = Len(s) /\ DOMAIN f = DOMAIN s
  <1>1. DOMAIN s = 1 .. Len(s) /\ Len(s) \in Nat
    OBVIOUS
  <1> QED BY <1>1

LEMMA MinProperties ==
  ASSUME NEW S \in SUBSET Nat, S # {}
  PROVE  Min(S) \in S /\ \A n \in S : Min(S) <= n
  <1>1. \E m \in S : \A n \in S : m <= n
    BY LeastNatural
  <1> QED BY <1>1 DEF Min

\* A set is as large as the places of a sequence that holds each of its
\* members once.
LEMMA DistinctCount ==
  ASSUME NEW n \in Nat, NEW f, NEW S,
         \A i, j \in 1 .. n : f[i] = f[j] => i = j,
         \A i \in 1 .. n : f[i] \in S,
         \A x \in S : \E i \in 1 .. n : f[i] = x
  PROVE  IsFiniteSet(S) /\ Cardinality(S) = n
  <1> DEFINE g == [i \in 1 .. n |-> f[i]]
  <1>1. g \in Surjection(1 .. n, S)
    BY DEF Surjection
  <1>2. g \in Injection(1 .. n, S)
    BY DEF Injection, IsInjective
  <1>3. IsFiniteSet(1 .. n) /\ Cardinality(1 .. n) = n
    BY PlacesCount
  <1> HIDE DEF g
  <1>4. IsFiniteSet(S) /\ Cardinality(S) = Cardinality(1 .. n)
    BY <1>1, <1>2, <1>3, FS_Surjection
  <1> QED BY <1>3, <1>4
=============================================================================
