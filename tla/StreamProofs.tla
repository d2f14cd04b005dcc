----------------------------- MODULE StreamProofs -----------------------------
(***************************************************************************)
(* Proofs about Codec and Stream, for any contents, configurations, record *)
(* size and ttl, and any number of messages.                               *)
(***************************************************************************)
EXTENDS Stream, ProofLemmas

-----------------------------------------------------------------------------
(* Sequences of fields, of chunks and of buffers, over no particular set.  *)

Sq(s) == s \in Seq(Range(s))

LEMMA SqOf ==
  ASSUME NEW S, NEW s \in Seq(S)
  PROVE  Sq(s)
  <1>1. s \in [1 .. Len(s) -> S] /\ Len(s) \in Nat /\ DOMAIN s = 1 .. Len(s)
    OBVIOUS
  <1>2. \A i \in 1 .. Len(s) : s[i] \in Range(s)
    BY <1>1 DEF Range
  <1>3. s = [i \in 1 .. Len(s) |-> s[i]]
    BY <1>1
  <1>4. s \in [1 .. Len(s) -> Range(s)]
    BY <1>2, <1>3
  <1> QED BY <1>1, <1>4 DEF Sq

LEMMA SqProperties ==
  ASSUME NEW s, Sq(s)
  PROVE  /\ Len(s) \in Nat /\ DOMAIN s = 1 .. Len(s)
         /\ \A i \in 1 .. Len(s) : s[i] \in Range(s)
  BY DEF Sq

\* A function on places is a sequence.
LEMMA SqFunction ==
  ASSUME NEW n \in Nat, NEW f, f = [i \in 1 .. n |-> f[i]]
  PROVE  Sq(f) /\ Len(f) = n
  <1>1. f \in [1 .. n -> Range(f)]
    BY DEF Range
  <1>2. f \in Seq(Range(f)) /\ Len(f) = n
    BY <1>1
  <1> QED BY <1>2 DEF Sq

LEMMA Joined ==
  ASSUME NEW s, NEW t, Sq(s), Sq(t)
  PROVE  /\ Sq(s \o t) /\ Len(s \o t) = Len(s) + Len(t)
         /\ \A i \in 1 .. Len(s) : (s \o t)[i] = s[i]
         /\ \A i \in 1 .. Len(t) : (s \o t)[Len(s) + i] = t[i]
  <1> DEFINE S == Range(s) \cup Range(t)
  <1>1. s \in Seq(S) /\ t \in Seq(S)
    BY DEF Sq
  <1> HIDE DEF S
  <1>2. /\ s \o t \in Seq(S)
        /\ Len(s \o t) = Len(s) + Len(t)
        /\ \A i \in 1 .. Len(s) + Len(t) : (s \o t)[i] = IF i <= Len(s) THEN s[i] ELSE t[i - Len(s)]
    BY <1>1, ConcatProperties
  <1>3. Len(s) \in Nat /\ Len(t) \in Nat
    BY <1>1
  <1>4. Sq(s \o t)
    BY <1>2, SqOf
  <1> DEFINE u == s \o t
             m == Len(s)
             n == Len(t)
  <1> HIDE DEF u, m, n
  <1>5. \A i \in 1 .. m + n : u[i] = IF i <= m THEN s[i] ELSE t[i - m]
    BY <1>2 DEF u, m, n
  <1>6. m \in Nat /\ n \in Nat
    BY <1>3 DEF m, n
  <1>7. \A i \in 1 .. m : u[i] = s[i]
    BY <1>5, <1>6
  <1>8. \A i \in 1 .. n : u[m + i] = t[i]
    <2> TAKE i \in 1 .. n
    <2>1. m + i \in 1 .. m + n /\ ~(m + i <= m) /\ (m + i) - m = i
      BY <1>6
    <2> QED BY <1>5, <2>1
  <1> QED BY <1>2, <1>4, <1>7, <1>8 DEF u, m, n

\* A part of a sequence.
LEMMA Window ==
  ASSUME NEW s, Sq(s), NEW m \in 1 .. Len(s) + 1, NEW n \in m - 1 .. Len(s)
  PROVE  /\ Sq(SubSeq(s, m, n)) /\ Len(SubSeq(s, m, n)) = n - m + 1
         /\ \A i \in 1 .. n - m + 1 : SubSeq(s, m, n)[i] = s[m + i - 1]
  <1>1. Len(s) \in Nat /\ \A i \in 1 .. Len(s) : s[i] \in Range(s)
    BY SqProperties
  <1> DEFINE len == Len(s)
  <1> HIDE DEF len
  <1>2. m \in Int /\ n \in Int /\ \A i \in m .. n : i \in 1 .. len
    BY <1>1 DEF len
  <1>3. \A i \in m .. n : s[i] \in Range(s)
    BY <1>1, <1>2 DEF len
  <1>4. /\ SubSeq(s, m, n) \in Seq(Range(s))
        /\ Len(SubSeq(s, m, n)) = IF m <= n THEN n - m + 1 ELSE 0
        /\ \A i \in 1 .. n - m + 1 : SubSeq(s, m, n)[i] = s[m + i - 1]
    BY <1>2, <1>3, SubSeqProperties
  <1>5. (IF m <= n THEN n - m + 1 ELSE 0) = n - m + 1
    BY <1>1 DEF len
  <1> QED BY <1>4, <1>5, SqOf

\* The first m sequences of W stand one behind the other in F, each behind
\* its start, and make up all of F.
Laid(F, W, start, m) ==
  /\ start \in [1 .. m + 1 -> Nat] /\ Sq(F) /\ Len(F) = start[m + 1]
  /\ start[1] = 0 /\ \A i \in 1 .. m : start[i + 1] = start[i] + Len(W[i])
  /\ \A i \in 1 .. m, j \in 1 .. m + 1 : i < j => start[i] + Len(W[i]) <= start[j]
  /\ \A i \in 1 .. m : \A o \in 1 .. Len(W[i]) : F[start[i] + o] = W[i][o]
  /\ \A x \in 1 .. Len(F) : \E i \in 1 .. m : \E o \in 1 .. Len(W[i]) : x = start[i] + o

LEMMA OneMoreLaid ==
  ASSUME NEW W, NEW m \in Nat, NEW F, NEW start, Laid(F, W, start, m),
         \A i \in 1 .. m + 1 : Sq(W[i])
  PROVE  Laid(F \o W[m + 1], W,
              [i \in 1 .. m + 2 |-> IF i = m + 2 THEN Len(F) + Len(W[m + 1]) ELSE start[i]], m + 1)
  <1> DEFINE w == W[m + 1]
             G == F \o w
             lenF == Len(F)
             lenW == Len(w)
             len(i) == Len(W[i])
             next == [i \in 1 .. m + 2 |-> IF i = m + 2 THEN lenF + lenW ELSE start[i]]
  <1>1. /\ start \in [1 .. m + 1 -> Nat] /\ start[1] = 0
        /\ \A i \in 1 .. m : start[i + 1] = start[i] + len(i)
        /\ \A i \in 1 .. m, j \in 1 .. m + 1 : i < j => start[i] + len(i) <= start[j]
        /\ Sq(F) /\ lenF = start[m + 1]
    BY DEF Laid
  <1>2. /\ \A i \in 1 .. m : \A o \in 1 .. len(i) : F[start[i] + o] = W[i][o]
        /\ \A x \in 1 .. lenF : \E i \in 1 .. m : \E o \in 1 .. len(i) : x = start[i] + o
    BY DEF Laid
  <1>3. lenF \in Nat /\ lenW \in Nat /\ \A i \in 1 .. m + 1 : len(i) \in Nat
    BY <1>1, SqProperties
  <1>4. /\ Sq(G) /\ Len(G) = lenF + lenW
        /\ \A i \in 1 .. lenF : G[i] = F[i]
        /\ \A i \in 1 .. lenW : G[lenF + i] = w[i]
    <2>1. m + 1 \in 1 .. m + 1
      OBVIOUS
    <2>2. Sq(w) /\ Sq(F)
      BY <1>1, <2>1
    <2> HIDE DEF w
    <2> QED BY <2>2, Joined
  <1> HIDE DEF lenF, G
  <1>5. next \in [1 .. m + 2 -> Nat] /\ \A i \in 1 .. m + 1 : next[i] = start[i]
    BY <1>1, <1>3 DEF lenW
  <1>6. next[m + 2] = lenF + lenW /\ next[m + 1] = lenF
    BY <1>1, <1>5
  <1> HIDE DEF next, lenW
  <1>7. m + 1 + 1 = m + 2 /\ 1 \in 1 .. m + 1 /\ len(m + 1) = lenW
    BY DEF lenW
  <1> HIDE DEF len
  <1>8. ASSUME NEW i \in 1 .. m + 1
        PROVE  next[i + 1] = next[i] + len(i)
    <2>1. CASE i = m + 1
      BY <1>6, <1>7, <2>1
    <2>2. CASE i # m + 1
      <3>1. i \in 1 .. m /\ i + 1 \in 1 .. m + 1
        BY <2>2
      <3> QED BY <1>1, <1>5, <3>1
    <2> QED BY <2>1, <2>2
  <1>9. \A i \in 1 .. m : start[i] + len(i) <= lenF
    BY <1>1
  <1>10. ASSUME NEW i \in 1 .. m + 1, NEW j \in 1 .. m + 2, i < j
         PROVE  next[i] + len(i) <= next[j]
    <2>1. CASE i = m + 1
      <3>1. j = m + 2
        BY <1>10, <2>1
      <3> QED BY <1>3, <1>6, <1>7, <2>1, <3>1
    <2>2. CASE i # m + 1 /\ j = m + 2
      <3>1. i \in 1 .. m
        BY <2>2
      <3>2. next[i] = start[i] /\ start[i] \in Nat
        BY <1>1, <1>5
      <3>3. start[i] + len(i) <= lenF /\ next[j] = lenF + lenW
        BY <1>6, <1>9, <2>2, <3>1
      <3> QED BY <1>3, <3>2, <3>3
    <2>3. CASE i # m + 1 /\ j # m + 2
      <3>1. i \in 1 .. m /\ j \in 1 .. m + 1
        BY <2>3
      <3> QED BY <1>1, <1>5, <1>10, <3>1
    <2> QED BY <2>1, <2>2, <2>3
  <1>11. ASSUME NEW i \in 1 .. m + 1, NEW o \in 1 .. len(i)
         PROVE  G[next[i] + o] = W[i][o]
    <2>1. CASE i = m + 1
      BY <1>4, <1>6, <1>7, <2>1
    <2>2. CASE i # m + 1
      <3>1. i \in 1 .. m /\ next[i] = start[i] /\ start[i] \in Nat /\ len(i) \in Nat
        BY <1>1, <1>3, <1>5, <2>2
      <3>2. start[i] + o \in 1 .. lenF
        BY <1>3, <1>9, <3>1
      <3> QED BY <1>2, <1>4, <3>1, <3>2
    <2> QED BY <2>1, <2>2
  <1>12. ASSUME NEW x \in 1 .. lenF + lenW
         PROVE  \E i \in 1 .. m + 1 : \E o \in 1 .. len(i) : x = next[i] + o
    <2>1. CASE x <= lenF
      <3>1. x \in 1 .. lenF
        BY <1>3, <2>1
      <3>2. PICK i \in 1 .. m : \E o \in 1 .. len(i) : x = start[i] + o
        BY <1>2, <3>1
      <3>3. i \in 1 .. m + 1 /\ next[i] = start[i]
        BY <1>5
      <3> QED BY <3>2, <3>3
    <2>2. CASE ~(x <= lenF)
      <3>1. x - lenF \in 1 .. lenW /\ x = lenF + (x - lenF)
        BY <1>3, <2>2
      <3>2. m + 1 \in 1 .. m + 1
        OBVIOUS
      <3> QED BY <1>6, <1>7, <3>1, <3>2
    <2> QED BY <2>1, <2>2
  <1>13. next[1] = 0
    BY <1>1, <1>5, <1>7
  <1>14. Laid(G, W, next, m + 1)
    BY <1>4, <1>5, <1>6, <1>7, <1>8, <1>10, <1>11, <1>12, <1>13 DEF Laid, len
  <1> QED BY <1>14 DEF G, next, lenF, lenW

\* FlattenSeq lays the sequences one behind the other.
LEMMA Flat ==
  ASSUME NEW W, Sq(W), \A i \in 1 .. Len(W) : Sq(W[i])
  PROVE  \E start : Laid(FlattenSeq(W), W, start, Len(W))
  <1> DEFINE n == Len(W)
             IsFlat(f, m) == f = [i \in 1 .. m |-> IF i = 1 THEN W[i] ELSE f[i - 1] \o W[i]]
             S == {m \in Nat : \E f : IsFlat(f, m)}
  <1>1. n \in Nat
    BY SqProperties
  <1>2. 0 \in S
    <2>1. IsFlat([i \in 1 .. 0 |-> W[i]], 0)
      OBVIOUS
    <2> HIDE DEF IsFlat
    <2> QED BY <2>1
  <1>3. ASSUME NEW m \in Nat, m \in S PROVE m + 1 \in S
    <2>1. PICK f : IsFlat(f, m)
      BY <1>3
    <2> DEFINE last == IF m = 0 THEN W[1] ELSE f[m] \o W[m + 1]
               g == [i \in 1 .. m + 1 |-> IF i = m + 1 THEN last ELSE f[i]]
    <2>2. \A i \in 1 .. m : g[i] = f[i]
      OBVIOUS
    <2>3. g[m + 1] = last
      OBVIOUS
    <2>4. g = [i \in 1 .. m + 1 |-> g[i]]
      OBVIOUS
    <2> HIDE DEF g
    <2>5. ASSUME NEW i \in 1 .. m + 1
          PROVE  g[i] = (IF i = 1 THEN W[i] ELSE g[i - 1] \o W[i])
      <3>1. CASE i = m + 1
        <4>1. CASE m = 0
          BY <2>3, <3>1, <4>1
        <4>2. CASE m # 0
          <5>1. i # 1 /\ i - 1 = m /\ m \in 1 .. m
            BY <3>1, <4>2
          <5> QED BY <2>2, <2>3, <3>1, <4>2, <5>1
        <4> QED BY <4>1, <4>2
      <3>2. CASE i # m + 1
        <4>1. i \in 1 .. m /\ (i # 1 => i - 1 \in 1 .. m)
          BY <3>2
        <4>2. f[i] = IF i = 1 THEN W[i] ELSE f[i - 1] \o W[i]
          BY <2>1, <4>1
        <4> QED BY <2>2, <4>1, <4>2
      <3> QED BY <3>1, <3>2
    <2>6. IsFlat(g, m + 1)
      BY <2>4, <2>5
    <2> HIDE DEF IsFlat
    <2> QED BY <2>6
  <1>4. n \in S
    <2> HIDE DEF S, n
    <2> QED BY <1>1, <1>2, <1>3, AllNaturals
  <1> DEFINE flatten == CHOOSE f : IsFlat(f, n)
  <1>5. IsFlat(flatten, n)
    <2> HIDE DEF IsFlat
    <2> QED BY <1>4
  <1>6. FlattenSeq(W) = IF n = 0 THEN W ELSE flatten[n]
    BY DEF FlattenSeq
  <1> HIDE DEF flatten
  <1>7. \A i \in 1 .. n : flatten[i] = IF i = 1 THEN W[i] ELSE flatten[i - 1] \o W[i]
    <2> HIDE DEF n
    <2> QED BY <1>1, <1>5
  <1> HIDE DEF IsFlat
  <1> DEFINE start0 == [i \in 1 .. 1 |-> 0]
  <1>8. Laid(<<>>, W, start0, 0)
    <2>1. Sq(<<>>) /\ Len(<<>>) = 0
      BY DEF Sq
    <2> QED BY <2>1 DEF Laid
  <1> HIDE DEF start0
  <1>9. CASE n = 0
    <2>1. W = <<>>
      BY <1>9 DEF Sq
    <2> QED BY <1>6, <1>8, <1>9, <2>1
  <1>10. CASE n # 0
    <2> DEFINE R == {m \in Nat : m + 1 <= n => \E start : Laid(flatten[m + 1], W, start, m + 1)}
    <2>1. 0 \in R
      <3>1. flatten[1] = W[1] /\ Sq(W[1])
        BY <1>1, <1>7, <1>10
      <3>2. <<>> \o W[1] = W[1]
        BY <3>1, ConcatEmptySeq DEF Sq
      <3>3. \A i \in 1 .. 0 + 1 : Sq(W[i])
        BY <3>1
      <3>4. \E start : Laid(<<>> \o W[0 + 1], W, start, 0 + 1)
        BY <1>8, <3>3, OneMoreLaid
      <3> QED BY <3>1, <3>2, <3>4
    <2>2. ASSUME NEW m \in Nat, m \in R PROVE m + 1 \in R
      <3> SUFFICES ASSUME m + 1 + 1 <= n
                   PROVE  \E start : Laid(flatten[m + 1 + 1], W, start, m + 1 + 1)
        OBVIOUS
      <3>1. PICK start : Laid(flatten[m + 1], W, start, m + 1)
        BY <1>1, <2>2
      <3>2. flatten[m + 1 + 1] = flatten[m + 1] \o W[m + 1 + 1]
        <4>1. m + 1 + 1 \in 1 .. n /\ m + 1 + 1 # 1 /\ (m + 1 + 1) - 1 = m + 1
          BY <1>1
        <4> QED BY <1>7, <4>1
      <3>3. m + 1 \in Nat /\ \A i \in 1 .. m + 1 + 1 : Sq(W[i])
        BY <1>1
      <3>4. \E next : Laid(flatten[m + 1] \o W[m + 1 + 1], W, next, m + 1 + 1)
        BY <3>1, <3>3, OneMoreLaid
      <3> QED BY <3>2, <3>4
    <2>3. n - 1 \in Nat /\ n - 1 + 1 = n
      BY <1>1, <1>10
    <2>4. n - 1 \in R
      <3> HIDE DEF R
      <3> QED BY <2>1, <2>2, <2>3, AllNaturals
    <2> QED BY <1>6, <1>10, <2>3, <2>4
  <1> QED BY <1>9, <1>10

-----------------------------------------------------------------------------
(* Records.                                                                *)

From(i) == (i - 1) * RecordSize + 1

\* Each record but the last is full, the last ends with the buffer.
LEMMA RecordsOf ==
  ASSUME NEW b, Sq(b), b # <<>>
  PROVE  /\ Sq(Records(b)) /\ Len(Records(b)) >= 1
         /\ \A i \in 1 .. Len(Records(b)) :
              /\ From(i) \in 1 .. Len(b) /\ Sq(Records(b)[i])
              /\ Len(Records(b)[i]) = IF i < Len(Records(b)) THEN RecordSize
                                      ELSE Len(b) - From(i) + 1
              /\ From(i) + Len(Records(b)[i]) - 1 <= Len(b)
              /\ Len(Records(b)[i]) >= 1
              /\ \A o \in 1 .. Len(Records(b)[i]) : Records(b)[i][o] = b[From(i) + o - 1]
  <1> DEFINE l == Len(b)
             n == (l + RecordSize - 1) \div RecordSize
             end(i) == IF i * RecordSize < l THEN i * RecordSize ELSE l
  <1>1. RecordSize \in Nat /\ RecordSize >= 9
    BY StreamAssumption
  <1>2. l \in Nat /\ l >= 1
    BY DEF Sq
  <1>3. Records(b) = [i \in 1 .. n |-> SubSeq(b, From(i), end(i))]
    BY DEF Records, From
  <1> HIDE DEF l
  <1>4. n \in Nat /\ n >= 1 /\ n * RecordSize >= l /\ (n - 1) * RecordSize < l
    <2>1. /\ n * RecordSize <= l + RecordSize - 1
          /\ l + RecordSize - 1 < n * RecordSize + RecordSize /\ n \in Int
      BY <1>1, <1>2
    <2> HIDE DEF n
    <2>2. (n - 1) * RecordSize = n * RecordSize - RecordSize
      BY <1>1, <2>1
    <2>3. n * RecordSize \in Int
      BY <1>1, <2>1
    <2>4. n >= 1
      <3> SUFFICES ASSUME n <= 0 PROVE FALSE
        BY <2>1
      <3>1. n * RecordSize <= 0
        BY <1>1, <2>1
      <3> QED BY <1>1, <1>2, <2>1, <2>3, <3>1
    <2> QED BY <1>1, <1>2, <2>1, <2>2, <2>3, <2>4
  <1> HIDE DEF n
  <1>5. Sq(Records(b)) /\ Len(Records(b)) = n
    BY <1>3, <1>4, SqFunction
  <1>6. ASSUME NEW i \in 1 .. n
        PROVE  /\ From(i) \in 1 .. l /\ From(i) \in Nat
               /\ end(i) \in From(i) .. l
               /\ end(i) - From(i) + 1 = IF i < n THEN RecordSize ELSE l - From(i) + 1
    <2>1. (i - 1) * RecordSize \in Nat /\ i * RecordSize = (i - 1) * RecordSize + RecordSize
      BY <1>1, <1>4
    <2>2. (i - 1) * RecordSize <= (n - 1) * RecordSize
      BY <1>1, <1>4
    <2>3. (n - 1) * RecordSize \in Int
      BY <1>1, <1>4
    <2>4. From(i) \in 1 .. l
      BY <1>2, <1>4, <2>1, <2>2, <2>3 DEF From
    <2>5. CASE i < n
      <3>1. i * RecordSize <= (n - 1) * RecordSize
        BY <1>1, <1>4, <2>5
      <3>2. i * RecordSize < l
        <4> DEFINE u == i * RecordSize
                   v == (n - 1) * RecordSize
        <4>1. u \in Int /\ v \in Int /\ u <= v /\ v < l
          BY <1>1, <1>4, <2>3, <3>1
        <4> HIDE DEF u, v
        <4>2. u < l
          BY <1>2, <4>1
        <4> QED BY <4>2 DEF u
      <3> QED BY <1>1, <1>2, <2>1, <2>4, <2>5, <3>2 DEF From
    <2>6. CASE i = n
      <3>1. ~(i * RecordSize < l)
        <4> DEFINE u == n * RecordSize
        <4>1. u \in Int /\ l <= u
          BY <1>1, <1>4
        <4> HIDE DEF u
        <4>2. ~(u < l)
          BY <1>2, <4>1
        <4> QED BY <2>6, <4>2 DEF u
      <3> QED BY <1>1, <1>2, <2>1, <2>4, <2>6, <3>1 DEF From
    <2> QED BY <1>4, <2>5, <2>6
  <1>7. ASSUME NEW i \in 1 .. n
        PROVE  LET r == Records(b)[i]
               IN  /\ Sq(r) /\ Len(r) = end(i) - From(i) + 1
                   /\ \A o \in 1 .. end(i) - From(i) + 1 : r[o] = b[From(i) + o - 1]
    <2>1. Records(b)[i] = SubSeq(b, From(i), end(i))
      BY <1>3
    <2>2. From(i) \in 1 .. l + 1 /\ end(i) \in From(i) - 1 .. l
      BY <1>2, <1>6
    <2> HIDE DEF end
    <2> QED BY <2>1, <2>2, Window DEF l
  <1> HIDE DEF end
  <1>8. ASSUME NEW i \in 1 .. n
        PROVE  /\ From(i) + Len(Records(b)[i]) - 1 <= l
               /\ Len(Records(b)[i]) >= 1
    BY <1>2, <1>6, <1>7
  <1> QED BY <1>4, <1>5, <1>6, <1>7, <1>8 DEF l

\* Record r begins at field o of b; it may go on behind b.
StartsAt(r, b, o) ==
  \A q \in 1 .. Len(r) : o + q - 1 <= Len(b) => r[q] = b[o + q - 1]

\* Record x begins in buffer seg[x] of W, at its field off[x].  The records
\* are in order, and one that ends before its buffer is full and is followed
\* by one that begins inside it.
Cuts(recs, W, seg, off) ==
  /\ Sq(recs) /\ Len(recs) >= 1
  /\ seg \in [1 .. Len(recs) -> 1 .. Len(W)] /\ off \in [1 .. Len(recs) -> Nat \ {0}]
  /\ \A x \in 1 .. Len(recs) :
       /\ Sq(recs[x]) /\ Len(recs[x]) >= 1
       /\ off[x] <= Len(W[seg[x]]) /\ StartsAt(recs[x], W[seg[x]], off[x])
       /\ off[x] + Len(recs[x]) - 1 < Len(W[seg[x]])
            => /\ Len(recs[x]) >= 9 /\ x + 1 \in 1 .. Len(recs)
               /\ seg[x + 1] = seg[x] /\ off[x + 1] > 1
  /\ \A x, y \in 1 .. Len(recs) :
       x < y => seg[x] < seg[y] \/ (seg[x] = seg[y] /\ off[x] < off[y])

\* A buffer by itself.
LEMMA CutsOfOne ==
  ASSUME NEW b, Sq(b), b # <<>>
  PROVE  \E seg, off : Cuts(Records(b), <<b>>, seg, off)
  <1> DEFINE recs == Records(b)
             n == Len(recs)
             l == Len(b)
             W == <<b>>
             seg == [x \in 1 .. n |-> 1]
             off == [x \in 1 .. n |-> From(x)]
  <1>1. RecordSize \in Nat /\ RecordSize >= 9
    BY StreamAssumption
  <1>2. /\ Sq(recs) /\ n >= 1
        /\ \A i \in 1 .. n :
              /\ From(i) \in 1 .. l /\ Sq(recs[i])
              /\ Len(recs[i]) = IF i < n THEN RecordSize ELSE l - From(i) + 1
              /\ From(i) + Len(recs[i]) - 1 <= l /\ Len(recs[i]) >= 1
              /\ \A o \in 1 .. Len(recs[i]) : recs[i][o] = b[From(i) + o - 1]
    BY RecordsOf
  <1>3. n \in Nat /\ l \in Nat
    BY <1>2, SqProperties
  <1>4. W[1] = b /\ Len(W) = 1
    OBVIOUS
  <1> HIDE DEF recs, n, l, W
  <1>5. \A x \in 1 .. n : seg[x] = 1 /\ off[x] = From(x)
    OBVIOUS
  <1>6. seg \in [1 .. n -> 1 .. Len(W)] /\ off \in [1 .. n -> Nat \ {0}]
    BY <1>2, <1>3, <1>4
  <1> HIDE DEF seg, off
  <1>7. ASSUME NEW x \in 1 .. n
        PROVE  /\ Sq(recs[x]) /\ Len(recs[x]) >= 1
               /\ off[x] <= Len(W[seg[x]]) /\ StartsAt(recs[x], W[seg[x]], off[x])
               /\ off[x] + Len(recs[x]) - 1 < Len(W[seg[x]])
                    => /\ Len(recs[x]) >= 9 /\ x + 1 \in 1 .. n
                       /\ seg[x + 1] = seg[x] /\ off[x + 1] > 1
    <2>1. seg[x] = 1 /\ off[x] = From(x) /\ W[seg[x]] = b /\ Len(W[seg[x]]) = l
      BY <1>4, <1>5 DEF l
    <2>2. StartsAt(recs[x], b, From(x))
      BY <1>2 DEF StartsAt
    <2>3. ASSUME off[x] + Len(recs[x]) - 1 < l
          PROVE  /\ Len(recs[x]) >= 9 /\ x + 1 \in 1 .. n
                 /\ seg[x + 1] = seg[x] /\ off[x + 1] > 1
      <3>1. x < n
        BY <1>2, <1>3, <2>1, <2>3
      <3>2. x + 1 \in 1 .. n
        BY <1>3, <3>1
      <3>3. x * RecordSize >= 1
        BY <1>1
      <3>4. From(x + 1) > 1
        BY <1>1, <3>3 DEF From
      <3> QED BY <1>1, <1>2, <1>5, <3>1, <3>2, <3>4
    <2> QED BY <1>2, <2>1, <2>2, <2>3
  <1>8. ASSUME NEW x \in 1 .. n, NEW y \in 1 .. n, x < y
        PROVE  seg[x] = seg[y] /\ off[x] < off[y]
    <2>1. (x - 1) * RecordSize < (y - 1) * RecordSize
      BY <1>1, <1>8
    <2>2. (x - 1) * RecordSize \in Int /\ (y - 1) * RecordSize \in Int
      BY <1>1
    <2> QED BY <1>5, <2>1, <2>2 DEF From
  <1>9. Cuts(recs, W, seg, off)
    BY <1>2, <1>6, <1>7, <1>8 DEF Cuts, n
  <1> QED BY <1>9 DEF recs, W

\* What stands behind the same start is in the same sequence.
LEMMA SamePlace ==
  ASSUME NEW F, NEW W, NEW start, NEW m \in Nat, Laid(F, W, start, m),
         \A i \in 1 .. m : Len(W[i]) \in Nat,
         NEW i \in 1 .. m, NEW o \in 1 .. Len(W[i]),
         NEW j \in 1 .. m, NEW q \in 1 .. Len(W[j])
  PROVE  /\ start[i] + o = start[j] + q => i = j /\ o = q
         /\ start[i] + o < start[j] + q => i < j \/ (i = j /\ o < q)
  <1> DEFINE k == Len(W[i])
             l == Len(W[j])
             a == start[i]
             b == start[j]
  <1>1. a \in Nat /\ b \in Nat /\ k \in Nat /\ l \in Nat
    <2>1. i \in 1 .. m + 1 /\ j \in 1 .. m + 1
      OBVIOUS
    <2> QED BY <2>1 DEF Laid
  <1>2. (i < j => a + k <= b) /\ (j < i => b + l <= a)
    <2>1. i \in 1 .. m + 1 /\ j \in 1 .. m + 1
      OBVIOUS
    <2> QED BY <2>1 DEF Laid
  <1>3. o \in 1 .. k /\ q \in 1 .. l /\ (i = j => a = b)
    OBVIOUS
  <1> HIDE DEF a, b, k, l
  <1>4. CASE i < j
    BY <1>1, <1>2, <1>3, <1>4 DEF a, b
  <1>5. CASE j < i
    BY SMTT(30), <1>1, <1>2, <1>3, <1>5 DEF a, b
  <1>6. CASE i = j
    BY <1>1, <1>3, <1>6 DEF a, b
  <1> QED BY <1>4, <1>5, <1>6

\* The buffers as one.
LEMMA CutsTogether ==
  ASSUME NEW W, Sq(W), W # <<>>, \A i \in 1 .. Len(W) : Sq(W[i]) /\ W[i] # <<>>
  PROVE  \E seg, off : Cuts(Records(FlattenSeq(W)), W, seg, off)
  <1> DEFINE F == FlattenSeq(W)
             m == Len(W)
             recs == Records(F)
             n == Len(recs)
             l == Len(F)
             len(i) == Len(W[i])
  <1>1. RecordSize \in Nat /\ RecordSize >= 9
    BY StreamAssumption
  <1>2. m \in Nat /\ m >= 1 /\ \A i \in 1 .. m : len(i) \in Nat /\ len(i) >= 1
    BY DEF Sq
  <1>3. PICK start : Laid(F, W, start, m)
    BY Flat
  <1> HIDE DEF F, m, len
  <1>4. /\ start \in [1 .. m + 1 -> Nat] /\ Sq(F)
        /\ \A i \in 1 .. m, j \in 1 .. m + 1 : i < j => start[i] + len(i) <= start[j]
        /\ l = start[m + 1] /\ l \in Nat
        /\ \A i \in 1 .. m : \A o \in 1 .. len(i) : F[start[i] + o] = W[i][o]
        /\ \A x \in 1 .. l : \E i \in 1 .. m : \E o \in 1 .. len(i) : x = start[i] + o
    BY <1>2, <1>3 DEF Laid, len
  <1> HIDE DEF l
  <1>5. \A i \in 1 .. m : start[i] + len(i) <= l /\ start[i] \in Nat
    BY <1>2, <1>4
  <1>6. l >= 1
    <2>1. 1 \in 1 .. m
      BY <1>2
    <2> QED BY <1>2, <1>4, <1>5, <2>1
  <1>7. /\ Sq(recs) /\ n >= 1
        /\ \A i \in 1 .. n :
              /\ From(i) \in 1 .. l /\ Sq(recs[i])
              /\ Len(recs[i]) = IF i < n THEN RecordSize ELSE l - From(i) + 1
              /\ From(i) + Len(recs[i]) - 1 <= l /\ Len(recs[i]) >= 1
              /\ \A o \in 1 .. Len(recs[i]) : recs[i][o] = F[From(i) + o - 1]
    <2>1. F # <<>>
      BY <1>6 DEF l
    <2>2. Sq(F)
      BY <1>4
    <2> HIDE DEF recs, n
    <2>3. /\ Sq(Records(F)) /\ Len(Records(F)) >= 1
          /\ \A i \in 1 .. Len(Records(F)) :
               /\ From(i) \in 1 .. Len(F) /\ Sq(Records(F)[i])
               /\ Len(Records(F)[i]) = IF i < Len(Records(F)) THEN RecordSize
                                       ELSE Len(F) - From(i) + 1
               /\ From(i) + Len(Records(F)[i]) - 1 <= Len(F)
               /\ Len(Records(F)[i]) >= 1
               /\ \A o \in 1 .. Len(Records(F)[i]) : Records(F)[i][o] = F[From(i) + o - 1]
      BY <2>1, <2>2, RecordsOf
    <2> QED BY <2>3 DEF l, n, recs
  <1>8. n \in Nat /\ \A x \in 1 .. n : Len(recs[x]) \in Nat
    BY <1>7, SqProperties
  <1> HIDE DEF recs, n
  <1>same. ASSUME NEW i \in 1 .. m, NEW o \in 1 .. Len(W[i]),
                  NEW j \in 1 .. m, NEW q \in 1 .. Len(W[j])
           PROVE  /\ start[i] + o = start[j] + q => i = j /\ o = q
                  /\ start[i] + o < start[j] + q => i < j \/ (i = j /\ o < q)
    <2>1. \A h \in 1 .. m : Len(W[h]) \in Nat
      BY <1>2 DEF len
    <2> QED BY <1>2, <1>3, <2>1, SamePlace
  <1> DEFINE seg == [x \in 1 .. n |-> CHOOSE i \in 1 .. m : \E o \in 1 .. len(i) : From(x) = start[i] + o]
             off == [x \in 1 .. n |-> From(x) - start[seg[x]]]
  <1>9. ASSUME NEW x \in 1 .. n
        PROVE  seg[x] \in 1 .. m /\ off[x] \in 1 .. len(seg[x]) /\ From(x) = start[seg[x]] + off[x]
    <2>1. \E i \in 1 .. m : \E o \in 1 .. len(i) : From(x) = start[i] + o
      BY <1>4, <1>7
    <2>2. seg[x] \in 1 .. m /\ \E o \in 1 .. len(seg[x]) : From(x) = start[seg[x]] + o
      BY <2>1
    <2>3. off[x] = From(x) - start[seg[x]]
      OBVIOUS
    <2> HIDE DEF seg, off
    <2> QED BY <1>2, <1>5, <2>2, <2>3
  <1>10. seg \in [1 .. n -> 1 .. m] /\ off \in [1 .. n -> Nat \ {0}]
    <2>1. \A x \in 1 .. n : off[x] \in Nat \ {0} /\ seg[x] \in 1 .. m
      <3> HIDE DEF seg, off
      <3> QED BY <1>2, <1>9
    <2> QED BY <2>1
  <1> HIDE DEF seg, off
  <1>11. ASSUME NEW x \in 1 .. n
         PROVE  /\ off[x] <= len(seg[x]) /\ StartsAt(recs[x], W[seg[x]], off[x])
                /\ off[x] + Len(recs[x]) - 1 < len(seg[x])
                     => /\ Len(recs[x]) >= 9 /\ x + 1 \in 1 .. n
                        /\ seg[x + 1] = seg[x] /\ off[x + 1] > 1
    <2> DEFINE i == seg[x]
               o == off[x]
               k == Len(recs[x])
               s == start[i]
               y == len(i)
    <2>1. i \in 1 .. m /\ o \in 1 .. y /\ From(x) = s + o /\ y \in Nat /\ s \in Nat
      BY <1>2, <1>5, <1>9
    <2>2. /\ k \in Nat /\ k >= 1 /\ s + y <= l
          /\ k = (IF x < n THEN RecordSize ELSE l - From(x) + 1)
      BY <1>5, <1>7, <1>8, <2>1
    <2> HIDE DEF i, o, k, s, y
    <2>3. StartsAt(recs[x], W[i], o)
      <3> SUFFICES ASSUME NEW q \in 1 .. k, o + q - 1 <= y
                   PROVE  recs[x][q] = W[i][o + q - 1]
        BY DEF StartsAt, k, y, len
      <3>1. recs[x][q] = F[From(x) + q - 1]
        BY <1>7 DEF k
      <3>2. o + q - 1 \in 1 .. y /\ From(x) + q - 1 = s + (o + q - 1)
        BY <2>1, <2>2
      <3>3. F[s + (o + q - 1)] = W[i][o + q - 1]
        BY <1>4, <2>1, <3>2 DEF s, y
      <3> QED BY <3>1, <3>2, <3>3
    <2>4. ASSUME o + k - 1 < y
          PROVE  k >= 9 /\ x + 1 \in 1 .. n /\ seg[x + 1] = i /\ off[x + 1] > 1
      <3>1. x < n
        BY SMTT(30), <1>4, <1>8, <2>1, <2>2, <2>4
      <3>2. x + 1 \in 1 .. n /\ k = RecordSize
        BY <1>8, <2>2, <3>1
      <3>3. From(x + 1) = From(x) + RecordSize
        BY <1>1 DEF From
      <3>4. o + k \in 1 .. y /\ From(x + 1) = s + (o + k)
        BY <1>1, <2>1, <2>2, <2>4, <3>2, <3>3
      <3>5. seg[x + 1] \in 1 .. m /\ off[x + 1] \in 1 .. len(seg[x + 1])
            /\ From(x + 1) = start[seg[x + 1]] + off[x + 1]
        BY <1>9, <3>2
      <3>6. i = seg[x + 1] /\ o + k = off[x + 1]
        <4> DEFINE j == seg[x + 1]
                   q == off[x + 1]
        <4>1. /\ i \in 1 .. m /\ o + k \in 1 .. Len(W[i])
              /\ j \in 1 .. m /\ q \in 1 .. Len(W[j])
              /\ start[i] + (o + k) = start[j] + q
          BY <2>1, <3>4, <3>5 DEF s, y, len
        <4> DEFINE p == o + k
        <4> HIDE DEF j, q, p
        <4>2. i \in 1 .. m /\ p \in 1 .. Len(W[i]) /\ start[i] + p = start[j] + q
          BY <4>1 DEF p
        <4>3. i = j /\ p = q
          BY <1>same, <4>1, <4>2
        <4> QED BY <4>3 DEF j, q, p
      <3> QED BY <1>1, <2>1, <3>2, <3>6
    <2> QED BY <2>1, <2>3, <2>4 DEF i, o, k, y
  <1>12. ASSUME NEW x \in 1 .. n, NEW y \in 1 .. n, x < y
         PROVE  seg[x] < seg[y] \/ (seg[x] = seg[y] /\ off[x] < off[y])
    <2>1. From(x) < From(y)
      <3>1. (x - 1) * RecordSize < (y - 1) * RecordSize
        BY <1>1, <1>12
      <3>2. (x - 1) * RecordSize \in Int /\ (y - 1) * RecordSize \in Int
        BY <1>1
      <3> QED BY <3>1, <3>2 DEF From
    <2>2. /\ seg[x] \in 1 .. m /\ off[x] \in 1 .. len(seg[x])
          /\ seg[y] \in 1 .. m /\ off[y] \in 1 .. len(seg[y])
          /\ start[seg[x]] + off[x] < start[seg[y]] + off[y]
      BY <1>9, <2>1
    <2> QED BY SMTT(30), <1>2, <1>3, <2>2, SamePlace DEF len
  <1>13. Cuts(recs, W, seg, off)
    BY <1>7, <1>8, <1>10, <1>11, <1>12 DEF Cuts, n, m, len
  <1> QED BY <1>13 DEF recs, F

\* The buffers one by one.
LEMMA CutsSeparately ==
  ASSUME NEW W, Sq(W), W # <<>>, \A i \in 1 .. Len(W) : Sq(W[i]) /\ W[i] # <<>>
  PROVE  \E seg, off :
           Cuts(FlattenSeq([i \in DOMAIN W |-> Records(W[i])]), W, seg, off)
  <1> DEFINE V == [i \in DOMAIN W |-> Records(W[i])]
             recs == FlattenSeq(V)
             m == Len(W)
             n == Len(recs)
             len(i) == Len(W[i])
             num(i) == Len(V[i])
             record(i, o) == V[i][o]
  <1>1. RecordSize \in Nat /\ RecordSize >= 9
    BY StreamAssumption
  <1>2. m \in Nat /\ m >= 1 /\ DOMAIN W = 1 .. m /\ \A i \in 1 .. m : len(i) \in Nat /\ len(i) >= 1
    BY DEF Sq
  <1>3. V = [i \in 1 .. m |-> V[i]] /\ \A i \in 1 .. m : V[i] = Records(W[i])
    BY <1>2
  <1> HIDE DEF V, m
  <1>4. Sq(V) /\ Len(V) = m
    BY <1>2, <1>3, SqFunction
  <1>5. \A i \in 1 .. m :
          /\ Sq(V[i]) /\ num(i) >= 1 /\ num(i) \in Nat
          /\ \A o \in 1 .. num(i) :
               /\ From(o) \in 1 .. len(i) /\ Sq(record(i, o))
               /\ Len(record(i, o)) = IF o < num(i) THEN RecordSize ELSE len(i) - From(o) + 1
               /\ From(o) + Len(record(i, o)) - 1 <= len(i)
               /\ Len(record(i, o)) >= 1
               /\ \A q \in 1 .. Len(record(i, o)) : record(i, o)[q] = W[i][From(o) + q - 1]
    <2> TAKE i \in 1 .. m
    <2>1. Sq(W[i]) /\ W[i] # <<>> /\ V[i] = Records(W[i])
      BY <1>3 DEF m
    <2> DEFINE b == W[i]
    <2>2. Sq(b) /\ b # <<>> /\ V[i] = Records(b)
      BY <2>1
    <2> HIDE DEF b
    <2>3. /\ Sq(Records(b)) /\ Len(Records(b)) >= 1
          /\ \A o \in 1 .. Len(Records(b)) :
               /\ From(o) \in 1 .. Len(b) /\ Sq(Records(b)[o])
               /\ Len(Records(b)[o]) = IF o < Len(Records(b)) THEN RecordSize
                                       ELSE Len(b) - From(o) + 1
               /\ From(o) + Len(Records(b)[o]) - 1 <= Len(b)
               /\ Len(Records(b)[o]) >= 1
               /\ \A q \in 1 .. Len(Records(b)[o]) : Records(b)[o][q] = b[From(o) + q - 1]
      BY <2>2, RecordsOf
    <2>4. Len(Records(b)) \in Nat
      BY <2>3, SqProperties
    <2> QED BY <2>2, <2>3, <2>4 DEF b
  <1>6. PICK start : Laid(recs, V, start, m)
    BY <1>4, <1>5, Flat
  <1> HIDE DEF recs, len, num
  <1>7. /\ start \in [1 .. m + 1 -> Nat] /\ Sq(recs)
        /\ \A i \in 1 .. m, j \in 1 .. m + 1 : i < j => start[i] + num(i) <= start[j]
        /\ n = start[m + 1] /\ n \in Nat
        /\ \A i \in 1 .. m : \A o \in 1 .. num(i) : recs[start[i] + o] = record(i, o)
        /\ \A x \in 1 .. n : \E i \in 1 .. m : \E o \in 1 .. num(i) : x = start[i] + o
    BY <1>2, <1>6 DEF Laid, num
  <1> HIDE DEF n, record
  <1>8. \A i \in 1 .. m : start[i] + num(i) <= n /\ start[i] \in Nat
    BY <1>2, <1>7
  <1>9. n >= 1
    <2>1. 1 \in 1 .. m
      BY <1>2
    <2> QED BY <1>5, <1>7, <1>8, <2>1
  <1> DEFINE seg == [x \in 1 .. n |-> CHOOSE i \in 1 .. m : \E o \in 1 .. num(i) : x = start[i] + o]
             place(x) == x - start[seg[x]]
             off == [x \in 1 .. n |-> From(place(x))]
  <1>10. ASSUME NEW x \in 1 .. n
         PROVE  seg[x] \in 1 .. m /\ place(x) \in 1 .. num(seg[x]) /\ x = start[seg[x]] + place(x)
    <2>1. \E i \in 1 .. m : \E o \in 1 .. num(i) : x = start[i] + o
      BY <1>7
    <2>2. seg[x] \in 1 .. m /\ \E o \in 1 .. num(seg[x]) : x = start[seg[x]] + o
      BY <2>1
    <2> HIDE DEF seg
    <2> QED BY SMTT(30), <1>5, <1>8, <2>2
  <1>11. \A x \in 1 .. n : off[x] = From(place(x))
    OBVIOUS
  <1>12. seg \in [1 .. n -> 1 .. m] /\ off \in [1 .. n -> Nat \ {0}]
    <2>1. \A x \in 1 .. n : off[x] \in Nat \ {0} /\ seg[x] \in 1 .. m
      <3> HIDE DEF seg, off
      <3> TAKE x \in 1 .. n
      <3>1. From(place(x)) \in 1 .. len(seg[x])
        BY <1>5, <1>10
      <3> QED BY <1>2, <1>10, <1>11, <3>1
    <2> QED BY <2>1
  <1> HIDE DEF seg, off, place
  <1>13. ASSUME NEW x \in 1 .. n
         PROVE  /\ Sq(recs[x]) /\ Len(recs[x]) >= 1
                /\ off[x] <= len(seg[x]) /\ StartsAt(recs[x], W[seg[x]], off[x])
                /\ off[x] + Len(recs[x]) - 1 < len(seg[x])
                     => /\ Len(recs[x]) >= 9 /\ x + 1 \in 1 .. n
                        /\ seg[x + 1] = seg[x] /\ off[x + 1] > 1
    <2> DEFINE i == seg[x]
               o == place(x)
               r == recs[x]
    <2>1. i \in 1 .. m /\ o \in 1 .. num(i) /\ x = start[i] + o /\ off[x] = From(o)
      BY <1>10, <1>11
    <2>2. r = record(i, o)
      BY <1>7, <2>1
    <2> HIDE DEF i, o, r
    <2>3. /\ From(o) \in 1 .. len(i) /\ Sq(r)
          /\ Len(r) = IF o < num(i) THEN RecordSize ELSE len(i) - From(o) + 1
          /\ From(o) + Len(r) - 1 <= len(i) /\ Len(r) >= 1
          /\ \A q \in 1 .. Len(r) : r[q] = W[i][From(o) + q - 1]
      BY <1>5, <2>1, <2>2
    <2>4. StartsAt(r, W[i], From(o))
      BY <2>3 DEF StartsAt
    <2>5. ASSUME From(o) + Len(r) - 1 < len(i)
          PROVE  Len(r) >= 9 /\ x + 1 \in 1 .. n /\ seg[x + 1] = i /\ off[x + 1] > 1
      <3>1. num(i) \in Nat /\ len(i) \in Nat /\ start[i] \in Nat /\ start[i] + num(i) <= n
        BY <1>2, <1>5, <1>8, <2>1
      <3>2. o < num(i)
        BY <2>1, <2>3, <2>5, <3>1
      <3>3. o + 1 \in 1 .. num(i) /\ x + 1 = start[i] + (o + 1) /\ x + 1 \in 1 .. n
        <4> DEFINE a == num(i)
                   st == start[i]
        <4>1. a \in Nat /\ st \in Nat /\ st + a <= n /\ o \in 1 .. a /\ x = st + o /\ o < a
          BY <2>1, <3>1, <3>2
        <4> HIDE DEF a, st
        <4>2. o + 1 \in 1 .. a /\ x + 1 = st + (o + 1) /\ x + 1 \in 1 .. n
          BY <1>7, <4>1
        <4> QED BY <4>2 DEF a, st
      <3>4. /\ seg[x + 1] \in 1 .. m /\ place(x + 1) \in 1 .. num(seg[x + 1])
            /\ x + 1 = start[seg[x + 1]] + place(x + 1)
        BY <1>10, <3>3
      <3>5. i = seg[x + 1] /\ o + 1 = place(x + 1)
        <4> DEFINE j == seg[x + 1]
                   q == place(x + 1)
                   t == o + 1
        <4>1. /\ i \in 1 .. m /\ t \in 1 .. Len(V[i])
              /\ j \in 1 .. m /\ q \in 1 .. Len(V[j])
              /\ start[i] + t = start[j] + q
          BY <2>1, <3>3, <3>4 DEF num
        <4>2. m \in Nat /\ \A h \in 1 .. m : Len(V[h]) \in Nat
          BY <1>2, <1>5 DEF num
        <4> HIDE DEF j, q, t
        <4>3. i = j /\ t = q
          BY SMTT(30), <1>6, <4>1, <4>2, SamePlace
        <4> QED BY <4>3 DEF j, q, t
      <3>6. o * RecordSize >= 1 /\ o * RecordSize \in Int
        BY <1>1, <2>1
      <3>7. From(o + 1) > 1
        BY <2>1, <3>6 DEF From
      <3> QED BY <1>1, <1>11, <2>3, <3>2, <3>3, <3>5, <3>7
    <2> QED BY <2>1, <2>3, <2>4, <2>5 DEF i, o, r
  <1>14. ASSUME NEW x \in 1 .. n, NEW y \in 1 .. n, x < y
         PROVE  seg[x] < seg[y] \/ (seg[x] = seg[y] /\ off[x] < off[y])
    <2>1. /\ seg[x] \in 1 .. m /\ place(x) \in 1 .. num(seg[x])
          /\ seg[y] \in 1 .. m /\ place(y) \in 1 .. num(seg[y])
          /\ start[seg[x]] + place(x) < start[seg[y]] + place(y)
      BY <1>10, <1>14
    <2>2. seg[x] < seg[y] \/ (seg[x] = seg[y] /\ place(x) < place(y))
      BY ZenonT(40), <1>2, <1>5, <1>6, <2>1, SamePlace DEF num
    <2>3. ASSUME place(x) < place(y) PROVE off[x] < off[y]
      <3> DEFINE a == place(x)
                 c == place(y)
      <3>1. a \in Int /\ c \in Int /\ a < c
        BY <1>5, <2>1, <2>3
      <3> HIDE DEF a, c
      <3>2. (a - 1) * RecordSize < (c - 1) * RecordSize
        BY <1>1, <3>1
      <3>3. (a - 1) * RecordSize \in Int /\ (c - 1) * RecordSize \in Int
        BY <1>1, <3>1
      <3> QED BY <1>11, <3>2, <3>3 DEF From, a, c
    <2> QED BY <2>2, <2>3
  <1>15. Cuts(recs, W, seg, off)
    BY <1>7, <1>9, <1>12, <1>13, <1>14 DEF Cuts, n, m, len
  <1> QED BY <1>15 DEF recs, V

-----------------------------------------------------------------------------
(* Reading what was written.                                               *)

\* What is in a chunk from a place on agrees with F, as far as it is there.
Fits(chunk, at, F) ==
  \A i \in 1 .. Len(F) : at + i - 1 <= Len(chunk) => chunk[at + i - 1] = F[i]

CursorIn(c, chunk) == Sq(chunk) /\ c.chunk = chunk /\ c.at \in Nat \ {0}

\* Reading has gone on from cursor c to cursor r over n fields, if they were
\* there.
Over(c, r, n) ==
  /\ r.chunk = c.chunk
  /\ r.fate = "reads" => c.fate = "reads" /\ r.at = c.at + n
  /\ c.fate = "reads" /\ c.at + n - 1 <= Len(c.chunk) => r.fate = "reads"

\* All that was read was there.
AllThere(r) == r.fate = "reads" /\ r.at - 1 <= Len(r.chunk)

LEMMA OverTwo ==
  ASSUME NEW chunk, NEW c, CursorIn(c, chunk), NEW r, NEW s, NEW m \in Nat, NEW n \in Nat,
         Over(c, r, m), r.fate = "reads" => Over(r, s, n),
         s.fate = "reads" => r.fate = "reads", s.chunk = r.chunk
  PROVE  Over(c, s, m + n)
  <1>1. Len(chunk) \in Nat /\ c.at \in Nat
    BY SqProperties DEF CursorIn
  <1> QED BY <1>1 DEF Over, CursorIn

\* Once it goes wrong it stays wrong.
LEMMA TakeAfter ==
  ASSUME NEW c, NEW K
  PROVE  Take(c, K).chunk = c.chunk /\ (Take(c, K).fate = "reads" => c.fate = "reads")
  BY DEF Take

\* Cursor r is c after it has read fields as in F, as far as they are there.
Took(c, r, chunk, K, F, n) ==
  /\ Over(c, r, n) /\ r.at = c.at + n /\ CursorIn(r, chunk)
  /\ r.got = [i \in 1 .. n |-> r.got[i]]
  /\ r.fate = "reads" =>
       \A i \in 1 .. n :
         /\ c.at + i - 1 <= Len(chunk) \/ K[i] \in {"text", "raw"}
         /\ r.got[i] = IF c.at + i - 1 <= Len(chunk) THEN F[i][2]
                       ELSE IF K[i] \in {"text", "raw"} THEN <<>> ELSE 0

LEMMA TakePart ==
  ASSUME NEW c, NEW chunk, CursorIn(c, chunk), NEW n \in Nat,
         NEW K, NEW F, Sq(K), Sq(F), Len(K) = n, Len(F) = n,
         \A i \in 1 .. n : F[i][1] = K[i],
         Fits(chunk, c.at, F)
  PROVE  Took(c, Take(c, K), chunk, K, F, n)
  <1>1. DOMAIN K = 1 .. n /\ Len(chunk) \in Nat
    BY SqProperties DEF CursorIn
  <1>c. c.chunk = chunk /\ c.at \in Nat \ {0} /\ Sq(chunk)
    BY DEF CursorIn
  <1> DEFINE There(i) == c.at + i - 1 <= Len(chunk)
  <1>2. ASSUME NEW i \in 1 .. n, There(i)
        PROVE  chunk[c.at + i - 1] = F[i] /\ F[i][1] = K[i]
    BY <1>2 DEF Fits
  <1>3. c.fate = "reads" /\ c.at + n - 1 <= Len(chunk) => Take(c, K).fate = "reads"
    BY <1>1, <1>2, <1>c DEF Take
  <1>4. Take(c, K).fate = "reads" => \A i \in 1 .. n : There(i) \/ K[i] \in {"text", "raw"}
    BY <1>1, <1>2, <1>c DEF Take
  <1>5. ASSUME Take(c, K).fate = "reads", NEW i \in 1 .. n
        PROVE  Take(c, K).got[i] = IF There(i) THEN F[i][2]
                                   ELSE IF K[i] \in {"text", "raw"} THEN <<>> ELSE 0
    BY <1>1, <1>2, <1>5, <1>c DEF Take
  <1>6. Take(c, K).at = c.at + n /\ Take(c, K).chunk = chunk
    BY <1>c DEF Take
  <1>7. CursorIn(Take(c, K), chunk)
    BY <1>1, <1>6, <1>c DEF CursorIn
  <1>8. Over(c, Take(c, K), n)
    BY <1>3, <1>6, <1>c, TakeAfter DEF Over
  <1>9. Take(c, K).got = [i \in 1 .. n |-> Take(c, K).got[i]]
    BY <1>1 DEF Take
  <1> QED BY <1>4, <1>5, <1>6, <1>7, <1>8, <1>9 DEF Took

LEMMA FitsJoined ==
  ASSUME NEW chunk, NEW at \in Nat, NEW s, NEW t, Sq(s), Sq(t), Fits(chunk, at, s \o t)
  PROVE  Fits(chunk, at, s) /\ Fits(chunk, at + Len(s), t)
  <1> DEFINE u == s \o t
  <1>1. /\ Sq(u) /\ Len(u) = Len(s) + Len(t) /\ Len(s) \in Nat /\ Len(t) \in Nat
        /\ \A i \in 1 .. Len(s) : u[i] = s[i]
        /\ \A i \in 1 .. Len(t) : u[Len(s) + i] = t[i]
    BY Joined, SqProperties
  <1>2. Fits(chunk, at, u)
    OBVIOUS
  <1> DEFINE k == Len(s)
             l == Len(t)
             n == Len(u)
  <1> HIDE DEF u, k, l, n
  <1>3. k \in Nat /\ l \in Nat /\ n = k + l
    BY <1>1 DEF k, l, n
  <1>4. \A i \in 1 .. n : at + i - 1 <= Len(chunk) => chunk[at + i - 1] = u[i]
    BY <1>2 DEF Fits, n
  <1>5. \A i \in 1 .. k : at + i - 1 <= Len(chunk) => chunk[at + i - 1] = s[i]
    BY <1>1, <1>3, <1>4 DEF k
  <1>6. ASSUME NEW i \in 1 .. l, at + k + i - 1 <= Len(chunk)
        PROVE  chunk[at + k + i - 1] = t[i]
    <2>1. k + i \in 1 .. n /\ at + (k + i) - 1 = at + k + i - 1
      BY <1>3
    <2>2. u[k + i] = t[i]
      BY <1>1 DEF k, l
    <2> QED BY <1>4, <1>6, <2>1, <2>2
  <1> QED BY <1>5, <1>6 DEF Fits, k, l

-----------------------------------------------------------------------------
(* The lists of ids.                                                       *)

Ids(list) == Sq(list) /\ \A i \in 1 .. Len(list) :
                           \E id : list[i] = NodeID(id) \/ list[i] = ResourceID(id)

\* An id is two fields.
LEMMA IdsWritten ==
  ASSUME NEW list, Ids(list)
  PROVE  /\ Sq(SerializeIds(list)) /\ Len(SerializeIds(list)) = 2 * Len(list)
         /\ \A i \in 1 .. Len(list) : /\ SerializeIds(list)[2 * i - 1] = U8(list[i].type)
                                      /\ SerializeIds(list)[2 * i] = Text(list[i].id)
  <1> DEFINE n == Len(list)
             W == [i \in DOMAIN list |-> <<U8(list[i].type), Text(list[i].id)>>]
             F == SerializeIds(list)
  <1>1. n \in Nat /\ DOMAIN list = 1 .. n
    BY SqProperties DEF Ids
  <1>2. ASSUME NEW i \in 1 .. n
        PROVE  /\ Sq(W[i]) /\ Len(W[i]) = 2 /\ W[i][1] = U8(list[i].type)
               /\ W[i][2] = Text(list[i].id)
    <2> DEFINE a == U8(list[i].type)
               b == Text(list[i].id)
    <2>1. W[i] = <<a, b>>
      BY <1>1
    <2> HIDE DEF a, b, W
    <2>2. <<a, b>> \in Seq({a, b}) /\ Len(<<a, b>>) = 2
      OBVIOUS
    <2>3. Sq(<<a, b>>)
      BY <2>2, SqOf
    <2> QED BY <2>1, <2>2, <2>3 DEF a, b
  <1>3. W = [i \in 1 .. n |-> W[i]]
    BY <1>1
  <1>4. F = FlattenSeq(W)
    BY DEF SerializeIds
  <1> HIDE DEF W, F, n
  <1>5. Sq(W) /\ Len(W) = n
    BY <1>1, <1>3, SqFunction
  <1>6. PICK start : Laid(F, W, start, n)
    BY <1>2, <1>4, <1>5, Flat
  <1>7. /\ start \in [1 .. n + 1 -> Nat] /\ start[1] = 0
        /\ \A i \in 1 .. n : start[i + 1] = start[i] + 2
        /\ Sq(F) /\ Len(F) = start[n + 1]
        /\ \A i \in 1 .. n : \A o \in 1 .. 2 : F[start[i] + o] = W[i][o]
    BY <1>2, <1>6 DEF Laid
  <1>8. \A i \in 1 .. n + 1 : start[i] = 2 * (i - 1)
    <2> DEFINE R == {k \in Nat : k + 1 \in 1 .. n + 1 => start[k + 1] = 2 * k}
    <2>1. 0 \in R
      BY <1>7
    <2>2. ASSUME NEW k \in Nat, k \in R PROVE k + 1 \in R
      <3> SUFFICES ASSUME k + 1 + 1 \in 1 .. n + 1 PROVE start[k + 1 + 1] = 2 * (k + 1)
        OBVIOUS
      <3>1. k + 1 \in 1 .. n /\ k + 1 \in 1 .. n + 1
        BY <1>1
      <3>2. start[k + 1 + 1] = start[k + 1] + 2 /\ start[k + 1] = 2 * k
        BY <1>7, <2>2, <3>1
      <3> QED BY <3>2
    <2>3. \A k \in Nat : k \in R
      <3> HIDE DEF R
      <3> QED BY <2>1, <2>2, AllNaturals
    <2> TAKE i \in 1 .. n + 1
    <2>4. i - 1 \in R /\ i - 1 \in Nat /\ (i - 1) + 1 = i
      BY SMTT(30), <1>1, <2>3
    <2> QED BY <2>4
  <1>9. ASSUME NEW i \in 1 .. n
        PROVE  F[2 * i - 1] = U8(list[i].type) /\ F[2 * i] = Text(list[i].id)
    <2>1. start[i] = 2 * (i - 1) /\ i \in 1 .. n + 1
      BY <1>1, <1>8
    <2>2. start[i] + 1 = 2 * i - 1 /\ start[i] + 2 = 2 * i
      BY <2>1
    <2>3. F[start[i] + 1] = W[i][1] /\ F[start[i] + 2] = W[i][2]
      BY <1>7
    <2> QED BY <1>2, <2>2, <2>3
  <1>10. Len(F) = 2 * n
    <2>1. n + 1 \in 1 .. n + 1
      BY <1>1
    <2> QED BY <1>1, <1>7, <1>8, <2>1
  <1> QED BY <1>7, <1>9, <1>10 DEF F, n

LEMMA IdsRead ==
  ASSUME NEW list, Ids(list), NEW c, NEW chunk, CursorIn(c, chunk),
         Fits(chunk, c.at, SerializeIds(list))
  PROVE  LET d == DeSerializeIds(c, Len(SerializeIds(list)))
         IN  /\ Over(c, d.cursor, Len(SerializeIds(list))) /\ CursorIn(d.cursor, chunk)
             /\ d.cursor.at = c.at + Len(SerializeIds(list))
             /\ AllThere(d.cursor) => d.list = list
  <1> DEFINE F == SerializeIds(list)
             n == Len(list)
             K == [i \in 1 .. 2 * n |-> IF i % 2 = 1 THEN "u8" ELSE "text"]
             r == Take(c, K)
  <1>1. n \in Nat /\ list = [i \in 1 .. n |-> list[i]]
    BY SqProperties DEF Ids, Sq
  <1>2. /\ Sq(F) /\ Len(F) = 2 * n
        /\ \A i \in 1 .. n : F[2 * i - 1] = U8(list[i].type) /\ F[2 * i] = Text(list[i].id)
    BY IdsWritten
  <1>3. \A i \in 1 .. n : \E id : list[i] = NodeID(id) \/ list[i] = ResourceID(id)
    BY DEF Ids
  <1> HIDE DEF F, n
  <1>4. (2 * n + 1) \div 2 = n
    BY <1>1
  <1>5. DeSerializeIds(c, Len(F)) =
          [cursor |-> r, list |-> [i \in 1 .. n |-> IdOfType(r.got[2 * i - 1], r.got[2 * i])]]
    BY <1>2, <1>4 DEF DeSerializeIds
  <1>6. Sq(K) /\ Len(K) = 2 * n
    <2>1. 2 * n \in Nat /\ K = [i \in 1 .. 2 * n |-> K[i]]
      BY <1>1
    <2> HIDE DEF K
    <2> QED BY <2>1, SqFunction
  <1>7. ASSUME NEW i \in 1 .. 2 * n PROVE F[i][1] = K[i]
    <2>1. K[i] = IF i % 2 = 1 THEN "u8" ELSE "text"
      OBVIOUS
    <2>2. CASE i % 2 = 1
      <3>1. PICK j \in 1 .. n : i = 2 * j - 1
        <4>1. (i + 1) \div 2 \in 1 .. n /\ i = 2 * ((i + 1) \div 2) - 1
          <5> DEFINE q == i \div 2
          <5>1. q \in Nat /\ i = 2 * q + 1
            BY <1>1, <2>2
          <5> HIDE DEF q
          <5>2. (i + 1) \div 2 = q + 1 /\ q + 1 \in 1 .. n
            BY <1>1, <5>1
          <5> QED BY <5>1, <5>2
        <4> QED BY <4>1
      <3> QED BY <1>2, <2>1, <2>2, <3>1 DEF U8
    <2>3. CASE i % 2 # 1
      <3>1. PICK j \in 1 .. n : i = 2 * j
        <4>1. i \div 2 \in 1 .. n /\ i = 2 * (i \div 2)
          BY <1>1, <2>3
        <4> QED BY <4>1
      <3> QED BY <1>2, <2>1, <2>3, <3>1 DEF Text
    <2> QED BY <2>2, <2>3
  <1> HIDE DEF K
  <1>8. /\ Over(c, r, 2 * n) /\ r.at = c.at + 2 * n /\ CursorIn(r, chunk)
        /\ r.fate = "reads" =>
             \A i \in 1 .. 2 * n :
               r.got[i] = IF c.at + i - 1 <= Len(chunk) THEN F[i][2]
                          ELSE IF K[i] \in {"text", "raw"} THEN <<>> ELSE 0
    <2>1. Sq(F) /\ Len(F) = 2 * n /\ 2 * n \in Nat /\ Fits(chunk, c.at, F)
      BY <1>1, <1>2 DEF F
    <2>2. Took(c, r, chunk, K, F, 2 * n)
      BY <1>6, <1>7, <2>1, TakePart
    <2> QED BY <2>2 DEF Took
  <1> HIDE DEF r
  <1>9. ASSUME AllThere(r), NEW i \in 1 .. n
        PROVE  IdOfType(r.got[2 * i - 1], r.got[2 * i]) = list[i]
    <2>1. Len(chunk) \in Nat /\ c.at \in Nat /\ r.fate = "reads" /\ r.at - 1 <= Len(chunk)
      BY <1>8, <1>9, SqProperties DEF CursorIn, AllThere
    <2>2. /\ 2 * i - 1 \in 1 .. 2 * n /\ c.at + (2 * i - 1) - 1 <= Len(chunk)
          /\ 2 * i \in 1 .. 2 * n /\ c.at + 2 * i - 1 <= Len(chunk)
      <3> DEFINE l == Len(chunk)
                 at == c.at
      <3>1. l \in Nat /\ at \in Nat /\ at + 2 * n - 1 <= l
        BY <1>1, <1>8, <2>1
      <3> HIDE DEF l, at
      <3>2. /\ 2 * i - 1 \in 1 .. 2 * n /\ at + (2 * i - 1) - 1 <= l
            /\ 2 * i \in 1 .. 2 * n /\ at + 2 * i - 1 <= l
        BY SMTT(30), <1>1, <3>1
      <3> QED BY <3>2 DEF l, at
    <2>3. r.got[2 * i - 1] = F[2 * i - 1][2] /\ r.got[2 * i] = F[2 * i][2]
      BY <1>8, <2>1, <2>2
    <2>4. r.got[2 * i - 1] = list[i].type /\ r.got[2 * i] = list[i].id
      BY <1>2, <2>3 DEF U8, Text
    <2>5. PICK id : list[i] = NodeID(id) \/ list[i] = ResourceID(id)
      BY <1>3
    <2> QED BY <2>4, <2>5 DEF IdOfType, NodeID, ResourceID
  <1>10. AllThere(r) => [i \in 1 .. n |-> IdOfType(r.got[2 * i - 1], r.got[2 * i])] = list
    BY <1>1, <1>9
  <1> DEFINE d == DeSerializeIds(c, Len(F))
  <1>11. d.cursor = r /\ d.list = [i \in 1 .. n |-> IdOfType(r.got[2 * i - 1], r.got[2 * i])]
    BY <1>5
  <1> HIDE DEF d
  <1>12. /\ Over(c, d.cursor, Len(F)) /\ CursorIn(d.cursor, chunk)
         /\ d.cursor.at = c.at + Len(F) /\ (AllThere(d.cursor) => d.list = list)
    BY <1>2, <1>8, <1>10, <1>11
  <1> QED BY <1>12 DEF F, d

-----------------------------------------------------------------------------
(* The header.                                                             *)

\* What the program sends: a message with the members of its class.
WellFormed(m) ==
  /\ m = [overlay |-> m.overlay, sequence |-> m.sequence, ttl |-> m.ttl,
          transaction |-> m.transaction, via |-> m.via, dest |-> m.dest,
          code |-> m.code, body |-> m.body]
  /\ Ids(m.via) /\ Ids(m.dest)
  /\ m.code \in Range(MessageCode) /\ OfClass(m.code, m.body)

HeaderFields(m) ==
  <<U32("relo"), Text(m.overlay), Text(m.sequence), U8(1), U8(m.ttl),
    U16(32768), U16(0), U32(0), U32(m.transaction), U32(5000),
    U16(Len(SerializeIds(m.via))), U16(Len(SerializeIds(m.dest))), U16(Len(SerializeOptions))>>

HeaderKinds == <<"u32", "text", "text", "u8", "u8", "u16", "u16", "u32", "u32", "u32",
                 "u16", "u16", "u16">>

LEMMA HeaderFieldsProperties ==
  ASSUME NEW m
  PROVE  /\ Sq(HeaderFields(m)) /\ Len(HeaderFields(m)) = 13
         /\ Sq(HeaderKinds) /\ Len(HeaderKinds) = 13
         /\ \A i \in 1 .. 13 : HeaderFields(m)[i][1] = HeaderKinds[i]
  <1> DEFINE v == Len(SerializeIds(m.via))
             d == Len(SerializeIds(m.dest))
             o == Len(SerializeOptions)
  <1> HIDE DEF v, d, o
  <1> DEFINE F == <<U32("relo"), Text(m.overlay), Text(m.sequence), U8(1), U8(m.ttl),
                    U16(32768), U16(0), U32(0), U32(m.transaction), U32(5000),
                    U16(v), U16(d), U16(o)>>
             S == {U32("relo"), Text(m.overlay), Text(m.sequence), U8(1), U8(m.ttl),
                   U16(32768), U16(0), U32(0), U32(m.transaction), U32(5000),
                   U16(v), U16(d), U16(o)}
  <1>1. HeaderFields(m) = F
    BY DEF HeaderFields, v, d, o
  <1>2. F \in Seq(S) /\ Len(F) = 13
    OBVIOUS
  <1>3. Sq(F)
    <2> HIDE DEF F, S
    <2> QED BY <1>2, SqOf
  <1>4. HeaderKinds \in Seq({"u8", "u16", "u32", "text"}) /\ Len(HeaderKinds) = 13
    BY DEF HeaderKinds
  <1>5. Sq(HeaderKinds)
    BY <1>4, SqOf
  <1>6. \A i \in 1 .. 13 : F[i][1] = HeaderKinds[i]
    BY DEF HeaderKinds, U8, U16, U32, Text
  <1> QED BY <1>1, <1>2, <1>3, <1>4, <1>5, <1>6

LEMMA OptionsProperties ==
  /\ Sq(SerializeOptions) /\ Len(SerializeOptions) = 3
  /\ Sq(<<"u16", "u8", "u16">>) /\ Len(<<"u16", "u8", "u16">>) = 3
  /\ \A i \in 1 .. 3 : SerializeOptions[i][1] = <<"u16", "u8", "u16">>[i]
  <1> DEFINE S == {U16(0), U8(0)}
  <1>1. SerializeOptions \in Seq(S) /\ Len(SerializeOptions) = 3
    BY DEF SerializeOptions
  <1>2. <<"u16", "u8", "u16">> \in Seq({"u8", "u16"}) /\ Len(<<"u16", "u8", "u16">>) = 3
    OBVIOUS
  <1>3. \A i \in 1 .. 3 : SerializeOptions[i][1] = <<"u16", "u8", "u16">>[i]
    BY DEF SerializeOptions, U16, U8
  <1> HIDE DEF S
  <1>4. Sq(SerializeOptions)
    BY <1>1, SqOf
  <1>5. Sq(<<"u16", "u8", "u16">>)
    BY <1>2, SqOf
  <1> QED BY <1>1, <1>2, <1>3, <1>4, <1>5

\* The length of the header's fields, and its parts.
LEMMA HeaderWritten ==
  ASSUME NEW m, WellFormed(m)
  PROVE  LET V == SerializeIds(m.via)  D == SerializeIds(m.dest)
         IN  /\ Sq(SerializeHeader(m))
             /\ Len(V) \in Nat /\ Len(D) \in Nat
             /\ Len(SerializeHeader(m)) = 13 + Len(V) + Len(D) + 3
             /\ \A chunk : Fits(chunk, 1, SerializeHeader(m)) =>
                  /\ Fits(chunk, 1, HeaderFields(m)) /\ Fits(chunk, 14, V)
                  /\ Fits(chunk, 14 + Len(V), D)
                  /\ Fits(chunk, 14 + Len(V) + Len(D), SerializeOptions)
  <1> DEFINE A == HeaderFields(m)
             V == SerializeIds(m.via)
             D == SerializeIds(m.dest)
             O == SerializeOptions
  <1>1. SerializeHeader(m) = A \o V \o D \o O
    BY DEF SerializeHeader, HeaderFields
  <1>2. Sq(V) /\ Sq(D) /\ Sq(A) /\ Sq(O) /\ Len(A) = 13 /\ Len(O) = 3
    BY IdsWritten, HeaderFieldsProperties, OptionsProperties DEF WellFormed
  <1>3. Len(V) \in Nat /\ Len(D) \in Nat
    BY <1>2, SqProperties
  <1> HIDE DEF A, V, D, O
  <1> DEFINE AV == A \o V
             AVD == AV \o D
  <1>4. Sq(AV) /\ Len(AV) = 13 + Len(V)
    <2>1. Sq(A \o V) /\ Len(A \o V) = Len(A) + Len(V)
      BY <1>2, Joined
    <2> QED BY <1>2, <2>1
  <1> HIDE DEF AV
  <1>5. Sq(AVD) /\ Len(AVD) = 13 + Len(V) + Len(D)
    <2>1. Sq(AV \o D) /\ Len(AV \o D) = Len(AV) + Len(D)
      BY <1>2, <1>4, Joined
    <2> QED BY <1>4, <2>1
  <1> HIDE DEF AVD
  <1>6. Sq(AVD \o O) /\ Len(AVD \o O) = 13 + Len(V) + Len(D) + 3
    <2>1. Sq(AVD \o O) /\ Len(AVD \o O) = Len(AVD) + Len(O)
      BY <1>2, <1>5, Joined
    <2> QED BY <1>2, <1>5, <2>1
  <1>7. ASSUME NEW chunk, Fits(chunk, 1, AVD \o O)
        PROVE  /\ Fits(chunk, 1, A) /\ Fits(chunk, 14, V)
               /\ Fits(chunk, 14 + Len(V), D) /\ Fits(chunk, 14 + Len(V) + Len(D), O)
    <2>1. Fits(chunk, 1, AVD) /\ Fits(chunk, 1 + (13 + Len(V) + Len(D)), O)
      BY <1>2, <1>5, <1>7, FitsJoined
    <2>2. Fits(chunk, 1, AV) /\ Fits(chunk, 1 + (13 + Len(V)), D)
      BY <1>2, <1>4, <2>1, FitsJoined DEF AVD
    <2>3. Fits(chunk, 1, A) /\ Fits(chunk, 1 + 13, V)
      BY <1>2, <2>2, FitsJoined DEF AV
    <2>4. 1 + 13 = 14 /\ 1 + (13 + Len(V)) = 14 + Len(V)
          /\ 1 + (13 + Len(V) + Len(D)) = 14 + Len(V) + Len(D)
      BY <1>3
    <2> QED BY <2>1, <2>2, <2>3, <2>4
  <1>8. SerializeHeader(m) = AVD \o O
    BY <1>1 DEF AVD, AV
  <1> QED BY <1>3, <1>6, <1>7, <1>8 DEF A, V, D, O

LEMMA HeaderRead ==
  ASSUME NEW m, WellFormed(m), NEW chunk, Sq(chunk), Fits(chunk, 1, SerializeHeader(m))
  PROVE  LET h == DeSerializeHeader(Cursor(chunk))
         IN  /\ Over(Cursor(chunk), h.cursor, Len(SerializeHeader(m)))
             /\ h.cursor.fate = "reads" =>
                  /\ AllThere(h.cursor)
                  /\ h.overlay = m.overlay /\ h.sequence = m.sequence /\ h.ttl = m.ttl
                  /\ h.transaction = m.transaction /\ h.via = m.via /\ h.dest = m.dest
  <1> DEFINE F == HeaderFields(m)
             V == SerializeIds(m.via)
             D == SerializeIds(m.dest)
             O == SerializeOptions
             nv == Len(V)
             nd == Len(D)
             l == Len(chunk)
             c == Cursor(chunk)
             r == Take(c, HeaderKinds)
             v == DeSerializeIds(r, r.got[11])
             d == DeSerializeIds(v.cursor, r.got[12])
             e == DeSerializeOptions(d.cursor)
             h == DeSerializeHeader(c)
  <1>1. /\ h.cursor = e /\ h.overlay = r.got[2] /\ h.sequence = r.got[3] /\ h.ttl = r.got[5]
        /\ h.transaction = r.got[9] /\ h.via = v.list /\ h.dest = d.list
    BY DEF DeSerializeHeader, HeaderKinds
  <1>2. CursorIn(c, chunk) /\ c.at = 1 /\ c.fate = "reads" /\ c.chunk = chunk
    BY DEF Cursor, CursorIn
  <1>3. /\ nv \in Nat /\ nd \in Nat /\ Len(SerializeHeader(m)) = 13 + nv + nd + 3
        /\ Fits(chunk, 1, F) /\ Fits(chunk, 14, V) /\ Fits(chunk, 14 + nv, D)
        /\ Fits(chunk, 14 + nv + nd, O)
    BY HeaderWritten
  <1>4. l \in Nat
    BY SqProperties
  <1>5. v.cursor.fate = "reads" => r.fate = "reads"
    BY TakeAfter DEF DeSerializeIds
  <1>6. d.cursor.fate = "reads" => v.cursor.fate = "reads"
    BY TakeAfter DEF DeSerializeIds
  <1>7. e.fate = "reads" => d.cursor.fate = "reads"
    BY TakeAfter DEF DeSerializeOptions
  <1>8. e.chunk = chunk
    <2>1. r.chunk = chunk
      BY <1>2, TakeAfter
    <2>2. v.cursor.chunk = r.chunk
      BY TakeAfter DEF DeSerializeIds
    <2>3. d.cursor.chunk = v.cursor.chunk
      BY TakeAfter DEF DeSerializeIds
    <2>4. e.chunk = d.cursor.chunk
      BY TakeAfter DEF DeSerializeOptions
    <2> QED BY <2>1, <2>2, <2>3, <2>4
  <1> HIDE DEF c, r, v, d, e, h
  <1>9. /\ Over(c, r, 13) /\ r.at = 14 /\ CursorIn(r, chunk)
        /\ r.fate = "reads" => /\ 13 <= l
                               /\ \A i \in 1 .. 13 : r.got[i] = F[i][2]
    <2> DEFINE There(i) == c.at + i - 1 <= Len(chunk)
    <2>1. /\ Sq(F) /\ Len(F) = 13 /\ Sq(HeaderKinds) /\ Len(HeaderKinds) = 13
          /\ \A i \in 1 .. 13 : F[i][1] = HeaderKinds[i]
      BY HeaderFieldsProperties
    <2> HIDE DEF F
    <2>2. /\ Over(c, r, 13) /\ r.at = c.at + 13 /\ CursorIn(r, chunk)
          /\ r.fate = "reads" =>
               \A i \in 1 .. 13 :
                 /\ There(i) \/ HeaderKinds[i] \in {"text", "raw"}
                 /\ r.got[i] = IF There(i) THEN F[i][2]
                               ELSE IF HeaderKinds[i] \in {"text", "raw"} THEN <<>> ELSE 0
      <3>1. Fits(chunk, c.at, F)
        BY <1>2, <1>3
      <3>2. Took(c, r, chunk, HeaderKinds, F, 13)
        BY <1>2, <2>1, <3>1, TakePart DEF r
      <3> QED BY <3>2 DEF Took
    <2>3. HeaderKinds[13] = "u16"
      BY DEF HeaderKinds
    <2>4. r.fate = "reads" => 13 <= l
      BY <1>2, <1>4, <2>2, <2>3
    <2>5. 13 <= l => \A i \in 1 .. 13 : There(i)
      BY <1>2, <1>4
    <2> QED BY <1>2, <2>2, <2>4, <2>5
  <1>10. r.fate = "reads" =>
           /\ r.got[2] = m.overlay /\ r.got[3] = m.sequence /\ r.got[5] = m.ttl
           /\ r.got[9] = m.transaction /\ r.got[11] = nv /\ r.got[12] = nd
    BY <1>9 DEF HeaderFields, Text, U8, U16, U32
  <1> HIDE DEF F
  <1>11. r.fate = "reads" =>
           /\ Over(r, v.cursor, nv) /\ CursorIn(v.cursor, chunk) /\ v.cursor.at = 14 + nv
           /\ AllThere(v.cursor) => v.list = m.via
    <2> SUFFICES ASSUME r.fate = "reads"
                 PROVE  /\ Over(r, v.cursor, nv) /\ CursorIn(v.cursor, chunk)
                        /\ v.cursor.at = 14 + nv
                        /\ AllThere(v.cursor) => v.list = m.via
      OBVIOUS
    <2>1. v = DeSerializeIds(r, Len(V)) /\ Fits(chunk, r.at, V) /\ r.at = 14
      BY <1>3, <1>9, <1>10 DEF v
    <2> QED BY <1>9, <2>1, IdsRead DEF WellFormed
  <1>12. v.cursor.fate = "reads" =>
           /\ Over(v.cursor, d.cursor, nd) /\ CursorIn(d.cursor, chunk)
           /\ d.cursor.at = 14 + nv + nd
           /\ AllThere(d.cursor) => d.list = m.dest
    <2> SUFFICES ASSUME v.cursor.fate = "reads"
                 PROVE  /\ Over(v.cursor, d.cursor, nd) /\ CursorIn(d.cursor, chunk)
                        /\ d.cursor.at = 14 + nv + nd
                        /\ AllThere(d.cursor) => d.list = m.dest
      OBVIOUS
    <2>1. r.fate = "reads" /\ CursorIn(v.cursor, chunk) /\ v.cursor.at = 14 + nv
      BY <1>5, <1>11
    <2>2. d = DeSerializeIds(v.cursor, Len(D)) /\ Fits(chunk, v.cursor.at, D)
      BY <1>3, <1>10, <2>1 DEF d
    <2> QED BY <2>1, <2>2, IdsRead DEF WellFormed
  <1>13. d.cursor.fate = "reads" =>
           /\ Over(d.cursor, e, 3) /\ e.at = 14 + nv + nd + 3
           /\ e.fate = "reads" => 14 + nv + nd + 2 <= l
    <2> SUFFICES ASSUME d.cursor.fate = "reads"
                 PROVE  /\ Over(d.cursor, e, 3) /\ e.at = 14 + nv + nd + 3
                        /\ e.fate = "reads" => 14 + nv + nd + 2 <= l
      OBVIOUS
    <2>1. CursorIn(d.cursor, chunk) /\ d.cursor.at = 14 + nv + nd
      BY <1>6, <1>12
    <2> DEFINE K == <<"u16", "u8", "u16">>
               q == d.cursor
    <2>2. /\ Sq(O) /\ Len(O) = 3 /\ Sq(K) /\ Len(K) = 3
          /\ \A i \in 1 .. 3 : O[i][1] = K[i]
      BY OptionsProperties
    <2>3. Fits(chunk, q.at, O) /\ e = Take(q, K)
      BY <1>3, <2>1 DEF e, DeSerializeOptions
    <2>4. K[3] = "u16"
      OBVIOUS
    <2> HIDE DEF K, O, q
    <2>5. /\ Over(q, e, 3) /\ e.at = q.at + 3
          /\ e.fate = "reads" => \A i \in 1 .. 3 : q.at + i - 1 <= Len(chunk) \/ K[i] \in {"text", "raw"}
      <3>1. CursorIn(q, chunk)
        BY <2>1 DEF q
      <3>2. Took(q, e, chunk, K, O, 3)
        BY <2>2, <2>3, <3>1, TakePart
      <3> QED BY <3>2 DEF Took
    <2>6. e.fate = "reads" => q.at + 3 - 1 <= l
      BY <2>4, <2>5
    <2> QED BY <1>3, <1>4, <2>1, <2>5, <2>6 DEF q
  <1> DEFINE n == 13 + nv + nd + 3
  <1>14. e.fate = "reads" =>
           /\ e.at = 1 + n /\ e.at - 1 <= l
           /\ v.list = m.via /\ d.list = m.dest
    <2> SUFFICES ASSUME e.fate = "reads"
                 PROVE  e.at = 1 + n /\ e.at - 1 <= l /\ v.list = m.via /\ d.list = m.dest
      OBVIOUS
    <2>1. /\ d.cursor.fate = "reads" /\ v.cursor.fate = "reads" /\ r.fate = "reads"
          /\ 14 + nv + nd + 2 <= l /\ e.at = 14 + nv + nd + 3
          /\ d.cursor.at = 14 + nv + nd /\ v.cursor.at = 14 + nv
          /\ d.cursor.chunk = chunk /\ v.cursor.chunk = chunk
      BY <1>5, <1>6, <1>7, <1>11, <1>12, <1>13 DEF CursorIn
    <2>2. AllThere(v.cursor) /\ AllThere(d.cursor)
      BY <1>3, <1>4, <2>1 DEF AllThere
    <2> QED BY <1>3, <1>4, <1>11, <1>12, <2>1, <2>2
  <1>15. n <= l => e.fate = "reads"
    <2> SUFFICES ASSUME n <= l PROVE e.fate = "reads"
      OBVIOUS
    <2>1. r.fate = "reads"
      BY <1>2, <1>3, <1>4, <1>9 DEF Over
    <2>2. v.cursor.fate = "reads"
      BY <1>3, <1>4, <1>9, <1>11, <2>1 DEF Over, CursorIn
    <2>3. d.cursor.fate = "reads"
      BY <1>3, <1>4, <1>11, <1>12, <2>1, <2>2 DEF Over, CursorIn
    <2> QED BY <1>3, <1>4, <1>12, <1>13, <2>2, <2>3 DEF Over, CursorIn
  <1>16. Over(c, e, n)
    BY <1>2, <1>4, <1>8, <1>14, <1>15 DEF Over
  <1>17. e.fate = "reads" => AllThere(e) /\ r.fate = "reads"
    BY <1>5, <1>6, <1>7, <1>8, <1>14 DEF AllThere
  <1> QED BY <1>1, <1>3, <1>10, <1>14, <1>16, <1>17 DEF c, h

-----------------------------------------------------------------------------
(* The content.                                                            *)

\* Cursor r is c after it has read what F has behind field k.
TookFrom(c, r, chunk, K, F, k, n) ==
  /\ Over(c, r, n) /\ r.at = c.at + n /\ CursorIn(r, chunk)
  /\ r.got = [i \in 1 .. n |-> r.got[i]]
  /\ r.fate = "reads" =>
       \A i \in 1 .. n :
         /\ c.at + i - 1 <= Len(chunk) \/ K[i] \in {"text", "raw"}
         /\ r.got[i] = IF c.at + i - 1 <= Len(chunk) THEN F[k + i][2]
                       ELSE IF K[i] \in {"text", "raw"} THEN <<>> ELSE 0

LEMMA TakeFrom ==
  ASSUME NEW c, NEW chunk, CursorIn(c, chunk), NEW n \in Nat, NEW k \in Nat, NEW base \in Nat,
         NEW K, NEW F, Sq(K), Sq(F), Len(K) = n, k + n <= Len(F),
         \A i \in 1 .. n : F[k + i][1] = K[i],
         c.at = base + k, Fits(chunk, base, F)
  PROVE  TookFrom(c, Take(c, K), chunk, K, F, k, n)
  <1> DEFINE G == [i \in 1 .. n |-> F[k + i]]
  <1>1. G = [i \in 1 .. n |-> G[i]] /\ \A i \in 1 .. n : G[i] = F[k + i]
    OBVIOUS
  <1> HIDE DEF G
  <1>2. Sq(G) /\ Len(G) = n
    BY <1>1, SqFunction
  <1>3. \A i \in 1 .. n : G[i][1] = K[i]
    BY <1>1
  <1>4. Fits(chunk, c.at, G)
    <2> SUFFICES ASSUME NEW i \in 1 .. n, c.at + i - 1 <= Len(chunk)
                 PROVE  chunk[c.at + i - 1] = G[i]
      BY <1>2 DEF Fits
    <2>1. k + i \in 1 .. Len(F) /\ base + (k + i) - 1 = c.at + i - 1
      BY SqProperties
    <2>2. chunk[base + (k + i) - 1] = F[k + i]
      BY <2>1 DEF Fits
    <2> QED BY <1>1, <2>1, <2>2
  <1>5. Took(c, Take(c, K), chunk, K, G, n)
    BY <1>2, <1>3, <1>4, TakePart
  <1> QED BY <1>1, <1>5 DEF Took, TookFrom

\* Cursor b is c after the code and the n fields of a body.
BodyTook(c, b, chunk, F, n) ==
  /\ Over(c, b, n + 1) /\ CursorIn(b, chunk)
  /\ AllThere(b) => \A i \in 1 .. n : b.got[i] = F[1 + i][2]

LEMMA CodeTaken ==
  ASSUME NEW c, NEW chunk, CursorIn(c, chunk), NEW F, Sq(F), Len(F) >= 1, F[1][1] = "u8",
         Fits(chunk, c.at, F)
  PROVE  TookFrom(c, Take(c, <<"u8">>), chunk, <<"u8">>, F, 0, 1)
  <1>1. <<"u8">> \in Seq({"u8"}) /\ Len(<<"u8">>) = 1
    OBVIOUS
  <1>2. Sq(<<"u8">>)
    BY <1>1, SqOf
  <1>3. \A i \in 1 .. 1 : F[0 + i][1] = <<"u8">>[i]
    OBVIOUS
  <1>4. c.at \in Nat /\ c.at = c.at + 0 /\ 0 + 1 <= Len(F) /\ 0 \in Nat /\ 1 \in Nat
    BY DEF CursorIn
  <1> DEFINE K == <<"u8">>
  <1> HIDE DEF K
  <1>5. Sq(K) /\ Len(K) = 1 /\ \A i \in 1 .. 1 : F[0 + i][1] = K[i]
    BY <1>1, <1>2, <1>3 DEF K
  <1>6. TookFrom(c, Take(c, K), chunk, K, F, 0, 1)
    BY <1>4, <1>5, TakeFrom
  <1> QED BY <1>6 DEF K

LEMMA BodyTaken ==
  ASSUME NEW c, NEW chunk, CursorIn(c, chunk), NEW F, Sq(F), NEW n \in Nat, Len(F) = n + 1,
         NEW K, Sq(K), Len(K) = n, F[1][1] = "u8", \A i \in 1 .. n : F[1 + i][1] = K[i],
         Fits(chunk, c.at, F)
  PROVE  BodyTook(c, Take(Take(c, <<"u8">>), K), chunk, F, n)
  <1> DEFINE r == Take(c, <<"u8">>)
             b == Take(r, K)
  <1>1. TookFrom(c, r, chunk, <<"u8">>, F, 0, 1)
    BY CodeTaken
  <1>2. Len(chunk) \in Nat /\ c.at \in Nat
    BY SqProperties DEF CursorIn
  <1>3. b.fate = "reads" => r.fate = "reads"
    BY TakeAfter
  <1> HIDE DEF r
  <1>4. CursorIn(r, chunk) /\ r.at = c.at + 1 /\ Over(c, r, 1)
    BY <1>1 DEF TookFrom
  <1>5. TookFrom(r, b, chunk, K, F, 1, n)
    <2>1. 1 \in Nat /\ 1 + n <= Len(F)
      OBVIOUS
    <2> QED BY <1>2, <1>4, <2>1, TakeFrom
  <1> HIDE DEF b
  <1>6. Over(r, b, n) /\ CursorIn(b, chunk)
    BY <1>5 DEF TookFrom
  <1>7. Over(c, b, n + 1)
    <2>1. b.chunk = r.chunk
      BY <1>4, <1>6 DEF CursorIn
    <2>2. Over(c, b, 1 + n)
      BY <1>3, <1>4, <1>6, <2>1, OverTwo
    <2> QED BY <2>2
  <1>8. AllThere(b) => \A i \in 1 .. n : b.got[i] = F[1 + i][2]
    <2> SUFFICES ASSUME AllThere(b), NEW i \in 1 .. n PROVE b.got[i] = F[1 + i][2]
      OBVIOUS
    <2>1. b.fate = "reads" /\ r.at + i - 1 <= Len(chunk)
      BY SMTT(30), <1>2, <1>4, <1>5 DEF TookFrom, AllThere, CursorIn
    <2> QED BY <1>5, <2>1 DEF TookFrom
  <1> QED BY <1>6, <1>7, <1>8 DEF BodyTook, b, r

LEMMA DecoderAfter ==
  ASSUME NEW code, NEW c
  PROVE  /\ Decoder(code, c).cursor.chunk = c.chunk
         /\ Decoder(code, c).cursor.fate = "reads" => c.fate = "reads"
  BY TakeAfter DEF Decoder, Decoded, DeSerializeAttach, DeSerializeJoinRequest,
       DeSerializeJoinAnswer, DeSerializeLeaveRequest, DeSerializeUpdateRequest,
       DeSerializeUpdateAnswer, DeSerializePingRequest, DeSerializePingAnswer

LEMMA Tuples ==
  ASSUME NEW a, NEW b, NEW c, NEW d
  PROVE  /\ Sq(<<a>>) /\ Len(<<a>>) = 1
         /\ Sq(<<a, b>>) /\ Len(<<a, b>>) = 2
         /\ Sq(<<a, b, c>>) /\ Len(<<a, b, c>>) = 3
         /\ Sq(<<a, b, c, d>>) /\ Len(<<a, b, c, d>>) = 4
  <1> DEFINE S == {a, b, c, d}
  <1>1. <<a>> \in Seq(S) /\ <<a, b>> \in Seq(S) /\ <<a, b, c>> \in Seq(S) /\ <<a, b, c, d>> \in Seq(S)
    OBVIOUS
  <1> HIDE DEF S
  <1>2. Sq(<<a>>) /\ Sq(<<a, b>>) /\ Sq(<<a, b, c>>) /\ Sq(<<a, b, c, d>>)
    BY <1>1, SqOf
  <1> QED BY <1>2

\* A content that is a code and some fields, and the body read from it.
BodyRead(c, chunk, m, d) ==
  LET n == Len(SerializeContent(m)) IN
  /\ Sq(SerializeContent(m)) /\ n \in Nat /\ n >= 1
  /\ SerializeContent(m)[1] = U8(m.code)
  /\ Over(c, d.cursor, n) /\ CursorIn(d.cursor, chunk)
  /\ AllThere(d.cursor) => d.body = m.body

LEMMA DecoderReads ==
  ASSUME NEW m, m.code \in Range(MessageCode), OfClass(m.code, m.body),
         NEW c, NEW chunk, CursorIn(c, chunk), Fits(chunk, c.at, SerializeContent(m))
  PROVE  BodyRead(c, chunk, m, Decoder(m.code, Take(c, <<"u8">>)))
  <1> DEFINE r == Take(c, <<"u8">>)
             F == SerializeContent(m)
  <1>0. m.code \in {3, 4, 15, 16, 17, 19, 20, 23, 24}
    BY DEF Range, MessageCode
  <1>body. ASSUME NEW n \in Nat, NEW K, Sq(K), Len(K) = n, Sq(F), Len(F) = n + 1, F[1][1] = "u8",
                  \A i \in 1 .. n : F[1 + i][1] = K[i]
           PROVE  BodyTook(c, Take(r, K), chunk, F, n)
    <2>1. Fits(chunk, c.at, F)
      OBVIOUS
    <2> HIDE DEF F
    <2> QED BY <1>body, <2>1, BodyTaken
  <1>1. CASE m.code \in {MessageCode.attach_req, MessageCode.attach_ans}
    <2> DEFINE K == <<"text", "u8">>
               x == Text(m.body.candidates)
               y == U8(IF m.body.sendUpdate THEN 1 ELSE 0)
               G == <<U8(m.code), x, y>>
               b == Take(r, K)
    <2>1. F = G /\ Decoder(m.code, r) = DeSerializeAttach(r)
      BY <1>0, <1>1 DEF SerializeContent, SerializeAttach, Decoder, MessageCode
    <2>2. Sq(G) /\ Len(G) = 3 /\ Sq(K) /\ Len(K) = 2
      <3> HIDE DEF x, y
      <3> QED BY Tuples
    <2>3. G[1] = U8(m.code) /\ G[1][1] = "u8" /\ \A i \in 1 .. 2 : G[1 + i][1] = K[i]
      BY DEF U8, U32, Text
    <2>4. BodyTook(c, b, chunk, G, 2)
      <3> DEFINE n == 2
      <3>1. n \in Nat /\ Len(G) = n + 1 /\ Len(K) = n /\ \A i \in 1 .. n : G[1 + i][1] = K[i]
        BY <2>2, <2>3
      <3> HIDE DEF K, G, n, F, r
      <3>2. BodyTook(c, Take(r, K), chunk, G, n)
        BY <1>body, <2>1, <2>2, <2>3, <3>1
      <3> QED BY <3>2 DEF n
    <2>5. AllThere(b) => DeSerializeAttach(r).body = m.body
      <3> SUFFICES ASSUME AllThere(b) PROVE DeSerializeAttach(r).body = m.body
        OBVIOUS
      <3>1. b.got[1] = G[1 + 1][2] /\ b.got[2] = G[1 + 2][2]
        <4> HIDE DEF G, b
        <4> QED BY <2>4 DEF BodyTook
      <3>2. b.got[1] = x[2] /\ b.got[2] = y[2]
        BY <3>1
      <3>3. OfClass(m.code, m.body)
        OBVIOUS
      <3> HIDE DEF b
      <3> QED BY <1>0, <1>1, <3>2, <3>3 DEF DeSerializeAttach, Decoded, Empty, OfClass, MessageCode,
                 Text, U8, U32, Json, Parse, b
    <2>6. DeSerializeAttach(r).cursor = b
      BY DEF DeSerializeAttach, Decoded
    <2> HIDE DEF G, b
    <2> QED BY <2>1, <2>2, <2>3, <2>4, <2>5, <2>6 DEF BodyRead, BodyTook
  <1>2. CASE m.code = MessageCode.join_req
    <2> DEFINE K == <<"text">>
               x == Text(m.body.localNodeID)
               G == <<U8(m.code), x>>
               b == Take(r, K)
    <2>1. F = G /\ Decoder(m.code, r) = DeSerializeJoinRequest(r)
      BY <1>0, <1>2 DEF SerializeContent, SerializeJoinRequest, Decoder, MessageCode
    <2>2. Sq(G) /\ Len(G) = 2 /\ Sq(K) /\ Len(K) = 1
      <3> HIDE DEF x
      <3> QED BY Tuples
    <2>3. G[1] = U8(m.code) /\ G[1][1] = "u8" /\ \A i \in 1 .. 1 : G[1 + i][1] = K[i]
      BY DEF U8, U32, Text
    <2>4. BodyTook(c, b, chunk, G, 1)
      <3> DEFINE n == 1
      <3>1. n \in Nat /\ Len(G) = n + 1 /\ Len(K) = n /\ \A i \in 1 .. n : G[1 + i][1] = K[i]
        BY <2>2, <2>3
      <3> HIDE DEF K, G, n, F, r
      <3>2. BodyTook(c, Take(r, K), chunk, G, n)
        BY <1>body, <2>1, <2>2, <2>3, <3>1
      <3> QED BY <3>2 DEF n
    <2>5. AllThere(b) => DeSerializeJoinRequest(r).body = m.body
      <3> SUFFICES ASSUME AllThere(b) PROVE DeSerializeJoinRequest(r).body = m.body
        OBVIOUS
      <3>1. b.got[1] = G[1 + 1][2]
        <4> HIDE DEF G, b
        <4> QED BY <2>4 DEF BodyTook
      <3>2. b.got[1] = x[2]
        BY <3>1
      <3>3. OfClass(m.code, m.body)
        OBVIOUS
      <3> HIDE DEF b
      <3> QED BY <1>0, <1>2, <3>2, <3>3 DEF DeSerializeJoinRequest, Decoded, Empty, OfClass, MessageCode,
                 Text, U8, U32, Json, Parse, b
    <2>6. DeSerializeJoinRequest(r).cursor = b
      BY DEF DeSerializeJoinRequest, Decoded
    <2> HIDE DEF G, b
    <2> QED BY <2>1, <2>2, <2>3, <2>4, <2>5, <2>6 DEF BodyRead, BodyTook
  <1>3. CASE m.code = MessageCode.join_ans
    <2> DEFINE K == <<"text">>
               x == Text(<<>>)
               G == <<U8(m.code), x>>
               b == Take(r, K)
    <2>1. F = G /\ Decoder(m.code, r) = DeSerializeJoinAnswer(r)
      BY <1>0, <1>3 DEF SerializeContent, SerializeJoinAnswer, Decoder, MessageCode
    <2>2. Sq(G) /\ Len(G) = 2 /\ Sq(K) /\ Len(K) = 1
      <3> HIDE DEF x
      <3> QED BY Tuples
    <2>3. G[1] = U8(m.code) /\ G[1][1] = "u8" /\ \A i \in 1 .. 1 : G[1 + i][1] = K[i]
      BY DEF U8, U32, Text
    <2>4. BodyTook(c, b, chunk, G, 1)
      <3> DEFINE n == 1
      <3>1. n \in Nat /\ Len(G) = n + 1 /\ Len(K) = n /\ \A i \in 1 .. n : G[1 + i][1] = K[i]
        BY <2>2, <2>3
      <3> HIDE DEF K, G, n, F, r
      <3>2. BodyTook(c, Take(r, K), chunk, G, n)
        BY <1>body, <2>1, <2>2, <2>3, <3>1
      <3> QED BY <3>2 DEF n
    <2>5. AllThere(b) => DeSerializeJoinAnswer(r).body = m.body
      <3> SUFFICES ASSUME AllThere(b) PROVE DeSerializeJoinAnswer(r).body = m.body
        OBVIOUS
      <3>1. b.got[1] = G[1 + 1][2]
        <4> HIDE DEF G, b
        <4> QED BY <2>4 DEF BodyTook
      <3>2. b.got[1] = x[2]
        BY <3>1
      <3>3. OfClass(m.code, m.body)
        OBVIOUS
      <3> HIDE DEF b
      <3> QED BY <1>0, <1>3, <3>2, <3>3 DEF DeSerializeJoinAnswer, Decoded, Empty, OfClass, MessageCode,
                 Text, U8, U32, Json, Parse, b
    <2>6. DeSerializeJoinAnswer(r).cursor = b
      BY DEF DeSerializeJoinAnswer, Decoded
    <2> HIDE DEF G, b
    <2> QED BY <2>1, <2>2, <2>3, <2>4, <2>5, <2>6 DEF BodyRead, BodyTook
  <1>4. CASE m.code = MessageCode.leave_req
    <2> DEFINE K == <<"u8", "text", "text">>
               x == U8(m.body.type)
               y == Text(m.body.id)
               z == Text(Json(m.body.list))
               G == <<U8(m.code), x, y, z>>
               b == Take(r, K)
    <2>1. F = G /\ Decoder(m.code, r) = DeSerializeLeaveRequest(r)
      BY <1>0, <1>4 DEF SerializeContent, SerializeLeaveRequest, Decoder, MessageCode
    <2>2. Sq(G) /\ Len(G) = 4 /\ Sq(K) /\ Len(K) = 3
      <3> HIDE DEF x, y, z
      <3> QED BY Tuples
    <2>3. G[1] = U8(m.code) /\ G[1][1] = "u8" /\ \A i \in 1 .. 3 : G[1 + i][1] = K[i]
      BY DEF U8, U32, Text
    <2>4. BodyTook(c, b, chunk, G, 3)
      <3> DEFINE n == 3
      <3>1. n \in Nat /\ Len(G) = n + 1 /\ Len(K) = n /\ \A i \in 1 .. n : G[1 + i][1] = K[i]
        BY <2>2, <2>3
      <3> HIDE DEF K, G, n, F, r
      <3>2. BodyTook(c, Take(r, K), chunk, G, n)
        BY <1>body, <2>1, <2>2, <2>3, <3>1
      <3> QED BY <3>2 DEF n
    <2>5. AllThere(b) => DeSerializeLeaveRequest(r).body = m.body
      <3> SUFFICES ASSUME AllThere(b) PROVE DeSerializeLeaveRequest(r).body = m.body
        OBVIOUS
      <3>1. b.got[1] = G[1 + 1][2] /\ b.got[2] = G[1 + 2][2] /\ b.got[3] = G[1 + 3][2]
        <4> HIDE DEF G, b
        <4> QED BY <2>4 DEF BodyTook
      <3>2. b.got[1] = x[2] /\ b.got[2] = y[2] /\ b.got[3] = z[2]
        BY <3>1
      <3>3. OfClass(m.code, m.body)
        OBVIOUS
      <3> HIDE DEF b
      <3> QED BY <1>0, <1>4, <3>2, <3>3 DEF DeSerializeLeaveRequest, Decoded, Empty, OfClass, MessageCode,
                 Text, U8, U32, Json, Parse, b
    <2>6. DeSerializeLeaveRequest(r).cursor = b
      BY DEF DeSerializeLeaveRequest, Decoded
    <2> HIDE DEF G, b
    <2> QED BY <2>1, <2>2, <2>3, <2>4, <2>5, <2>6 DEF BodyRead, BodyTook
  <1>5. CASE m.code = MessageCode.update_ans
    <2> DEFINE K == <<"text", "text", "text">>
               x == Text(Json(m.body.predecessors))
               y == Text(Json(m.body.successors))
               z == Text(m.body.startTime)
               G == <<U8(m.code), x, y, z>>
               b == Take(r, K)
    <2>1. F = G /\ Decoder(m.code, r) = DeSerializeUpdateAnswer(r)
      BY <1>0, <1>5 DEF SerializeContent, SerializeUpdateAnswer, Decoder, MessageCode
    <2>2. Sq(G) /\ Len(G) = 4 /\ Sq(K) /\ Len(K) = 3
      <3> HIDE DEF x, y, z
      <3> QED BY Tuples
    <2>3. G[1] = U8(m.code) /\ G[1][1] = "u8" /\ \A i \in 1 .. 3 : G[1 + i][1] = K[i]
      BY DEF U8, U32, Text
    <2>4. BodyTook(c, b, chunk, G, 3)
      <3> DEFINE n == 3
      <3>1. n \in Nat /\ Len(G) = n + 1 /\ Len(K) = n /\ \A i \in 1 .. n : G[1 + i][1] = K[i]
        BY <2>2, <2>3
      <3> HIDE DEF K, G, n, F, r
      <3>2. BodyTook(c, Take(r, K), chunk, G, n)
        BY <1>body, <2>1, <2>2, <2>3, <3>1
      <3> QED BY <3>2 DEF n
    <2>5. AllThere(b) => DeSerializeUpdateAnswer(r).body = m.body
      <3> SUFFICES ASSUME AllThere(b) PROVE DeSerializeUpdateAnswer(r).body = m.body
        OBVIOUS
      <3>1. b.got[1] = G[1 + 1][2] /\ b.got[2] = G[1 + 2][2] /\ b.got[3] = G[1 + 3][2]
        <4> HIDE DEF G, b
        <4> QED BY <2>4 DEF BodyTook
      <3>2. b.got[1] = x[2] /\ b.got[2] = y[2] /\ b.got[3] = z[2]
        BY <3>1
      <3>3. OfClass(m.code, m.body)
        OBVIOUS
      <3> HIDE DEF b
      <3> QED BY <1>0, <1>5, <3>2, <3>3 DEF DeSerializeUpdateAnswer, Decoded, Empty, OfClass, MessageCode,
                 Text, U8, U32, Json, Parse, b
    <2>6. DeSerializeUpdateAnswer(r).cursor = b
      BY DEF DeSerializeUpdateAnswer, Decoded
    <2> HIDE DEF G, b
    <2> QED BY <2>1, <2>2, <2>3, <2>4, <2>5, <2>6 DEF BodyRead, BodyTook
  <1>6. CASE m.code = MessageCode.ping_req
    <2> DEFINE K == <<"text", "u32">>
               x == Text(Json(m.body.ips))
               y == U32(m.body.port)
               G == <<U8(m.code), x, y>>
               b == Take(r, K)
    <2>1. F = G /\ Decoder(m.code, r) = DeSerializePingRequest(r)
      BY <1>0, <1>6 DEF SerializeContent, SerializePingRequest, Decoder, MessageCode
    <2>2. Sq(G) /\ Len(G) = 3 /\ Sq(K) /\ Len(K) = 2
      <3> HIDE DEF x, y
      <3> QED BY Tuples
    <2>3. G[1] = U8(m.code) /\ G[1][1] = "u8" /\ \A i \in 1 .. 2 : G[1 + i][1] = K[i]
      BY DEF U8, U32, Text
    <2>4. BodyTook(c, b, chunk, G, 2)
      <3> DEFINE n == 2
      <3>1. n \in Nat /\ Len(G) = n + 1 /\ Len(K) = n /\ \A i \in 1 .. n : G[1 + i][1] = K[i]
        BY <2>2, <2>3
      <3> HIDE DEF K, G, n, F, r
      <3>2. BodyTook(c, Take(r, K), chunk, G, n)
        BY <1>body, <2>1, <2>2, <2>3, <3>1
      <3> QED BY <3>2 DEF n
    <2>5. AllThere(b) => DeSerializePingRequest(r).body = m.body
      <3> SUFFICES ASSUME AllThere(b) PROVE DeSerializePingRequest(r).body = m.body
        OBVIOUS
      <3>1. b.got[1] = G[1 + 1][2] /\ b.got[2] = G[1 + 2][2]
        <4> HIDE DEF G, b
        <4> QED BY <2>4 DEF BodyTook
      <3>2. b.got[1] = x[2] /\ b.got[2] = y[2]
        BY <3>1
      <3>3. OfClass(m.code, m.body)
        OBVIOUS
      <3> HIDE DEF b
      <3> QED BY <1>0, <1>6, <3>2, <3>3 DEF DeSerializePingRequest, Decoded, Empty, OfClass, MessageCode,
                 Text, U8, U32, Json, Parse, b
    <2>6. DeSerializePingRequest(r).cursor = b
      BY DEF DeSerializePingRequest, Decoded
    <2> HIDE DEF G, b
    <2> QED BY <2>1, <2>2, <2>3, <2>4, <2>5, <2>6 DEF BodyRead, BodyTook
  <1>7. CASE m.code = MessageCode.ping_ans
    <2> DEFINE K == <<"u32", "text">>
               x == U32(m.body.number)
               y == Text(m.body.time)
               G == <<U8(m.code), x, y>>
               b == Take(r, K)
    <2>1. F = G /\ Decoder(m.code, r) = DeSerializePingAnswer(r)
      BY <1>0, <1>7 DEF SerializeContent, SerializePingAnswer, Decoder, MessageCode
    <2>2. Sq(G) /\ Len(G) = 3 /\ Sq(K) /\ Len(K) = 2
      <3> HIDE DEF x, y
      <3> QED BY Tuples
    <2>3. G[1] = U8(m.code) /\ G[1][1] = "u8" /\ \A i \in 1 .. 2 : G[1 + i][1] = K[i]
      BY DEF U8, U32, Text
    <2>4. BodyTook(c, b, chunk, G, 2)
      <3> DEFINE n == 2
      <3>1. n \in Nat /\ Len(G) = n + 1 /\ Len(K) = n /\ \A i \in 1 .. n : G[1 + i][1] = K[i]
        BY <2>2, <2>3
      <3> HIDE DEF K, G, n, F, r
      <3>2. BodyTook(c, Take(r, K), chunk, G, n)
        BY <1>body, <2>1, <2>2, <2>3, <3>1
      <3> QED BY <3>2 DEF n
    <2>5. AllThere(b) => DeSerializePingAnswer(r).body = m.body
      <3> SUFFICES ASSUME AllThere(b) PROVE DeSerializePingAnswer(r).body = m.body
        OBVIOUS
      <3>1. b.got[1] = G[1 + 1][2] /\ b.got[2] = G[1 + 2][2]
        <4> HIDE DEF G, b
        <4> QED BY <2>4 DEF BodyTook
      <3>2. b.got[1] = x[2] /\ b.got[2] = y[2]
        BY <3>1
      <3>3. OfClass(m.code, m.body)
        OBVIOUS
      <3> HIDE DEF b
      <3> QED BY <1>0, <1>7, <3>2, <3>3 DEF DeSerializePingAnswer, Decoded, Empty, OfClass, MessageCode,
                 Text, U8, U32, Json, Parse, b
    <2>6. DeSerializePingAnswer(r).cursor = b
      BY DEF DeSerializePingAnswer, Decoded
    <2> HIDE DEF G, b
    <2> QED BY <2>1, <2>2, <2>3, <2>4, <2>5, <2>6 DEF BodyRead, BodyTook
  <1>8. CASE m.code = MessageCode.update_req
    <2>1. F = <<U8(m.code)>> /\ Decoder(m.code, r) = Decoded(r, Empty)
      BY <1>0, <1>8 DEF SerializeContent, SerializeUpdateRequest, Decoder, MessageCode,
         DeSerializeUpdateRequest
    <2>2. Sq(F) /\ Len(F) = 1 /\ F[1] = U8(m.code) /\ F[1][1] = "u8"
      <3> DEFINE x == U8(m.code)
      <3>1. x[1] = "u8"
        BY DEF U8
      <3> HIDE DEF x, F
      <3> QED BY <2>1, <3>1, Tuples DEF x
    <2>3. TookFrom(c, r, chunk, <<"u8">>, F, 0, 1)
      BY <2>2, CodeTaken
    <2>4. m.body = Empty
      BY <1>0, <1>8 DEF OfClass, Empty, MessageCode
    <2> DEFINE d == Decoder(m.code, r)
    <2>5. d.cursor = r /\ d.body = m.body
      BY <2>1, <2>4 DEF Decoded
    <2>6. Over(c, r, 1) /\ CursorIn(r, chunk)
      BY <2>3 DEF TookFrom
    <2> HIDE DEF F, r, d
    <2>7. Over(c, d.cursor, Len(F)) /\ CursorIn(d.cursor, chunk)
      BY <2>2, <2>5, <2>6
    <2>8. BodyRead(c, chunk, m, d)
      BY <2>2, <2>5, <2>7 DEF BodyRead, F
    <2> QED BY <2>8 DEF d, r
  <1> QED BY <1>0, <1>1, <1>2, <1>3, <1>4, <1>5, <1>6, <1>7, <1>8 DEF MessageCode

LEMMA ContentRead ==
  ASSUME NEW m, m.code \in Range(MessageCode), OfClass(m.code, m.body),
         NEW c, NEW chunk, CursorIn(c, chunk), Fits(chunk, c.at, SerializeContent(m))
  PROVE  LET d == DeSerializeContent(c)
         IN  /\ Sq(SerializeContent(m)) /\ Len(SerializeContent(m)) \in Nat
             /\ Len(SerializeContent(m)) >= 1 /\ SerializeContent(m)[1] = U8(m.code)
             /\ Over(c, d.cursor, Len(SerializeContent(m)))
             /\ d.cursor.fate = "reads" => CursorIn(d.cursor, chunk) /\ d.code = m.code
             /\ AllThere(d.cursor) => d.body = m.body
  <1> DEFINE r == Take(c, <<"u8">>)
             d == DeSerializeContent(c)
             b == Decoder(m.code, r)
             F == SerializeContent(m)
             n == Len(F)
  <1>1. BodyRead(c, chunk, m, b)
    BY DecoderReads
  <1> HIDE DEF b, r
  <1>2. /\ Sq(F) /\ n \in Nat /\ n >= 1 /\ F[1] = U8(m.code)
        /\ Over(c, b.cursor, n) /\ CursorIn(b.cursor, chunk)
        /\ AllThere(b.cursor) => b.body = m.body
    BY <1>1 DEF BodyRead
  <1>3. Fits(chunk, c.at, F)
    OBVIOUS
  <1> HIDE DEF F
  <1>4. TookFrom(c, r, chunk, <<"u8">>, F, 0, 1)
    <2>1. F[1][1] = "u8"
      BY <1>2 DEF U8
    <2> QED BY <1>2, <1>3, <2>1, CodeTaken DEF r
  <1>5. r.fate = "reads" => r.got[1] = m.code
    <2>1. r.fate = "reads" =>
            /\ c.at + 1 - 1 <= Len(chunk) \/ <<"u8">>[1] \in {"text", "raw"}
            /\ c.at + 1 - 1 <= Len(chunk) => r.got[1] = F[0 + 1][2]
      BY <1>4 DEF TookFrom
    <2>2. <<"u8">>[1] = "u8"
      OBVIOUS
    <2> QED BY <1>2, <2>1, <2>2 DEF U8
  <1>6. /\ d.cursor = Decoder(r.got[1], r).cursor /\ d.body = Decoder(r.got[1], r).body
        /\ d.code = r.got[1]
    BY DEF DeSerializeContent, r
  <1> HIDE DEF d
  <1>7. d.cursor.chunk = r.chunk /\ (d.cursor.fate = "reads" => r.fate = "reads")
    BY <1>6, DecoderAfter
  <1>8. CASE r.fate = "reads"
    <2>1. d.cursor = b.cursor /\ d.body = b.body /\ d.code = m.code
      BY <1>5, <1>6, <1>8 DEF b
    <2> HIDE DEF n
    <2> QED BY <1>2, <2>1 DEF d, F, n
  <1>9. CASE r.fate # "reads"
    <2>1. d.cursor.fate # "reads" /\ ~AllThere(d.cursor)
      BY <1>7, <1>9 DEF AllThere
    <2>2. Over(c, r, 1) /\ CursorIn(r, chunk)
      BY <1>4 DEF TookFrom
    <2>3. ~(c.fate = "reads" /\ c.at + n - 1 <= Len(c.chunk))
      <3>1. Len(chunk) \in Nat /\ c.at \in Nat /\ c.chunk = chunk
        BY SqProperties DEF CursorIn
      <3> HIDE DEF n
      <3> QED BY <1>2, <1>9, <2>2, <3>1 DEF Over
    <2>4. d.cursor.chunk = c.chunk
      BY <1>7, <2>2 DEF CursorIn, Over
    <2>5. Over(c, d.cursor, n)
      <3> HIDE DEF n
      <3> QED BY <2>1, <2>3, <2>4 DEF Over
    <2> QED BY <1>2, <2>1, <2>5 DEF d, F
  <1> QED BY <1>8, <1>9

-----------------------------------------------------------------------------
(* The security block.                                                     *)

LEMMA SecBlockWritten ==
  ASSUME NEW m, NEW s
  PROVE  LET B == SerializeSecBlock(m, s)
         IN  /\ Sq(B) /\ Len(B) = 9
             /\ B[1] = U8(1) /\ B[2] = Text(Pem(s)) /\ B[3] = U8(2) /\ B[4] = U8(1)
             /\ B[5] = U8(1) /\ B[6] = U8(2) /\ B[7] = Text(Sha1(Pem(s))) /\ B[8] = U16(1)
             /\ B[9] = Raw(ComputeSignature(m, s))
  <1> DEFINE a == U8(1)
             b == Text(Pem(s))
             c == U8(2)
             d == Text(Sha1(Pem(s)))
             e == U16(1)
             f == Raw(ComputeSignature(m, s))
             S == {a, b, c, d, e, f}
             B == <<a, b>> \o (<<c, a>> \o <<a, c, d>> \o <<e, f>>)
  <1>1. SerializeSecBlock(m, s) = B
    BY DEF SerializeSecBlock, SerializeSignature, SerializeIdentity, HashAlgorithm,
           SignatureAlgorithm, SignerIdentityType
  <1> HIDE DEF a, b, c, d, e, f
  <1>2. B \in Seq(S) /\ Len(B) = 9
    OBVIOUS
  <1>3. /\ B[1] = a /\ B[2] = b /\ B[3] = c /\ B[4] = a /\ B[5] = a /\ B[6] = c /\ B[7] = d
        /\ B[8] = e /\ B[9] = f
    OBVIOUS
  <1>4. Sq(B)
    <2> HIDE DEF B, S
    <2> QED BY <1>2, SqOf
  <1> QED BY <1>1, <1>2, <1>3, <1>4 DEF a, b, c, d, e, f

LEMMA OneKind ==
  ASSUME NEW kind
  PROVE  [i \in 1 .. 1 |-> kind] = <<kind>>
  OBVIOUS

LEMMA SecBlockRead ==
  ASSUME NEW m, NEW s, NEW c, NEW chunk, CursorIn(c, chunk),
         Fits(chunk, c.at, SerializeSecBlock(m, s))
  PROVE  LET b == DeSerializeSecBlock(c)
         IN  /\ b.cursor.fate = "reads" =>
                  /\ c.fate = "reads" /\ c.at + 7 <= Len(chunk)
                  /\ b.certificates = <<Pem(s)>>
                  /\ b.digest = <<IF c.at + 8 <= Len(chunk) THEN ComputeSignature(m, s) ELSE <<>>>>
             /\ c.fate = "reads" /\ c.at + 8 <= Len(chunk) => b.cursor.fate = "reads"
  <1> DEFINE F == SerializeSecBlock(m, s)
             K1 == <<"u8">>
             K2 == <<"text">>
             K3 == <<"u8", "u8">>
             K4 == <<"u8", "u8", "text">>
             K5 == <<"u16">>
             K6 == <<"raw">>
             c1 == Take(c, K1)
             c2 == Take(c1, [i \in 1 .. c1.got[1] |-> "text"])
             c3 == Take(c2, K3)
             c4 == Take(c3, K4)
             c5 == Take(c4, K5)
             c6 == Take(c5, [i \in 1 .. c5.got[1] |-> "raw"])
             b == DeSerializeSecBlock(c)
  <1>1. b.cursor = c6 /\ b.certificates = c2.got /\ b.digest = c6.got
    BY DEF DeSerializeSecBlock, DeSerializeSignature, DeSerializeIdentity
  <1>2. /\ Sq(F) /\ Len(F) = 9 /\ F[1] = U8(1) /\ F[2] = Text(Pem(s)) /\ F[3] = U8(2)
        /\ F[4] = U8(1) /\ F[5] = U8(1) /\ F[6] = U8(2) /\ F[7] = Text(Sha1(Pem(s)))
        /\ F[8] = U16(1) /\ F[9] = Raw(ComputeSignature(m, s))
    BY SecBlockWritten
  <1>3. /\ Sq(K1) /\ Len(K1) = 1 /\ Sq(K2) /\ Len(K2) = 1 /\ Sq(K3) /\ Len(K3) = 2
        /\ Sq(K4) /\ Len(K4) = 3 /\ Sq(K5) /\ Len(K5) = 1 /\ Sq(K6) /\ Len(K6) = 1
    BY Tuples
  <1>4. Fits(chunk, c.at, F)
    OBVIOUS
  <1>5. Len(chunk) \in Nat /\ c.at \in Nat
    BY SqProperties DEF CursorIn
  <1> HIDE DEF F, b
  <1>6. /\ \A i \in 1 .. 1 : F[0 + i][1] = K1[i]
        /\ \A i \in 1 .. 1 : F[1 + i][1] = K2[i]
        /\ \A i \in 1 .. 2 : F[2 + i][1] = K3[i]
        /\ \A i \in 1 .. 3 : F[4 + i][1] = K4[i]
        /\ \A i \in 1 .. 1 : F[7 + i][1] = K5[i]
        /\ \A i \in 1 .. 1 : F[8 + i][1] = K6[i]
    <2>1. /\ F[1][1] = "u8" /\ F[2][1] = "text" /\ F[3][1] = "u8" /\ F[4][1] = "u8"
          /\ F[5][1] = "u8" /\ F[6][1] = "u8" /\ F[7][1] = "text" /\ F[8][1] = "u16"
          /\ F[9][1] = "raw"
      BY <1>2 DEF U8, U16, Text, Raw
    <2> QED BY <2>1
  <1>take. ASSUME NEW q, CursorIn(q, chunk), NEW n \in Nat, NEW k \in Nat, q.at = c.at + k,
                  NEW K, Sq(K), Len(K) = n, k + n <= 9, \A i \in 1 .. n : F[k + i][1] = K[i]
           PROVE  TookFrom(q, Take(q, K), chunk, K, F, k, n)
    BY <1>2, <1>4, <1>5, <1>take, TakeFrom
  <1>7. TookFrom(c, c1, chunk, K1, F, 0, 1)
    <2> DEFINE n == 1
               k == 0
    <2>n. n \in Nat /\ k \in Nat /\ Len(K1) = n /\ k + n <= 9
      BY <1>3
    <2>k. \A i \in 1 .. n : F[k + i][1] = K1[i]
      BY <1>6
    <2>q. CursorIn(c, chunk) /\ c.at = c.at + k
      BY <1>5
    <2> HIDE DEF K1, n, k
    <2>t. TookFrom(c, Take(c, K1), chunk, K1, F, k, n)
      BY <1>3, <1>take, <2>n, <2>k, <2>q
    <2> QED BY <2>t DEF n, k
  <1>8. /\ c2.fate = "reads" => c1.fate = "reads"
        /\ c3.fate = "reads" => c2.fate = "reads"
        /\ c4.fate = "reads" => c3.fate = "reads"
        /\ c5.fate = "reads" => c4.fate = "reads"
        /\ c6.fate = "reads" => c5.fate = "reads"
        /\ c1.fate = "reads" => c.fate = "reads"
    <2> HIDE DEF K1, K3, K4, K5
    <2> QED BY TakeAfter
  <1> HIDE DEF c1
  <1>9. CursorIn(c1, chunk) /\ c1.at = c.at + 1 /\ Over(c, c1, 1)
    BY <1>7 DEF TookFrom
  <1>10. c1.fate = "reads" => TookFrom(c1, c2, chunk, K2, F, 1, 1)
    <2>1. c1.fate = "reads" => c1.got[1] = 1
      <3>1. K1[1] = "u8" /\ F[1][2] = 1
        BY <1>2 DEF U8
      <3> HIDE DEF K1
      <3> QED BY <1>7, <3>1 DEF TookFrom
    <2>2. c1.fate = "reads" => c2 = Take(c1, K2)
      BY <2>1, OneKind
    <2> DEFINE n == 1
               k == 1
    <2>n. n \in Nat /\ k \in Nat /\ Len(K2) = n /\ k + n <= 9
      BY <1>3
    <2>k. \A i \in 1 .. n : F[k + i][1] = K2[i]
      BY <1>6
    <2>q. c1.fate = "reads" => CursorIn(c1, chunk) /\ c1.at = c.at + k
      BY <1>9
    <2> HIDE DEF K2, n, k, c2
    <2>t. c1.fate = "reads" => TookFrom(c1, Take(c1, K2), chunk, K2, F, k, n)
      BY <1>3, <1>take, <2>n, <2>k, <2>q
    <2> QED BY <2>2, <2>t DEF n, k
  <1> HIDE DEF c2
  <1>11. c2.fate = "reads" => CursorIn(c2, chunk) /\ c2.at = c.at + 2 /\ Over(c1, c2, 1)
    BY <1>5, <1>8, <1>9, <1>10 DEF TookFrom
  <1>12. c2.fate = "reads" => TookFrom(c2, c3, chunk, K3, F, 2, 2)
    <2> DEFINE n == 2
               k == 2
    <2>n. n \in Nat /\ k \in Nat /\ Len(K3) = n /\ k + n <= 9
      BY <1>3
    <2>k. \A i \in 1 .. n : F[k + i][1] = K3[i]
      BY <1>6
    <2>q. c2.fate = "reads" => CursorIn(c2, chunk) /\ c2.at = c.at + k
      BY <1>11
    <2> HIDE DEF K3, n, k
    <2>t. c2.fate = "reads" => TookFrom(c2, Take(c2, K3), chunk, K3, F, k, n)
      BY <1>3, <1>take, <2>n, <2>k, <2>q
    <2> QED BY <2>t DEF n, k
  <1> HIDE DEF c3
  <1>13. c3.fate = "reads" => CursorIn(c3, chunk) /\ c3.at = c.at + 4 /\ Over(c2, c3, 2)
    BY <1>5, <1>8, <1>11, <1>12 DEF TookFrom
  <1>14. c3.fate = "reads" => TookFrom(c3, c4, chunk, K4, F, 4, 3)
    <2> DEFINE n == 3
               k == 4
    <2>n. n \in Nat /\ k \in Nat /\ Len(K4) = n /\ k + n <= 9
      BY <1>3
    <2>k. \A i \in 1 .. n : F[k + i][1] = K4[i]
      BY <1>6
    <2>q. c3.fate = "reads" => CursorIn(c3, chunk) /\ c3.at = c.at + k
      BY <1>13
    <2> HIDE DEF K4, n, k
    <2>t. c3.fate = "reads" => TookFrom(c3, Take(c3, K4), chunk, K4, F, k, n)
      BY <1>3, <1>take, <2>n, <2>k, <2>q
    <2> QED BY <2>t DEF n, k
  <1> HIDE DEF c4
  <1>15. c4.fate = "reads" => CursorIn(c4, chunk) /\ c4.at = c.at + 7 /\ Over(c3, c4, 3)
    BY <1>5, <1>8, <1>13, <1>14 DEF TookFrom
  <1>16. c4.fate = "reads" => TookFrom(c4, c5, chunk, K5, F, 7, 1)
    <2> DEFINE n == 1
               k == 7
    <2>n. n \in Nat /\ k \in Nat /\ Len(K5) = n /\ k + n <= 9
      BY <1>3
    <2>k. \A i \in 1 .. n : F[k + i][1] = K5[i]
      BY <1>6
    <2>q. c4.fate = "reads" => CursorIn(c4, chunk) /\ c4.at = c.at + k
      BY <1>15
    <2> HIDE DEF K5, n, k
    <2>t. c4.fate = "reads" => TookFrom(c4, Take(c4, K5), chunk, K5, F, k, n)
      BY <1>3, <1>take, <2>n, <2>k, <2>q
    <2> QED BY <2>t DEF n, k
  <1> HIDE DEF c5
  <1>17. c5.fate = "reads" => /\ CursorIn(c5, chunk) /\ c5.at = c.at + 8 /\ Over(c4, c5, 1)
                              /\ c.at + 7 <= Len(chunk)
    <2>1. K5[1] = "u16"
      OBVIOUS
    <2> HIDE DEF K5
    <2> QED BY <1>5, <1>8, <1>15, <1>16, <2>1 DEF TookFrom
  <1>18. c5.fate = "reads" => TookFrom(c5, c6, chunk, K6, F, 8, 1)
    <2>1. c5.fate = "reads" => c5.got[1] = 1
      <3>1. F[7 + 1][2] = 1
        BY <1>2 DEF U16
      <3>2. c5.fate = "reads" => c4.at + 1 - 1 <= Len(chunk)
        BY <1>5, <1>8, <1>15, <1>17
      <3>3. c5.fate = "reads" /\ c4.at + 1 - 1 <= Len(chunk) => c5.got[1] = F[7 + 1][2]
        BY <1>8, <1>16 DEF TookFrom
      <3> QED BY <3>1, <3>2, <3>3
    <2>2. c5.fate = "reads" => c6 = Take(c5, K6)
      BY <2>1, OneKind
    <2> DEFINE n == 1
               k == 8
    <2>n. n \in Nat /\ k \in Nat /\ Len(K6) = n /\ k + n <= 9
      BY <1>3
    <2>k. \A i \in 1 .. n : F[k + i][1] = K6[i]
      BY <1>6
    <2>q. c5.fate = "reads" => CursorIn(c5, chunk) /\ c5.at = c.at + k
      BY <1>17
    <2> HIDE DEF K6, n, k, c6
    <2>t. c5.fate = "reads" => TookFrom(c5, Take(c5, K6), chunk, K6, F, k, n)
      BY <1>3, <1>take, <2>n, <2>k, <2>q
    <2> QED BY <2>2, <2>t DEF n, k
  <1>19. ASSUME c6.fate = "reads"
         PROVE  /\ c.fate = "reads" /\ c.at + 7 <= Len(chunk)
                /\ c2.got = <<Pem(s)>>
                /\ c6.got = <<IF c.at + 8 <= Len(chunk) THEN ComputeSignature(m, s) ELSE <<>>>>
    <2> HIDE DEF c6
    <2>1. /\ c.fate = "reads" /\ c1.fate = "reads" /\ c2.fate = "reads" /\ c3.fate = "reads"
          /\ c4.fate = "reads" /\ c5.fate = "reads"
      BY <1>8, <1>19
    <2>2. c.at + 7 <= Len(chunk)
      BY <1>17, <2>1
    <2>3. c2.got = <<Pem(s)>>
      <3>1. c1.at + 1 - 1 <= Len(chunk)
        BY <1>5, <1>9, <2>2
      <3>2. c2.got[1] = F[1 + 1][2] /\ c2.got = [i \in 1 .. 1 |-> c2.got[i]]
        BY <1>10, <2>1, <3>1 DEF TookFrom
      <3>3. F[1 + 1][2] = Pem(s)
        BY <1>2 DEF Text
      <3>4. c2.got[1] = Pem(s)
        BY <3>2, <3>3
      <3> QED BY <3>2, <3>4
    <2>4. c6.got = <<IF c.at + 8 <= Len(chunk) THEN ComputeSignature(m, s) ELSE <<>>>>
      <3>1. /\ c6.got[1] = IF c5.at + 1 - 1 <= Len(chunk) THEN F[8 + 1][2]
                           ELSE IF K6[1] \in {"text", "raw"} THEN <<>> ELSE 0
            /\ c6.got = [i \in 1 .. 1 |-> c6.got[i]]
        <4> HIDE DEF K6
        <4> QED BY <1>18, <1>19, <2>1 DEF TookFrom
      <3>2. c5.at = c.at + 8 /\ K6[1] = "raw" /\ F[8 + 1][2] = ComputeSignature(m, s)
        BY <1>2, <1>17, <2>1 DEF Raw
      <3>3. c6.got[1] = IF c.at + 8 <= Len(chunk) THEN ComputeSignature(m, s) ELSE <<>>
        <4>1. c5.at + 1 - 1 = c.at + 8
          BY <1>5, <3>2
        <4> HIDE DEF K6
        <4> QED BY <3>1, <3>2, <4>1
      <3> DEFINE x == IF c.at + 8 <= Len(chunk) THEN ComputeSignature(m, s) ELSE <<>>
      <3> HIDE DEF x
      <3>4. c6.got = <<x>>
        BY <3>1, <3>3 DEF x
      <3> QED BY <3>4 DEF x
    <2> QED BY <2>1, <2>2, <2>3, <2>4
  <1>20. ASSUME c.fate = "reads", c.at + 8 <= Len(chunk)
         PROVE  c6.fate = "reads"
    <2> HIDE DEF c6
    <2>1. c1.fate = "reads"
      BY <1>5, <1>9, <1>20 DEF Over, CursorIn
    <2>2. c2.fate = "reads"
      BY <1>5, <1>9, <1>10, <1>20, <2>1 DEF TookFrom, Over, CursorIn
    <2>3. c3.fate = "reads"
      BY <1>5, <1>11, <1>12, <1>20, <2>2 DEF TookFrom, Over, CursorIn
    <2>4. c4.fate = "reads"
      BY SMTT(30), <1>5, <1>13, <1>14, <1>20, <2>3 DEF TookFrom, Over, CursorIn
    <2>5. c5.fate = "reads"
      BY <1>5, <1>15, <1>16, <1>20, <2>4 DEF TookFrom, Over, CursorIn
    <2> QED BY <1>5, <1>17, <1>18, <1>20, <2>5 DEF TookFrom, Over, CursorIn
  <1> QED BY <1>1, <1>19, <1>20 DEF b

-----------------------------------------------------------------------------
(* The whole message.                                                      *)

LEMMA SqEqual ==
  ASSUME NEW s, NEW t, Sq(s), Sq(t), Len(s) = Len(t), \A i \in 1 .. Len(s) : s[i] = t[i]
  PROVE  s = t
  <1>1. s = [i \in 1 .. Len(s) |-> s[i]] /\ t = [i \in 1 .. Len(t) |-> t[i]]
    BY DEF Sq
  <1> QED BY <1>1

LEMMA SecBlockAfter ==
  ASSUME NEW c
  PROVE  DeSerializeSecBlock(c).cursor.fate = "reads" => c.fate = "reads"
  <1> DEFINE c1 == Take(c, <<"u8">>)
             c2 == Take(c1, [i \in 1 .. c1.got[1] |-> "text"])
             c3 == Take(c2, <<"u8", "u8">>)
             c4 == Take(c3, <<"u8", "u8", "text">>)
             c5 == Take(c4, <<"u16">>)
             c6 == Take(c5, [i \in 1 .. c5.got[1] |-> "raw"])
  <1>1. DeSerializeSecBlock(c).cursor = c6
    BY DEF DeSerializeSecBlock, DeSerializeSignature, DeSerializeIdentity
  <1>2. c1.fate = "reads" => c.fate = "reads"
    BY TakeAfter
  <1> HIDE DEF c1
  <1>3. c2.fate = "reads" => c1.fate = "reads"
    BY TakeAfter
  <1> HIDE DEF c2
  <1>4. c3.fate = "reads" => c2.fate = "reads"
    BY TakeAfter
  <1> HIDE DEF c3
  <1>5. c4.fate = "reads" => c3.fate = "reads"
    BY TakeAfter
  <1> HIDE DEF c4
  <1>6. c5.fate = "reads" => c4.fate = "reads"
    BY TakeAfter
  <1> HIDE DEF c5
  <1>7. c6.fate = "reads" => c5.fate = "reads"
    BY TakeAfter
  <1> HIDE DEF c6
  <1> QED BY <1>1, <1>2, <1>3, <1>4, <1>5, <1>6, <1>7

LEMMA ContentAfter ==
  ASSUME NEW c
  PROVE  DeSerializeContent(c).cursor.fate = "reads" => c.fate = "reads"
  <1> DEFINE r == Take(c, <<"u8">>)
  <1>1. r.fate = "reads" => c.fate = "reads"
    BY TakeAfter
  <1>2. DeSerializeContent(c).cursor = Decoder(r.got[1], r).cursor
    BY DEF DeSerializeContent
  <1> HIDE DEF r
  <1> QED BY <1>1, <1>2, DecoderAfter

\* The three parts of a message.
LEMMA SerializeParts ==
  ASSUME NEW m, WellFormed(m), NEW s
  PROVE  LET H == SerializeHeader(m)  C == SerializeContent(m)  B == SerializeSecBlock(m, s)
         IN  /\ Sq(Serialize(m, s)) /\ Len(H) \in Nat /\ Len(H) >= 16
             /\ Len(C) \in Nat /\ Len(C) >= 1
             /\ Len(Serialize(m, s)) = Len(H) + Len(C) + 9
             /\ \A chunk : Fits(chunk, 1, Serialize(m, s)) =>
                  /\ Fits(chunk, 1, H) /\ Fits(chunk, 1 + Len(H), C)
                  /\ Fits(chunk, 1 + Len(H) + Len(C), B)
  <1> DEFINE H == SerializeHeader(m)
             C == SerializeContent(m)
             B == SerializeSecBlock(m, s)
             HC == H \o C
  <1>1. /\ Sq(H) /\ Len(H) = 13 + Len(SerializeIds(m.via)) + Len(SerializeIds(m.dest)) + 3
        /\ Len(SerializeIds(m.via)) \in Nat /\ Len(SerializeIds(m.dest)) \in Nat
    BY HeaderWritten
  <1>2. Sq(C) /\ Len(C) \in Nat /\ Len(C) >= 1
    <2>1. CursorIn([chunk |-> <<>>, at |-> 1], <<>>) /\ Fits(<<>>, 1, C)
      <3>1. Sq(<<>>) /\ Len(<<>>) = 0
        BY DEF Sq
      <3>2. \A i \in 1 .. Len(C) : ~(1 + i - 1 <= 0)
        OBVIOUS
      <3> QED BY <3>1, <3>2 DEF CursorIn, Fits
    <2>2. [chunk |-> <<>>, at |-> 1].at = 1
      OBVIOUS
    <2> DEFINE c == [chunk |-> <<>>, at |-> 1]
    <2> HIDE DEF c
    <2>3. m.code \in Range(MessageCode) /\ OfClass(m.code, m.body) /\ Fits(<<>>, c.at, SerializeContent(m))
      BY <2>1, <2>2 DEF WellFormed, c
    <2> QED BY <2>1, <2>3, ContentRead DEF c
  <1>3. Sq(B) /\ Len(B) = 9
    BY SecBlockWritten
  <1>4. Serialize(m, s) = HC \o B
    BY DEF Serialize
  <1> HIDE DEF H, C, B
  <1>5. Sq(HC) /\ Len(HC) = Len(H) + Len(C)
    BY <1>1, <1>2, Joined
  <1>6. Len(H) \in Nat /\ Len(H) >= 16
    BY <1>1
  <1> HIDE DEF HC
  <1>7. Sq(HC \o B) /\ Len(HC \o B) = Len(H) + Len(C) + 9
    <2>1. Sq(HC \o B) /\ Len(HC \o B) = Len(HC) + Len(B)
      BY <1>3, <1>5, Joined
    <2> QED BY <1>3, <1>5, <2>1
  <1>8. ASSUME NEW chunk, Fits(chunk, 1, HC \o B)
        PROVE  /\ Fits(chunk, 1, H) /\ Fits(chunk, 1 + Len(H), C)
               /\ Fits(chunk, 1 + Len(H) + Len(C), B)
    <2>1. Fits(chunk, 1, HC) /\ Fits(chunk, 1 + Len(HC), B)
      BY <1>3, <1>5, <1>8, FitsJoined
    <2>2. Fits(chunk, 1, H) /\ Fits(chunk, 1 + Len(H), C)
      BY <1>1, <1>2, <2>1, FitsJoined DEF HC
    <2>3. 1 + Len(HC) = 1 + Len(H) + Len(C)
      BY <1>2, <1>5, <1>6
    <2> QED BY <2>1, <2>2, <2>3
  <1> QED BY <1>2, <1>4, <1>6, <1>7, <1>8 DEF H, C, B

\* Message.deserialize undoes Message.serialize.  From a chunk that begins with
\* a message as serialize writes it, as far as the chunk goes, it takes that
\* message; it reads if all of it has come, whatever follows, and what it
\* reads from less has no signature.
THEOREM MessageRead ==
  ASSUME NEW m, WellFormed(m), NEW s, NEW chunk, Sq(chunk), Fits(chunk, 1, Serialize(m, s))
  PROVE  LET d == Decode(chunk)
             n == Len(Serialize(m, s))
         IN  /\ n <= Len(chunk) => d.fate = "reads"
             /\ d.fate = "reads" =>
                  /\ d.message = m /\ d.content = SerializeContent(m) /\ d.certificate = Pem(s)
                  /\ d.digest = <<IF n <= Len(chunk) THEN ComputeSignature(m, s) ELSE <<>>>>
  <1> DEFINE H == SerializeHeader(m)
             C == SerializeContent(m)
             B == SerializeSecBlock(m, s)
             nh == Len(H)
             nc == Len(C)
             n == Len(Serialize(m, s))
             l == Len(chunk)
             c0 == Cursor(chunk)
             h == DeSerializeHeader(c0)
             c == DeSerializeContent(h.cursor)
             b == DeSerializeSecBlock(c.cursor)
             d == Decode(chunk)
             right == [overlay |-> h.overlay, sequence |-> h.sequence, ttl |-> h.ttl,
                       transaction |-> h.transaction, via |-> h.via, dest |-> h.dest,
                       code |-> c.code, body |-> c.body]
  <1>1. /\ d.fate = b.cursor.fate
        /\ d.fate = "reads" =>
             /\ d.message = right
             /\ d.content = SubSeq(chunk, h.cursor.at, c.cursor.at - 1)
             /\ d.certificate = b.certificates[1] /\ d.digest = b.digest
    BY DEF Decode, ContentOf
  <1>2. /\ b.cursor.fate = "reads" => c.cursor.fate = "reads"
        /\ c.cursor.fate = "reads" => h.cursor.fate = "reads"
    BY SecBlockAfter, ContentAfter
  <1>3. /\ nh \in Nat /\ nh >= 16 /\ nc \in Nat /\ nc >= 1 /\ n = nh + nc + 9
        /\ Fits(chunk, 1, H) /\ Fits(chunk, 1 + nh, C) /\ Fits(chunk, 1 + nh + nc, B)
    BY SerializeParts
  <1>4. l \in Nat
    BY SqProperties
  <1>5. c0.fate = "reads" /\ c0.at = 1 /\ c0.chunk = chunk
    BY DEF Cursor
  <1>6. /\ Over(c0, h.cursor, nh)
        /\ h.cursor.fate = "reads" =>
             /\ h.overlay = m.overlay /\ h.sequence = m.sequence /\ h.ttl = m.ttl
             /\ h.transaction = m.transaction /\ h.via = m.via /\ h.dest = m.dest
    <2>1. Fits(chunk, 1, H)
      BY <1>3
    <2> QED BY <2>1, HeaderRead
  <1> HIDE DEF c0, h, d, n, l
  <1>7. h.cursor.fate = "reads" => CursorIn(h.cursor, chunk) /\ h.cursor.at = 1 + nh
    BY <1>3, <1>5, <1>6 DEF Over, CursorIn
  <1>8. h.cursor.fate = "reads" =>
          /\ Sq(C) /\ Over(h.cursor, c.cursor, nc)
          /\ c.cursor.fate = "reads" => CursorIn(c.cursor, chunk) /\ c.code = m.code
          /\ AllThere(c.cursor) => c.body = m.body
    <2>1. m.code \in Range(MessageCode) /\ OfClass(m.code, m.body)
      BY DEF WellFormed
    <2>2. h.cursor.fate = "reads" => Fits(chunk, h.cursor.at, SerializeContent(m))
      BY <1>3, <1>7
    <2> QED BY <1>7, <2>1, <2>2, ContentRead
  <1> HIDE DEF c, nh, nc
  <1>9. c.cursor.fate = "reads" => c.cursor.at = 1 + nh + nc /\ CursorIn(c.cursor, chunk)
    BY <1>2, <1>3, <1>7, <1>8 DEF Over
  <1>10. c.cursor.fate = "reads" =>
           /\ b.cursor.fate = "reads" =>
                /\ c.cursor.at + 7 <= l
                /\ b.certificates = <<Pem(s)>>
                /\ b.digest = <<IF c.cursor.at + 8 <= l THEN ComputeSignature(m, s) ELSE <<>>>>
           /\ c.cursor.at + 8 <= l => b.cursor.fate = "reads"
    <2>1. c.cursor.fate = "reads" => Fits(chunk, c.cursor.at, SerializeSecBlock(m, s))
      BY <1>3, <1>9
    <2> QED BY <1>9, <2>1, SecBlockRead DEF l
  <1> HIDE DEF b, H, C, B
  <1>11. ASSUME d.fate = "reads"
         PROVE  /\ d.message = m /\ d.content = C /\ d.certificate = Pem(s)
                /\ d.digest = <<IF n <= l THEN ComputeSignature(m, s) ELSE <<>>>>
    <2>1. /\ b.cursor.fate = "reads" /\ c.cursor.fate = "reads" /\ h.cursor.fate = "reads"
          /\ h.cursor.at = 1 + nh /\ c.cursor.at = 1 + nh + nc /\ CursorIn(c.cursor, chunk)
      BY <1>1, <1>2, <1>7, <1>9, <1>11
    <2>2. nh + nc + 8 <= l
      BY <1>3, <1>4, <1>10, <2>1
    <2>3. AllThere(c.cursor)
      BY <1>3, <1>4, <2>1, <2>2 DEF AllThere, CursorIn, l
    <2>4. right = m
      <3>1. right = [overlay |-> m.overlay, sequence |-> m.sequence, ttl |-> m.ttl,
                     transaction |-> m.transaction, via |-> m.via, dest |-> m.dest,
                     code |-> m.code, body |-> m.body]
        BY <1>6, <1>8, <2>1, <2>3
      <3> QED BY <3>1 DEF WellFormed
    <2>5. d.content = C
      <3>1. d.content = SubSeq(chunk, 1 + nh, nh + nc)
        BY <1>1, <1>3, <1>11, <2>1
      <3>2. Sq(C) /\ Len(C) = nc
        BY <1>8, <2>1 DEF nc
      <3>3. 1 + nh \in 1 .. l + 1 /\ nh + nc \in 1 + nh - 1 .. l
        BY <1>3, <1>4, <2>2
      <3>4. /\ Sq(d.content) /\ Len(d.content) = nc
            /\ \A i \in 1 .. nc : d.content[i] = chunk[1 + nh + i - 1]
        <4> DEFINE x == 1 + nh
                   y == nh + nc
        <4>1. x \in 1 .. l + 1 /\ y \in x - 1 .. l /\ y - x + 1 = nc
          BY <1>3, <3>3
        <4>2. d.content = SubSeq(chunk, x, y)
          BY <3>1
        <4> HIDE DEF x, y
        <4>3. /\ Sq(SubSeq(chunk, x, y)) /\ Len(SubSeq(chunk, x, y)) = y - x + 1
              /\ \A i \in 1 .. y - x + 1 : SubSeq(chunk, x, y)[i] = chunk[x + i - 1]
          BY <4>1, Window DEF l
        <4>4. \A i \in 1 .. nc : d.content[i] = chunk[x + i - 1]
          BY <4>1, <4>2, <4>3
        <4>5. Sq(d.content) /\ Len(d.content) = nc
          BY <4>1, <4>2, <4>3
        <4> QED BY <4>4, <4>5 DEF x
      <3>6. ASSUME NEW i \in 1 .. nc PROVE d.content[i] = C[i]
        <4>1. 1 + nh + i - 1 <= l
          BY <1>3, <1>4, <2>2
        <4>2. chunk[1 + nh + i - 1] = C[i]
          BY <1>3, <3>2, <4>1 DEF Fits, l
        <4> QED BY <3>4, <4>2
      <3> QED BY <3>2, <3>4, <3>6, SqEqual
    <2>6. d.certificate = Pem(s)
      <3>1. b.certificates = <<Pem(s)>>
        BY <1>10, <2>1
      <3> QED BY <1>1, <1>11, <3>1
    <2>7. c.cursor.at + 8 <= l <=> n <= l
      BY <1>3, <1>4, <2>1
    <2> HIDE DEF right
    <2> QED BY <1>1, <1>10, <1>11, <2>1, <2>4, <2>5, <2>6, <2>7
  <1>12. ASSUME n <= l PROVE d.fate = "reads"
    <2>1. h.cursor.fate = "reads"
      BY <1>3, <1>4, <1>5, <1>6, <1>12 DEF Over, l
    <2>2. c.cursor.fate = "reads"
      BY <1>3, <1>4, <1>7, <1>8, <1>12, <2>1 DEF Over, CursorIn, l
    <2> QED BY <1>1, <1>3, <1>4, <1>9, <1>10, <1>12, <2>2
  <1> QED BY <1>11, <1>12 DEF d, n, l, C

-----------------------------------------------------------------------------
(* Nothing but its beginning looks like the beginning of a message.        *)

\* From field k on, no field is "close", and no three fields are a number of
\* four bytes and two texts.
InnerFrom(F, k) ==
  \A o \in k .. Len(F) :
    /\ F[o][1] # "bytes"
    /\ F[o][1] = "u32" => o + 2 <= Len(F) /\ (F[o + 1][1] # "text" \/ F[o + 2][1] # "text")

LEMMA InnerJoined ==
  ASSUME NEW s, NEW t, Sq(s), Sq(t), NEW k \in 1 .. 2, InnerFrom(s, k), InnerFrom(t, 1),
         Len(s) >= 1
  PROVE  InnerFrom(s \o t, k)
  <1> DEFINE u == s \o t
             m == Len(s)
             n == Len(t)
  <1>1. /\ Len(u) = m + n /\ m \in Nat /\ n \in Nat /\ m >= 1
        /\ \A i \in 1 .. m : u[i] = s[i]
        /\ \A i \in 1 .. n : u[m + i] = t[i]
    BY Joined, SqProperties
  <1> HIDE DEF u
  <1>2. \A o \in k .. m :
          /\ s[o][1] # "bytes"
          /\ s[o][1] = "u32" => o + 2 <= m /\ (s[o + 1][1] # "text" \/ s[o + 2][1] # "text")
    BY DEF InnerFrom
  <1>3. \A o \in 1 .. n :
          /\ t[o][1] # "bytes"
          /\ t[o][1] = "u32" => o + 2 <= n /\ (t[o + 1][1] # "text" \/ t[o + 2][1] # "text")
    BY DEF InnerFrom
  <1> HIDE DEF m, n
  <1>4. ASSUME NEW o \in k .. m + n
        PROVE  /\ u[o][1] # "bytes"
               /\ u[o][1] = "u32" =>
                    o + 2 <= m + n /\ (u[o + 1][1] # "text" \/ u[o + 2][1] # "text")
    <2>1. CASE o <= m
      <3>1. o \in k .. m /\ o \in 1 .. m
        BY <1>1, <2>1
      <3>2. u[o] = s[o]
        BY <1>1, <3>1
      <3>3. ASSUME u[o][1] = "u32"
            PROVE  o + 2 <= m + n /\ (u[o + 1][1] # "text" \/ u[o + 2][1] # "text")
        <4>1. o + 2 <= m /\ (s[o + 1][1] # "text" \/ s[o + 2][1] # "text")
          BY <1>2, <3>1, <3>2, <3>3
        <4>2. o + 1 \in 1 .. m /\ o + 2 \in 1 .. m /\ o + 2 <= m + n
          BY <1>1, <3>1, <4>1
        <4>3. u[o + 1] = s[o + 1] /\ u[o + 2] = s[o + 2]
          BY <1>1, <4>2
        <4> QED BY <4>1, <4>2, <4>3
      <3> QED BY <1>2, <3>1, <3>2, <3>3
    <2>2. CASE ~(o <= m)
      <3> DEFINE p == o - m
      <3>1. p \in 1 .. n /\ o = m + p
        BY <1>1, <2>2
      <3> HIDE DEF p
      <3>2. u[o] = t[p]
        BY <1>1, <3>1
      <3>3. ASSUME u[o][1] = "u32"
            PROVE  o + 2 <= m + n /\ (u[o + 1][1] # "text" \/ u[o + 2][1] # "text")
        <4>1. p + 2 <= n /\ (t[p + 1][1] # "text" \/ t[p + 2][1] # "text")
          BY <1>3, <3>1, <3>2, <3>3
        <4>2. /\ p + 1 \in 1 .. n /\ p + 2 \in 1 .. n /\ o + 2 <= m + n
              /\ o + 1 = m + (p + 1) /\ o + 2 = m + (p + 2)
          BY <1>1, <3>1, <4>1
        <4>3. u[m + (p + 1)] = t[p + 1] /\ u[m + (p + 2)] = t[p + 2]
          BY <1>1, <4>2
        <4> QED BY <4>1, <4>2, <4>3
      <3> QED BY <1>3, <3>1, <3>2, <3>3
    <2> QED BY <2>1, <2>2
  <1>5. InnerFrom(u, k)
    BY <1>1, <1>4 DEF InnerFrom
  <1> QED BY <1>5 DEF u

LEMMA InnerIds ==
  ASSUME NEW list, Ids(list)
  PROVE  InnerFrom(SerializeIds(list), 1)
  <1> DEFINE F == SerializeIds(list)
             n == Len(list)
  <1>1. /\ Len(F) = 2 * n /\ n \in Nat
        /\ \A i \in 1 .. n : F[2 * i - 1] = U8(list[i].type) /\ F[2 * i] = Text(list[i].id)
    BY IdsWritten, SqProperties DEF Ids
  <1> HIDE DEF F, n
  <1>2. ASSUME NEW o \in 1 .. 2 * n PROVE F[o][1] \in {"u8", "text"}
    <2>1. CASE o % 2 = 1
      <3>1. PICK j \in 1 .. n : o = 2 * j - 1
        <4> DEFINE q == o \div 2
        <4>1. q \in Nat /\ o = 2 * q + 1
          BY <1>1, <2>1
        <4> HIDE DEF q
        <4>2. q + 1 \in 1 .. n /\ o = 2 * (q + 1) - 1
          BY <1>1, <4>1
        <4> QED BY <4>2
      <3>2. F[o] = U8(list[j].type)
        BY <1>1, <3>1
      <3> QED BY <3>2 DEF U8
    <2>2. CASE o % 2 # 1
      <3>1. PICK j \in 1 .. n : o = 2 * j
        <4>1. o \div 2 \in 1 .. n /\ o = 2 * (o \div 2)
          BY <1>1, <2>2
        <4> QED BY <4>1
      <3>2. F[o] = Text(list[j].id)
        BY <1>1, <3>1
      <3> QED BY <3>2 DEF Text
    <2> QED BY <2>1, <2>2
  <1> QED BY <1>1, <1>2 DEF InnerFrom, F

\* In a content a number of four bytes is the last field but one, or the last.
LEMMA ContentKinds ==
  ASSUME NEW m, m.code \in Range(MessageCode)
  PROVE  \A o \in 1 .. Len(SerializeContent(m)) :
           /\ SerializeContent(m)[o][1] # "bytes"
           /\ SerializeContent(m)[o][1] = "u32" => o + 1 >= Len(SerializeContent(m))
  <1>0. m.code \in {3, 4, 15, 16, 17, 19, 20, 23, 24}
    BY DEF Range, MessageCode
  <1>1. CASE m.code \in {MessageCode.attach_req, MessageCode.attach_ans}
    <2> DEFINE w == U8(m.code)
               x == Text(m.body.candidates)
               y == U8(IF m.body.sendUpdate THEN 1 ELSE 0)
               G == <<w, x, y>>
    <2>1. SerializeContent(m) = G
      BY <1>0, <1>1 DEF SerializeContent, SerializeAttach, MessageCode
    <2>2. w[1] = "u8" /\ x[1] = "text" /\ y[1] = "u8"
      BY DEF U8, U32, Text
    <2> HIDE DEF w, x, y
    <2>3. Len(G) = 3 /\ \A o \in 1 .. 3 : G[o][1] # "bytes" /\ (G[o][1] = "u32" => o + 1 >= 3)
      BY <2>2
    <2> HIDE DEF G
    <2> QED BY <2>1, <2>3
  <1>2. CASE m.code = MessageCode.join_req
    <2> DEFINE w == U8(m.code)
               x == Text(m.body.localNodeID)
               G == <<w, x>>
    <2>1. SerializeContent(m) = G
      BY <1>0, <1>2 DEF SerializeContent, SerializeJoinRequest, MessageCode
    <2>2. w[1] = "u8" /\ x[1] = "text"
      BY DEF U8, U32, Text
    <2> HIDE DEF w, x
    <2>3. Len(G) = 2 /\ \A o \in 1 .. 2 : G[o][1] # "bytes" /\ (G[o][1] = "u32" => o + 1 >= 2)
      BY <2>2
    <2> HIDE DEF G
    <2> QED BY <2>1, <2>3
  <1>3. CASE m.code = MessageCode.join_ans
    <2> DEFINE w == U8(m.code)
               x == Text(<<>>)
               G == <<w, x>>
    <2>1. SerializeContent(m) = G
      BY <1>0, <1>3 DEF SerializeContent, SerializeJoinAnswer, MessageCode
    <2>2. w[1] = "u8" /\ x[1] = "text"
      BY DEF U8, U32, Text
    <2> HIDE DEF w, x
    <2>3. Len(G) = 2 /\ \A o \in 1 .. 2 : G[o][1] # "bytes" /\ (G[o][1] = "u32" => o + 1 >= 2)
      BY <2>2
    <2> HIDE DEF G
    <2> QED BY <2>1, <2>3
  <1>4. CASE m.code = MessageCode.leave_req
    <2> DEFINE w == U8(m.code)
               x == U8(m.body.type)
               y == Text(m.body.id)
               z == Text(Json(m.body.list))
               G == <<w, x, y, z>>
    <2>1. SerializeContent(m) = G
      BY <1>0, <1>4 DEF SerializeContent, SerializeLeaveRequest, MessageCode
    <2>2. w[1] = "u8" /\ x[1] = "u8" /\ y[1] = "text" /\ z[1] = "text"
      BY DEF U8, U32, Text
    <2> HIDE DEF w, x, y, z
    <2>3. Len(G) = 4 /\ \A o \in 1 .. 4 : G[o][1] # "bytes" /\ (G[o][1] = "u32" => o + 1 >= 4)
      BY <2>2
    <2> HIDE DEF G
    <2> QED BY <2>1, <2>3
  <1>5. CASE m.code = MessageCode.update_req
    <2> DEFINE w == U8(m.code)
               G == <<w>>
    <2>1. SerializeContent(m) = G
      BY <1>0, <1>5 DEF SerializeContent, SerializeUpdateRequest, MessageCode
    <2>2. w[1] = "u8"
      BY DEF U8, U32, Text
    <2> HIDE DEF w
    <2>3. Len(G) = 1 /\ \A o \in 1 .. 1 : G[o][1] # "bytes" /\ (G[o][1] = "u32" => o + 1 >= 1)
      BY <2>2
    <2> HIDE DEF G
    <2> QED BY <2>1, <2>3
  <1>6. CASE m.code = MessageCode.update_ans
    <2> DEFINE w == U8(m.code)
               x == Text(Json(m.body.predecessors))
               y == Text(Json(m.body.successors))
               z == Text(m.body.startTime)
               G == <<w, x, y, z>>
    <2>1. SerializeContent(m) = G
      BY <1>0, <1>6 DEF SerializeContent, SerializeUpdateAnswer, MessageCode
    <2>2. w[1] = "u8" /\ x[1] = "text" /\ y[1] = "text" /\ z[1] = "text"
      BY DEF U8, U32, Text
    <2> HIDE DEF w, x, y, z
    <2>3. Len(G) = 4 /\ \A o \in 1 .. 4 : G[o][1] # "bytes" /\ (G[o][1] = "u32" => o + 1 >= 4)
      BY <2>2
    <2> HIDE DEF G
    <2> QED BY <2>1, <2>3
  <1>7. CASE m.code = MessageCode.ping_req
    <2> DEFINE w == U8(m.code)
               x == Text(Json(m.body.ips))
               y == U32(m.body.port)
               G == <<w, x, y>>
    <2>1. SerializeContent(m) = G
      BY <1>0, <1>7 DEF SerializeContent, SerializePingRequest, MessageCode
    <2>2. w[1] = "u8" /\ x[1] = "text" /\ y[1] = "u32"
      BY DEF U8, U32, Text
    <2> HIDE DEF w, x, y
    <2>3. Len(G) = 3 /\ \A o \in 1 .. 3 : G[o][1] # "bytes" /\ (G[o][1] = "u32" => o + 1 >= 3)
      BY <2>2
    <2> HIDE DEF G
    <2> QED BY <2>1, <2>3
  <1>8. CASE m.code = MessageCode.ping_ans
    <2> DEFINE w == U8(m.code)
               x == U32(m.body.number)
               y == Text(m.body.time)
               G == <<w, x, y>>
    <2>1. SerializeContent(m) = G
      BY <1>0, <1>8 DEF SerializeContent, SerializePingAnswer, MessageCode
    <2>2. w[1] = "u8" /\ x[1] = "u32" /\ y[1] = "text"
      BY DEF U8, U32, Text
    <2> HIDE DEF w, x, y
    <2>3. Len(G) = 3 /\ \A o \in 1 .. 3 : G[o][1] # "bytes" /\ (G[o][1] = "u32" => o + 1 >= 3)
      BY <2>2
    <2> HIDE DEF G
    <2> QED BY <2>1, <2>3
  <1> QED BY <1>0, <1>1, <1>2, <1>3, <1>4, <1>5, <1>6, <1>7, <1>8 DEF MessageCode

\* Behind the content comes a number of one byte.
LEMMA InnerContent ==
  ASSUME NEW m, m.code \in Range(MessageCode), NEW s, Sq(SerializeContent(m)),
         Len(SerializeContent(m)) >= 1
  PROVE  InnerFrom(SerializeContent(m) \o SerializeSecBlock(m, s), 1)
  <1> DEFINE C == SerializeContent(m)
             B == SerializeSecBlock(m, s)
             u == C \o B
             n == Len(C)
  <1>1. \A o \in 1 .. n : C[o][1] # "bytes" /\ (C[o][1] = "u32" => o + 1 >= n)
    BY ContentKinds
  <1>2. /\ Sq(B) /\ Len(B) = 9
        /\ B[1] = U8(1) /\ B[2] = Text(Pem(s)) /\ B[3] = U8(2) /\ B[4] = U8(1)
        /\ B[5] = U8(1) /\ B[6] = U8(2) /\ B[7] = Text(Sha1(Pem(s))) /\ B[8] = U16(1)
        /\ B[9] = Raw(ComputeSignature(m, s))
    BY SecBlockWritten
  <1>3. Sq(C) /\ n >= 1
    OBVIOUS
  <1> HIDE DEF C, B
  <1>4. B[1][1] = "u8" /\ \A o \in 1 .. 9 : B[o][1] \in {"u8", "text", "u16", "raw"}
    <2>1. /\ B[1][1] = "u8" /\ B[2][1] = "text" /\ B[3][1] = "u8" /\ B[4][1] = "u8"
          /\ B[5][1] = "u8" /\ B[6][1] = "u8" /\ B[7][1] = "text" /\ B[8][1] = "u16"
          /\ B[9][1] = "raw"
      BY <1>2 DEF U8, Text, U16, Raw
    <2> QED BY <2>1
  <1>5. /\ Len(u) = n + 9 /\ n \in Nat
        /\ \A i \in 1 .. n : u[i] = C[i]
        /\ \A i \in 1 .. 9 : u[n + i] = B[i]
    <2>1. /\ Len(C \o B) = Len(C) + Len(B)
          /\ \A i \in 1 .. Len(C) : (C \o B)[i] = C[i]
          /\ \A i \in 1 .. Len(B) : (C \o B)[Len(C) + i] = B[i]
      <3>1. Sq(C) /\ Sq(B)
        BY <1>2, <1>3
      <3> QED BY <3>1, Joined
    <2>2. Len(C) \in Nat
      BY <1>3, SqProperties
    <2> QED BY <1>2, <2>1, <2>2
  <1> HIDE DEF u, n
  <1>6. ASSUME NEW o \in 1 .. n + 9
        PROVE  /\ u[o][1] # "bytes"
               /\ u[o][1] = "u32" =>
                    o + 2 <= n + 9 /\ (u[o + 1][1] # "text" \/ u[o + 2][1] # "text")
    <2>1. CASE o <= n
      <3>1. o \in 1 .. n /\ u[o] = C[o]
        BY SMTT(30), <1>5, <2>1
      <3>2. ASSUME u[o][1] = "u32"
            PROVE  o + 2 <= n + 9 /\ (u[o + 1][1] # "text" \/ u[o + 2][1] # "text")
        <4>1. u[n + 1] = B[1] /\ u[n + 1][1] = "u8"
          BY SMTT(30), <1>4, <1>5
        <4>2. o + 1 = n + 1 \/ o + 2 = n + 1
          BY <1>1, <1>5, <3>1, <3>2
        <4> QED BY SMTT(30), <1>5, <3>1, <4>1, <4>2
      <3> QED BY <1>1, <3>1, <3>2
    <2>2. CASE ~(o <= n)
      <3> DEFINE p == o - n
      <3>1. p \in 1 .. 9 /\ o = n + p
        BY <1>5, <2>2
      <3> HIDE DEF p
      <3>2. u[o] = B[p]
        BY <1>5, <3>1
      <3> QED BY <1>4, <3>1, <3>2
    <2> QED BY <2>1, <2>2
  <1>7. InnerFrom(u, 1)
    BY <1>5, <1>6 DEF InnerFrom
  <1> QED BY <1>7 DEF u, C, B

LEMMA BeginsAs ==
  ASSUME NEW r
  PROVE  Begins(r) <=> Len(r) >= 3 /\ r[1][1] = "u32" /\ r[2][1] = "text" /\ r[3][1] = "text"
  <1> DEFINE f == [i \in 1 .. 3 |-> r[i][1]]
             a == "u32"
             b == "text"
  <1>1. f[1] = r[1][1] /\ f[2] = r[2][1] /\ f[3] = r[3][1]
    OBVIOUS
  <1>2. <<a, b, b>>[1] = a /\ <<a, b, b>>[2] = b /\ <<a, b, b>>[3] = b
    OBVIOUS
  <1>3. f = <<a, b, b>> => r[1][1] = a /\ r[2][1] = b /\ r[3][1] = b
    BY <1>1, <1>2
  <1>4. r[1][1] = a /\ r[2][1] = b /\ r[3][1] = b => f = <<a, b, b>>
    <2> HIDE DEF a, b
    <2> QED OBVIOUS
  <1> QED BY <1>3, <1>4 DEF Begins

LEMMA SqAssociative ==
  ASSUME NEW s, NEW t, NEW u, Sq(s), Sq(t), Sq(u)
  PROVE  (s \o t) \o u = s \o (t \o u)
  <1> DEFINE S == Range(s) \cup Range(t) \cup Range(u)
  <1>1. s \in Seq(S) /\ t \in Seq(S) /\ u \in Seq(S)
    BY DEF Sq
  <1> HIDE DEF S
  <1> QED BY <1>1, ConcatAssociative

LEMMA InnerHeader ==
  ASSUME NEW m, WellFormed(m)
  PROVE  InnerFrom(SerializeHeader(m), 2) /\ Sq(SerializeHeader(m)) /\ Len(SerializeHeader(m)) >= 1
  <1> DEFINE A == HeaderFields(m)
             V == SerializeIds(m.via)
             D == SerializeIds(m.dest)
             O == SerializeOptions
  <1>1. SerializeHeader(m) = A \o V \o D \o O
    BY DEF SerializeHeader, HeaderFields
  <1>2. Sq(V) /\ Sq(D) /\ Sq(A) /\ Sq(O) /\ Len(A) = 13 /\ Len(O) = 3
    BY IdsWritten, HeaderFieldsProperties, OptionsProperties DEF WellFormed
  <1>3. Len(V) \in Nat /\ Len(D) \in Nat
    BY <1>2, SqProperties
  <1>4. InnerFrom(A, 2)
    <2>1. \A i \in 1 .. 13 : A[i][1] = HeaderKinds[i]
      BY HeaderFieldsProperties
    <2> HIDE DEF A
    <2>2. \A o \in 2 .. 13 : /\ HeaderKinds[o] # "bytes"
                             /\ HeaderKinds[o] = "u32" => o + 2 <= 13 /\ HeaderKinds[o + 1] # "text"
      BY DEF HeaderKinds
    <2>3. ASSUME NEW o \in 2 .. 13
          PROVE  /\ A[o][1] # "bytes"
                 /\ A[o][1] = "u32" => o + 2 <= 13 /\ (A[o + 1][1] # "text" \/ A[o + 2][1] # "text")
      <3>1. o \in 1 .. 13 /\ A[o][1] = HeaderKinds[o]
        BY <2>1
      <3>2. o + 2 <= 13 => A[o + 1][1] = HeaderKinds[o + 1]
        BY <2>1
      <3> QED BY <2>2, <3>1, <3>2
    <2> QED BY <1>2, <2>3 DEF InnerFrom
  <1>5. InnerFrom(V, 1) /\ InnerFrom(D, 1)
    BY InnerIds DEF WellFormed
  <1>6. InnerFrom(O, 1)
    <2>1. Len(O) = 3 /\ O[1][1] = "u16" /\ O[2][1] = "u8" /\ O[3][1] = "u16"
      BY DEF SerializeOptions, U16, U8
    <2> HIDE DEF O
    <2>2. \A o \in 1 .. 3 : O[o][1] \in {"u8", "u16"}
      BY <2>1
    <2> QED BY <2>1, <2>2 DEF InnerFrom
  <1> HIDE DEF A, V, D, O
  <1> DEFINE AV == A \o V
             AVD == AV \o D
  <1>7. InnerFrom(AV, 2) /\ Sq(AV) /\ Len(AV) >= 1
    <2>1. InnerFrom(A \o V, 2)
      BY <1>2, <1>4, <1>5, InnerJoined
    <2>2. Sq(A \o V) /\ Len(A \o V) = Len(A) + Len(V)
      BY <1>2, Joined
    <2> QED BY <1>2, <1>3, <2>1, <2>2
  <1> HIDE DEF AV
  <1>8. InnerFrom(AVD, 2) /\ Sq(AVD) /\ Len(AVD) >= 1
    <2>1. InnerFrom(AV \o D, 2)
      BY <1>2, <1>5, <1>7, InnerJoined
    <2>2. Sq(AV \o D) /\ Len(AV \o D) = Len(AV) + Len(D) /\ Len(AV) \in Nat
      BY <1>2, <1>7, Joined, SqProperties
    <2> QED BY <1>3, <1>7, <2>1, <2>2
  <1> HIDE DEF AVD
  <1>9. InnerFrom(AVD \o O, 2)
    BY <1>2, <1>6, <1>8, InnerJoined
  <1>10. Sq(AVD \o O) /\ Len(AVD \o O) = Len(AVD) + Len(O) /\ Len(AVD) \in Nat
    BY <1>2, <1>8, Joined, SqProperties
  <1>11. SerializeHeader(m) = AVD \o O
    BY <1>1 DEF AVD, AV
  <1> QED BY <1>2, <1>8, <1>9, <1>10, <1>11

LEMMA MessageFields ==
  ASSUME NEW m, WellFormed(m), NEW s
  PROVE  LET S == Serialize(m, s)
         IN  /\ Sq(S) /\ Len(S) \in Nat /\ Len(S) >= 26
             /\ S[1][1] = "u32" /\ S[2][1] = "text" /\ S[3][1] = "text"
             /\ S[9] = U32(m.transaction) /\ InnerFrom(S, 2)
  <1> DEFINE S == Serialize(m, s)
             H == SerializeHeader(m)
             C == SerializeContent(m)
             B == SerializeSecBlock(m, s)
             A == HeaderFields(m)
  <1>1. /\ Sq(S) /\ Len(H) \in Nat /\ Len(H) >= 16 /\ Len(C) \in Nat /\ Len(C) >= 1
        /\ Len(S) = Len(H) + Len(C) + 9
        /\ Fits(S, 1, S) => Fits(S, 1, H) /\ Fits(S, 1 + Len(H), C)
    BY SerializeParts
  <1>2. Fits(S, 1, S)
    <2> HIDE DEF S
    <2>1. \A i \in 1 .. Len(S) : 1 + i - 1 = i
      OBVIOUS
    <2> QED BY <2>1 DEF Fits
  <1>3. Fits(S, 1, A) /\ Len(A) = 13
    <2>1. Fits(S, 1, H) => Fits(S, 1, A)
      <3> HIDE DEF S
      <3> QED BY HeaderWritten
    <2> QED BY <1>1, <1>2, <2>1, HeaderFieldsProperties
  <1>4. Sq(H) /\ InnerFrom(H, 2) /\ Len(H) >= 1
    BY InnerHeader
  <1>5. Sq(B)
    BY SecBlockWritten
  <1>6. Sq(C)
    <2>1. CursorIn([chunk |-> S, at |-> 1 + Len(H)], S)
      BY <1>1 DEF CursorIn
    <2> DEFINE c == [chunk |-> S, at |-> 1 + Len(H)]
    <2>2. c.at = 1 + Len(H)
      OBVIOUS
    <2> HIDE DEF c
    <2>3. m.code \in Range(MessageCode) /\ OfClass(m.code, m.body)
          /\ Fits(S, c.at, SerializeContent(m))
      BY <1>1, <1>2, <2>2 DEF WellFormed
    <2> QED BY <2>1, <2>3, ContentRead DEF c
  <1>7. InnerFrom(C \o B, 1) /\ Sq(C \o B)
    <2>1. InnerFrom(C \o B, 1)
      BY <1>1, <1>6, InnerContent DEF WellFormed
    <2>2. Sq(C \o B)
      <3> HIDE DEF B, C
      <3> QED BY <1>5, <1>6, Joined
    <2> QED BY <2>1, <2>2
  <1>8. S = H \o C \o B
    BY DEF Serialize
  <1> HIDE DEF S, H, C, B
  <1>9. S = H \o (C \o B)
    <2>1. Sq(H) /\ Sq(C) /\ Sq(B)
      BY <1>4, <1>5, <1>6
    <2>2. (H \o C) \o B = H \o (C \o B)
      BY <2>1, SqAssociative
    <2> QED BY <1>8, <2>2
  <1>10. InnerFrom(S, 2)
    <2> DEFINE t == C \o B
    <2>1. Sq(t) /\ InnerFrom(t, 1) /\ S = H \o t
      BY <1>7, <1>9
    <2> HIDE DEF t
    <2> QED BY <1>4, <2>1, InnerJoined
  <1>11. /\ A[1][1] = "u32" /\ A[2][1] = "text" /\ A[3][1] = "text" /\ A[9] = U32(m.transaction)
    BY DEF HeaderFields, U32, Text
  <1> HIDE DEF A
  <1>12. S[1] = A[1] /\ S[2] = A[2] /\ S[3] = A[3] /\ S[9] = A[9]
    BY <1>1, <1>3 DEF Fits
  <1> QED BY <1>1, <1>10, <1>11, <1>12 DEF S

\* A record that begins inside a message.
LEMMA InsideMessage ==
  ASSUME NEW m, WellFormed(m), NEW s, NEW r, Sq(r), Len(r) >= 1,
         NEW o \in Nat, o > 1, o <= Len(Serialize(m, s)), StartsAt(r, Serialize(m, s), o)
  PROVE  ~Begins(r) /\ r # <<Close>>
  <1> DEFINE S == Serialize(m, s)
             l == Len(S)
             k == Len(r)
  <1>1. InnerFrom(S, 2) /\ l \in Nat
    BY MessageFields
  <1>2. \A q \in 1 .. k : o + q - 1 <= l => r[q] = S[o + q - 1]
    BY DEF StartsAt
  <1>3. k \in Nat /\ k >= 1 /\ o <= l
    BY SqProperties
  <1> HIDE DEF S
  <1>4. /\ S[o][1] # "bytes"
        /\ S[o][1] = "u32" => o + 2 <= l /\ (S[o + 1][1] # "text" \/ S[o + 2][1] # "text")
    BY <1>1, <1>3 DEF InnerFrom
  <1> HIDE DEF l
  <1>5. r[1] = S[o]
    <2>1. 1 \in 1 .. k /\ o + 1 - 1 = o
      BY <1>3
    <2> QED BY <1>2, <1>3, <2>1
  <1>6. r # <<Close>>
    <2>1. <<Close>>[1] = Close /\ Close[1] = "bytes"
      BY DEF Close
    <2> QED BY <1>4, <1>5, <2>1
  <1>7. ~Begins(r)
    <2> SUFFICES ASSUME k >= 3, r[1][1] = "u32", r[2][1] = "text", r[3][1] = "text" PROVE FALSE
      BY BeginsAs
    <2>1. o + 2 <= l /\ (S[o + 1][1] # "text" \/ S[o + 2][1] # "text")
      BY <1>4, <1>5
    <2>2. /\ 2 \in 1 .. k /\ o + 2 - 1 <= l /\ o + 2 - 1 = o + 1
          /\ 3 \in 1 .. k /\ o + 3 - 1 <= l /\ o + 3 - 1 = o + 2
      BY <1>1, <1>3, <2>1
    <2>3. r[2] = S[o + 1] /\ r[3] = S[o + 2]
      BY <1>2, <2>2
    <2> QED BY <2>1, <2>3
  <1> QED BY <1>6, <1>7

-----------------------------------------------------------------------------
(* What a reader takes for genuine.                                        *)

\* Two sequences of digits neither of which comes before the other are one.
LEMMA BeforeIsTotal ==
  ASSUME NEW s \in Seq(Nat), NEW t \in Seq(Nat), ~Before(s, t), ~Before(t, s)
  PROVE  s = t
  <1> DEFINE m == Len(s)
             n == Len(t)
             R == {k \in Nat : k <= m /\ k <= n => \A j \in 1 .. k : s[j] = t[j]}
  <1>1. /\ m \in Nat /\ n \in Nat
        /\ \A i \in 1 .. m : s[i] \in Nat
        /\ \A i \in 1 .. n : t[i] \in Nat
    OBVIOUS
  <1>2. \A i \in 1 .. n : i <= m + 1 /\ (\A j \in 1 .. i - 1 : s[j] = t[j])
                            => ~(i = m + 1 \/ s[i] < t[i])
    BY DEF Before
  <1>3. \A i \in 1 .. m : i <= n + 1 /\ (\A j \in 1 .. i - 1 : t[j] = s[j])
                            => ~(i = n + 1 \/ t[i] < s[i])
    BY DEF Before
  <1> HIDE DEF m, n
  <1>4. 0 \in R
    OBVIOUS
  <1>5. ASSUME NEW k \in Nat, k \in R PROVE k + 1 \in R
    <2> SUFFICES ASSUME k + 1 <= m, k + 1 <= n PROVE \A j \in 1 .. k + 1 : s[j] = t[j]
      OBVIOUS
    <2>1. \A j \in 1 .. k : s[j] = t[j]
      BY <1>1, <1>5
    <2>2. k + 1 \in 1 .. m /\ k + 1 \in 1 .. n /\ (k + 1) - 1 = k
      BY <1>1
    <2>3. ~(s[k + 1] < t[k + 1]) /\ ~(t[k + 1] < s[k + 1])
      BY <1>1, <1>2, <1>3, <2>1, <2>2
    <2>4. s[k + 1] = t[k + 1]
      BY <1>1, <2>2, <2>3
    <2> QED BY <2>1, <2>4
  <1>6. \A k \in Nat : k \in R
    <2> HIDE DEF R
    <2> QED BY <1>4, <1>5, AllNaturals
  <1>7. ~(m < n)
    <2> SUFFICES ASSUME m < n PROVE FALSE
      OBVIOUS
    <2>1. m + 1 \in 1 .. n /\ (m + 1) - 1 = m
      BY <1>1
    <2>2. m \in R
      BY <1>1, <1>6
    <2>3. \A j \in 1 .. m : s[j] = t[j]
      BY <1>1, <2>2
    <2> DEFINE i == m + 1
    <2>4. i \in 1 .. n /\ i <= m + 1 /\ i = m + 1 /\ i - 1 = m
      BY <1>1, <2>1
    <2> HIDE DEF i
    <2>5. \A j \in 1 .. i - 1 : s[j] = t[j]
      BY <2>3, <2>4
    <2> QED BY <1>2, <2>4, <2>5
  <1>8. ~(n < m)
    <2> SUFFICES ASSUME n < m PROVE FALSE
      OBVIOUS
    <2>1. n + 1 \in 1 .. m /\ (n + 1) - 1 = n
      BY <1>1
    <2>2. n \in R
      BY <1>1, <1>6
    <2>3. \A j \in 1 .. n : t[j] = s[j]
      BY <1>1, <2>2
    <2> DEFINE i == n + 1
    <2>4. i \in 1 .. m /\ i <= n + 1 /\ i = n + 1 /\ i - 1 = n
      BY <1>1, <2>1
    <2> HIDE DEF i
    <2>5. \A j \in 1 .. i - 1 : t[j] = s[j]
      BY <2>3, <2>4
    <2> QED BY <1>3, <2>4, <2>5
  <1>9. m = n
    BY <1>1, <1>7, <1>8
  <1>10. \A j \in 1 .. m : s[j] = t[j]
    <2>1. m \in R
      BY <1>1, <1>6
    <2> QED BY <1>1, <1>9, <2>1
  <1> QED BY <1>9, <1>10 DEF m, n

\* A chunk that begins with a message, as far as it has come, and that reads is
\* verified if all of it has come and the configurations agree, and only then.
THEOREM WhatVerifies ==
  ASSUME NEW m, WellFormed(m), NEW s, NEW chunk, Sq(chunk), Fits(chunk, 1, Serialize(m, s)),
         NEW configuration
  PROVE  LET d == Decode(chunk)
         IN  d.fate = "reads" =>
               (Verify(d, configuration) <=>
                  /\ Len(Serialize(m, s)) <= Len(chunk)
                  /\ ~Before(m.sequence, configuration) /\ ~Before(configuration, m.sequence))
  <1> DEFINE d == Decode(chunk)
             n == Len(Serialize(m, s))
             x == Sign(Owner(d.certificate), d.message.overlay, d.message.transaction,
                       d.content, Sha1(d.certificate))
  <1>1. d.fate = "reads" =>
          /\ d.message = m /\ d.content = SerializeContent(m) /\ d.certificate = Pem(s)
          /\ d.digest = <<IF n <= Len(chunk) THEN ComputeSignature(m, s) ELSE <<>>>>
    BY MessageRead
  <1>2. Owner(Pem(s)) = s
    BY DEF Owner, Pem
  <1> HIDE DEF d
  <1> SUFFICES ASSUME d.fate = "reads"
               PROVE  Verify(d, configuration) <=>
                        /\ n <= Len(chunk)
                        /\ ~Before(m.sequence, configuration) /\ ~Before(configuration, m.sequence)
    BY DEF d
  <1>3. x = ComputeSignature(m, s)
    BY <1>1, <1>2 DEF ComputeSignature
  <1>4. x # <<>>
    BY DEF Sign
  <1>5. d.digest = <<x>> <=> n <= Len(chunk)
    <2> DEFINE y == ComputeSignature(m, s)
    <2>1. x = y /\ y # <<>>
      BY <1>3, <1>4
    <2> HIDE DEF x, y, n
    <2>2. d.digest = <<IF n <= Len(chunk) THEN y ELSE <<>>>>
      BY <1>1 DEF y
    <2>3. <<y>> # <<<<>>>>
      <3>1. <<y>>[1] = y /\ <<<<>>>>[1] = <<>>
        OBVIOUS
      <3> QED BY <2>1, <3>1
    <2> QED BY <2>1, <2>2, <2>3
  <1>6. Verify(d, configuration) <=>
          /\ ~Before(m.sequence, configuration) /\ ~Before(configuration, m.sequence)
          /\ d.digest = <<x>>
    BY <1>1 DEF Verify
  <1> QED BY <1>5, <1>6

\* A chunk that does not begin like a message cannot be read as one.
LEMMA OnlyMessagesRead ==
  ASSUME NEW chunk, Sq(chunk), ~Begins(chunk)
  PROVE  Decode(chunk).fate # "reads"
  <1> DEFINE c0 == Cursor(chunk)
             r == Take(c0, HeaderKinds)
             h == DeSerializeHeader(c0)
             c == DeSerializeContent(h.cursor)
             b == DeSerializeSecBlock(c.cursor)
  <1>1. Decode(chunk).fate = b.cursor.fate
    BY DEF Decode
  <1>2. h.cursor.fate = "reads" => r.fate = "reads"
    <2> DEFINE v == DeSerializeIds(r, r.got[11])
               d == DeSerializeIds(v.cursor, r.got[12])
               e == DeSerializeOptions(d.cursor)
    <2>1. h.cursor = e
      BY DEF DeSerializeHeader, HeaderKinds
    <2>2. v.cursor.fate = "reads" => r.fate = "reads"
      BY TakeAfter DEF DeSerializeIds
    <2>3. d.cursor.fate = "reads" => v.cursor.fate = "reads"
      BY TakeAfter DEF DeSerializeIds
    <2>4. e.fate = "reads" => d.cursor.fate = "reads"
      BY TakeAfter DEF DeSerializeOptions
    <2> HIDE DEF r, v, d, e, h
    <2> QED BY <2>1, <2>2, <2>3, <2>4
  <1>3. (c.cursor.fate = "reads" => h.cursor.fate = "reads")
        /\ (b.cursor.fate = "reads" => c.cursor.fate = "reads")
    BY ContentAfter, SecBlockAfter
  <1>4. r.fate # "reads"
    <2> DEFINE K == HeaderKinds
    <2>1. DOMAIN K = 1 .. 13
      BY HeaderFieldsProperties, SqProperties
    <2>2. K[1] = "u32" /\ K[2] = "text" /\ K[3] = "text" /\ K[13] = "u16"
      BY DEF HeaderKinds
    <2>3. Len(chunk) \in Nat
      BY SqProperties
    <2>4. c0.fate = "reads" /\ c0.at = 1 /\ c0.chunk = chunk
      BY DEF Cursor
    <2> HIDE DEF K, c0
    <2>5. CASE Len(chunk) < 13
      <3>1. 13 \in DOMAIN K /\ ~(1 + 13 - 1 <= Len(chunk)) /\ ~(K[13] \in {"text", "raw"})
        BY <2>1, <2>2, <2>3, <2>5
      <3>2. \E i \in DOMAIN K : ~(c0.at + i - 1 <= Len(c0.chunk)) /\ ~(K[i] \in {"text", "raw"})
        BY <2>4, <3>1
      <3> QED BY <3>2 DEF Take, K
    <2>6. CASE ~(Len(chunk) < 13)
      <3>1. \E i \in 1 .. 3 : chunk[i][1] # K[i]
        BY <2>2, <2>3, <2>6, BeginsAs
      <3>2. PICK i \in 1 .. 3 : chunk[i][1] # K[i]
        BY <3>1
      <3>3. i \in DOMAIN K /\ c0.at + i - 1 = i /\ i <= Len(c0.chunk)
        BY <2>1, <2>3, <2>4, <2>6
      <3>4. \E j \in DOMAIN K : c0.at + j - 1 <= Len(c0.chunk) /\ c0.chunk[c0.at + j - 1][1] # K[j]
        BY <2>4, <3>2, <3>3
      <3> QED BY <3>4 DEF Take, K
    <2> QED BY <2>5, <2>6
  <1> QED BY <1>1, <1>2, <1>3, <1>4

-----------------------------------------------------------------------------
(* One hop: what is written to it, what is on the wire, and what waits.    *)

\* The messages written have the shape of their class, and transactions of
\* their own.
Messages(msgs) ==
  /\ Sq(msgs) /\ \A k \in 1 .. Len(msgs) : WellFormed(msgs[k].message)
  /\ \A j, k \in 1 .. Len(msgs) :
       msgs[j].message.transaction = msgs[k].message.transaction => j = k

Buffer(msgs, p, k) == Serialize(msgs[k].message, p)

\* Chunk or buffer b begins with message k, and can be told by it.
Starts(msgs, p, b, k) == Len(b) >= 9 /\ Fits(b, 1, Buffer(msgs, p, k))
Marked(msgs, b, k) == Begins(b) /\ TransactionOf(b) = msgs[k].message.transaction

\* A chunk begins with a message not yet passed by, or inside one.  A whole
\* chunk has all of that message; and so have the buffers that wait.
ChunkRight(msgs, p, lo, b) ==
  Sq(b) /\ (Begins(b) => \E k \in lo + 1 .. Len(msgs) : Starts(msgs, p, b, k))
WholeRight(msgs, p, lo, b) ==
  b # <<Close>> => \E k \in lo + 1 .. Len(msgs) :
                     Starts(msgs, p, b, k) /\ Len(Buffer(msgs, p, k)) <= Len(b)
BufferRight(msgs, p, lo, b) ==
  b = <<Close>> \/ \E k \in lo + 1 .. Len(msgs) : b = Buffer(msgs, p, k)

\* What begins with messages is in the order of writing.
Ahead(msgs, a, b) ==
  \A j, k \in 1 .. Len(msgs) : Marked(msgs, a, j) /\ Marked(msgs, b, k) => j < k
Rising(msgs, s) == \A x, y \in 1 .. Len(s) : x < y => Ahead(msgs, s[x], s[y])

Hop(msgs, p, lo, wr, wt, isCut) ==
  /\ Messages(msgs) /\ lo \in 0 .. Len(msgs) /\ Sq(wr) /\ Sq(wt)
  /\ \A x \in 1 .. Len(wr) : /\ ChunkRight(msgs, p, lo, wr[x])
                             /\ ~isCut => WholeRight(msgs, p, lo, wr[x])
  /\ \A x \in 1 .. Len(wt) : BufferRight(msgs, p, lo, wt[x])
  /\ Rising(msgs, wr) /\ Rising(msgs, wt)
  /\ \A x \in 1 .. Len(wr), y \in 1 .. Len(wt) : Ahead(msgs, wr[x], wt[y])

LEMMA Appended ==
  ASSUME NEW s, Sq(s), NEW e
  PROVE  /\ Sq(Append(s, e)) /\ Len(Append(s, e)) = Len(s) + 1 /\ Len(s) \in Nat
         /\ \A i \in 1 .. Len(s) : Append(s, e)[i] = s[i]
         /\ Append(s, e)[Len(s) + 1] = e
  <1> DEFINE S == Range(s) \cup {e}
  <1>1. s \in Seq(S) /\ e \in S
    BY DEF Sq
  <1> HIDE DEF S
  <1>2. /\ Append(s, e) \in Seq(S) /\ Len(Append(s, e)) = Len(s) + 1 /\ Len(s) \in Nat
        /\ \A i \in 1 .. Len(s) : Append(s, e)[i] = s[i]
        /\ Append(s, e)[Len(s) + 1] = e
    BY <1>1, AppendProperties
  <1> QED BY <1>2, SqOf

LEMMA Tailed ==
  ASSUME NEW s, Sq(s), s # <<>>
  PROVE  /\ Sq(Tail(s)) /\ Len(Tail(s)) = Len(s) - 1 /\ Len(s) \in Nat /\ Len(s) >= 1
         /\ Head(s) = s[1]
         /\ \A i \in 1 .. Len(s) - 1 : Tail(s)[i] = s[i + 1]
  <1> DEFINE S == Range(s)
  <1>1. s \in Seq(S)
    BY DEF Sq
  <1> HIDE DEF S
  <1>2. /\ Tail(s) \in Seq(S) /\ Len(Tail(s)) = Len(s) - 1 /\ Len(s) \in Nat /\ Len(s) >= 1
        /\ Head(s) = s[1]
        /\ \A i \in 1 .. Len(s) - 1 : Tail(s)[i] = s[i + 1]
    BY <1>1, HeadTailProperties
  <1> QED BY <1>2, SqOf

LEMMA BufferStarts ==
  ASSUME NEW msgs, Messages(msgs), NEW p, NEW k \in 1 .. Len(msgs)
  PROVE  /\ Sq(Buffer(msgs, p, k)) /\ Buffer(msgs, p, k) # <<>>
         /\ Len(Buffer(msgs, p, k)) \in Nat /\ Len(Buffer(msgs, p, k)) >= 26
         /\ Starts(msgs, p, Buffer(msgs, p, k), k)
  <1> DEFINE b == Buffer(msgs, p, k)
  <1>1. Sq(b) /\ Len(b) \in Nat /\ Len(b) >= 26
    BY MessageFields DEF Messages, Buffer
  <1> HIDE DEF b
  <1>2. b # <<>>
    <2>1. Len(<<>>) = 0
      OBVIOUS
    <2> QED BY <1>1, <2>1
  <1>3. Fits(b, 1, b)
    <2>1. \A i \in 1 .. Len(b) : 1 + i - 1 = i
      OBVIOUS
    <2> QED BY <2>1 DEF Fits
  <1> QED BY <1>1, <1>2, <1>3 DEF Starts, b

\* A chunk that begins with a message is told by its transaction.
LEMMA StartsMarks ==
  ASSUME NEW msgs, Messages(msgs), NEW p, NEW b, Sq(b), NEW k \in 1 .. Len(msgs),
         Starts(msgs, p, b, k)
  PROVE  /\ Begins(b) /\ Marked(msgs, b, k)
         /\ \A j \in 1 .. Len(msgs) : Marked(msgs, b, j) => j = k
  <1> DEFINE F == Buffer(msgs, p, k)
             n == Len(b)
  <1>1. /\ Len(F) \in Nat /\ Len(F) >= 26
        /\ F[1][1] = "u32" /\ F[2][1] = "text" /\ F[3][1] = "text"
        /\ F[9] = U32(msgs[k].message.transaction)
    BY MessageFields DEF Messages, Buffer
  <1>2. n \in Nat /\ n >= 9 /\ \A i \in 1 .. Len(F) : 1 + i - 1 <= n => b[1 + i - 1] = F[i]
    BY SqProperties DEF Starts, Fits
  <1> HIDE DEF F, n
  <1>3. b[1] = F[1] /\ b[2] = F[2] /\ b[3] = F[3] /\ b[9] = F[9]
    BY <1>1, <1>2
  <1>4. Begins(b)
    BY <1>1, <1>2, <1>3, BeginsAs DEF n
  <1>5. TransactionOf(b) = msgs[k].message.transaction
    BY <1>1, <1>3 DEF TransactionOf, U32
  <1> QED BY <1>4, <1>5 DEF Marked, Messages

LEMMA CloseBegins ==
  ~Begins(<<Close>>) /\ Sq(<<Close>>) /\ <<Close>> # <<>> /\ Len(<<Close>>) = 1
  <1>1. Sq(<<Close>>) /\ Len(<<Close>>) = 1
    BY Tuples
  <1>2. <<Close>> # <<>>
    OBVIOUS
  <1> QED BY <1>1, <1>2, BeginsAs

LEMMA BufferRightAs ==
  ASSUME NEW msgs, Messages(msgs), NEW p, NEW lo \in 0 .. Len(msgs), NEW b,
         BufferRight(msgs, p, lo, b)
  PROVE  Sq(b) /\ b # <<>>
  <1>1. CASE b = <<Close>>
    BY <1>1, CloseBegins
  <1>2. ASSUME NEW k \in lo + 1 .. Len(msgs), b = Buffer(msgs, p, k)
        PROVE  Sq(b) /\ b # <<>>
    <2>1. k \in 1 .. Len(msgs)
      BY SqProperties DEF Messages
    <2> QED BY <1>2, <2>1, BufferStarts
  <1> QED BY <1>1, <1>2 DEF BufferRight

LEMMA HopEmpty ==
  ASSUME NEW p, NEW isCut
  PROVE  Hop(<<>>, p, 0, <<>>, <<>>, isCut)
  <1>1. Sq(<<>>) /\ Len(<<>>) = 0
    BY DEF Sq
  <1> QED BY <1>1 DEF Hop, Messages, Rising

\* A message more is written: it is told from all on its way.
LEMMA HopWritten ==
  ASSUME NEW msgs, NEW p, NEW lo, NEW wr, NEW wt, NEW isCut, Hop(msgs, p, lo, wr, wt, isCut),
         NEW s, WellFormed(s.message),
         \A k \in 1 .. Len(msgs) : msgs[k].message.transaction # s.message.transaction
  PROVE  LET more == Append(msgs, s)
         IN  /\ Hop(more, p, lo, wr, wt, isCut)
             /\ Len(more) = Len(msgs) + 1 /\ Buffer(more, p, Len(more)) = Serialize(s.message, p)
             /\ \A x \in 1 .. Len(wr) : ~Marked(more, wr[x], Len(more))
             /\ \A x \in 1 .. Len(wt) : ~Marked(more, wt[x], Len(more))
  <1> DEFINE more == Append(msgs, s)
             n == Len(msgs)
  <1>1. /\ Messages(msgs) /\ Sq(msgs) /\ lo \in 0 .. n /\ Sq(wr) /\ Sq(wt)
        /\ \A x \in 1 .. Len(wr) : /\ ChunkRight(msgs, p, lo, wr[x])
                                   /\ ~isCut => WholeRight(msgs, p, lo, wr[x])
        /\ \A x \in 1 .. Len(wt) : BufferRight(msgs, p, lo, wt[x])
        /\ Rising(msgs, wr) /\ Rising(msgs, wt)
        /\ \A x \in 1 .. Len(wr), y \in 1 .. Len(wt) : Ahead(msgs, wr[x], wt[y])
    BY DEF Hop, Messages
  <1>2. /\ Sq(more) /\ Len(more) = n + 1 /\ n \in Nat
        /\ \A k \in 1 .. n : more[k] = msgs[k]
        /\ more[n + 1] = s
    BY <1>1, Appended
  <1> HIDE DEF more, n
  <1>3. \A k \in 1 .. n : Buffer(more, p, k) = Buffer(msgs, p, k)
    BY <1>2 DEF Buffer
  <1>4. \A k \in 1 .. n : \A b : /\ Starts(msgs, p, b, k) => Starts(more, p, b, k)
                                 /\ Marked(more, b, k) <=> Marked(msgs, b, k)
    BY <1>2, <1>3 DEF Starts, Marked
  <1>5. \A k \in lo + 1 .. n : k \in 1 .. n /\ k \in lo + 1 .. n + 1
    BY <1>1, <1>2
  <1>6. ASSUME NEW b, ChunkRight(msgs, p, lo, b)
        PROVE  ChunkRight(more, p, lo, b) /\ ~Marked(more, b, n + 1)
    <2>1. CASE ~Begins(b)
      BY <1>6, <2>1 DEF ChunkRight, Marked
    <2>2. CASE Begins(b)
      <3>1. PICK k \in lo + 1 .. n : Starts(msgs, p, b, k)
        BY <1>6, <2>2 DEF ChunkRight, n
      <3>2. k \in 1 .. n /\ Sq(b)
        BY <1>5, <1>6 DEF ChunkRight
      <3>3. Marked(msgs, b, k)
        BY <1>1, <3>1, <3>2, StartsMarks DEF n
      <3>4. ~Marked(more, b, n + 1)
        BY <1>2, <3>2, <3>3 DEF Marked, n
      <3>5. Starts(more, p, b, k) /\ k \in lo + 1 .. Len(more)
        BY <1>2, <1>4, <1>5, <3>1, <3>2
      <3> QED BY <3>2, <3>4, <3>5 DEF ChunkRight
    <2> QED BY <2>1, <2>2
  <1>7. ASSUME NEW b, WholeRight(msgs, p, lo, b)
        PROVE  WholeRight(more, p, lo, b)
    <2> SUFFICES ASSUME b # <<Close>>
                 PROVE  \E k \in lo + 1 .. Len(more) :
                          Starts(more, p, b, k) /\ Len(Buffer(more, p, k)) <= Len(b)
      BY DEF WholeRight
    <2>1. PICK k \in lo + 1 .. n : Starts(msgs, p, b, k) /\ Len(Buffer(msgs, p, k)) <= Len(b)
      BY <1>7 DEF WholeRight, n
    <2> QED BY <1>2, <1>3, <1>4, <1>5, <2>1
  <1>8. ASSUME NEW b, BufferRight(msgs, p, lo, b)
        PROVE  BufferRight(more, p, lo, b) /\ ~Marked(more, b, n + 1)
    <2>1. CASE b = <<Close>>
      BY <2>1, CloseBegins DEF BufferRight, Marked
    <2>2. CASE b # <<Close>>
      <3>1. PICK k \in lo + 1 .. n : b = Buffer(msgs, p, k)
        BY <1>8, <2>2 DEF BufferRight, n
      <3>2. k \in 1 .. n
        BY <1>5
      <3>3. Sq(b) /\ Starts(msgs, p, b, k)
        BY <1>1, <3>1, <3>2, BufferStarts DEF n
      <3>4. Marked(msgs, b, k)
        BY <1>1, <3>2, <3>3, StartsMarks DEF n
      <3>5. ~Marked(more, b, n + 1)
        BY <1>2, <3>2, <3>4 DEF Marked, n
      <3>6. b = Buffer(more, p, k) /\ k \in lo + 1 .. Len(more)
        BY <1>2, <1>3, <1>5, <3>1, <3>2
      <3> QED BY <3>5, <3>6 DEF BufferRight
    <2> QED BY <2>1, <2>2
  <1>9. Messages(more)
    <2>1. \A k \in 1 .. n + 1 : WellFormed(more[k].message)
      BY <1>1, <1>2 DEF Messages, n
    <2>2. ASSUME NEW j \in 1 .. n + 1, NEW k \in 1 .. n + 1,
                 more[j].message.transaction = more[k].message.transaction
          PROVE  j = k
      <3>1. CASE j \in 1 .. n /\ k \in 1 .. n
        BY <1>1, <1>2, <2>2, <3>1 DEF Messages, n
      <3>2. CASE j \in 1 .. n /\ k = n + 1
        BY <1>2, <2>2, <3>2 DEF n
      <3>3. CASE j = n + 1 /\ k \in 1 .. n
        BY <1>2, <2>2, <3>3 DEF n
      <3> QED BY <1>2, <3>1, <3>2, <3>3
    <2> QED BY <1>2, <2>1, <2>2 DEF Messages
  <1>10. ASSUME NEW a, NEW b, Ahead(msgs, a, b), ~Marked(more, a, n + 1), ~Marked(more, b, n + 1)
         PROVE  Ahead(more, a, b)
    <2> SUFFICES ASSUME NEW j \in 1 .. n + 1, NEW k \in 1 .. n + 1,
                        Marked(more, a, j), Marked(more, b, k)
                 PROVE  j < k
      BY <1>2 DEF Ahead
    <2>1. j \in 1 .. n /\ k \in 1 .. n
      BY <1>2, <1>10
    <2> QED BY <1>4, <1>10, <2>1 DEF Ahead, n
  <1>11. /\ \A x \in 1 .. Len(wr) : ~Marked(more, wr[x], n + 1)
         /\ \A x \in 1 .. Len(wt) : ~Marked(more, wt[x], n + 1)
    BY <1>1, <1>6, <1>8
  <1>12. Rising(more, wr) /\ Rising(more, wt)
    BY <1>1, <1>10, <1>11 DEF Rising
  <1>13. \A x \in 1 .. Len(wr), y \in 1 .. Len(wt) : Ahead(more, wr[x], wt[y])
    BY <1>1, <1>10, <1>11
  <1>14. lo \in 0 .. Len(more)
    BY <1>1, <1>2
  <1>15. Hop(more, p, lo, wr, wt, isCut)
    BY <1>1, <1>6, <1>7, <1>8, <1>9, <1>12, <1>13, <1>14 DEF Hop
  <1>16. Buffer(more, p, n + 1) = Serialize(s.message, p)
    BY <1>2 DEF Buffer
  <1> QED BY <1>2, <1>11, <1>15, <1>16 DEF more, n

\* A buffer more waits: "close", or the last message.
LEMMA HopWaits ==
  ASSUME NEW msgs, NEW p, NEW lo, NEW wr, NEW wt, NEW isCut, Hop(msgs, p, lo, wr, wt, isCut),
         NEW b,
         \/ b = <<Close>>
         \/ /\ Len(msgs) \in lo + 1 .. Len(msgs) /\ b = Buffer(msgs, p, Len(msgs))
            /\ \A x \in 1 .. Len(wr) : ~Marked(msgs, wr[x], Len(msgs))
            /\ \A x \in 1 .. Len(wt) : ~Marked(msgs, wt[x], Len(msgs))
  PROVE  Hop(msgs, p, lo, wr, Append(wt, b), isCut)
  <1> DEFINE n == Len(msgs)
             more == Append(wt, b)
             m == Len(wt)
  <1>1. /\ Messages(msgs) /\ n \in Nat /\ lo \in 0 .. n /\ Sq(wr) /\ Sq(wt)
        /\ \A x \in 1 .. Len(wr) : /\ ChunkRight(msgs, p, lo, wr[x])
                                   /\ ~isCut => WholeRight(msgs, p, lo, wr[x])
        /\ \A x \in 1 .. Len(wt) : BufferRight(msgs, p, lo, wt[x])
        /\ Rising(msgs, wr) /\ Rising(msgs, wt)
        /\ \A x \in 1 .. Len(wr), y \in 1 .. Len(wt) : Ahead(msgs, wr[x], wt[y])
    BY SqProperties DEF Hop, Messages
  <1>2. /\ Sq(more) /\ Len(more) = m + 1 /\ m \in Nat
        /\ \A k \in 1 .. m : more[k] = wt[k]
        /\ more[m + 1] = b
    BY <1>1, Appended
  <1> HIDE DEF more, n, m
  <1>3. BufferRight(msgs, p, lo, b)
    BY DEF BufferRight
  <1>4. /\ \A x \in 1 .. Len(wr) : Ahead(msgs, wr[x], b)
        /\ \A x \in 1 .. m : Ahead(msgs, wt[x], b)
    <2>1. CASE b = <<Close>>
      BY <2>1, CloseBegins DEF Ahead, Marked
    <2>2. CASE b # <<Close>>
      <3>1. /\ n \in 1 .. n /\ b = Buffer(msgs, p, n)
            /\ \A x \in 1 .. Len(wr) : ~Marked(msgs, wr[x], n)
            /\ \A x \in 1 .. m : ~Marked(msgs, wt[x], n)
        BY <1>1, <2>2 DEF n, m
      <3>2. Sq(b) /\ Starts(msgs, p, b, n)
        BY <1>1, <3>1, BufferStarts DEF n
      <3>3. \A j \in 1 .. n : Marked(msgs, b, j) => j = n
        BY <1>1, <3>1, <3>2, StartsMarks DEF n
      <3>4. ASSUME NEW a, ~Marked(msgs, a, n) PROVE Ahead(msgs, a, b)
        <4> SUFFICES ASSUME NEW j \in 1 .. n, NEW k \in 1 .. n, Marked(msgs, a, j), Marked(msgs, b, k)
                     PROVE  j < k
          BY DEF Ahead, n
        <4> QED BY <1>1, <3>3, <3>4
      <3> QED BY <3>1, <3>4
    <2> QED BY <2>1, <2>2
  <1>5. \A x \in 1 .. m + 1 : x = m + 1 \/ x \in 1 .. m
    BY <1>2
  <1>6. \A x \in 1 .. m + 1 : BufferRight(msgs, p, lo, more[x])
    BY <1>1, <1>2, <1>3, <1>5 DEF m
  <1>7. \A x \in 1 .. Len(wr), y \in 1 .. m + 1 : Ahead(msgs, wr[x], more[y])
    BY <1>1, <1>2, <1>4, <1>5 DEF m
  <1>8. ASSUME NEW x \in 1 .. m + 1, NEW y \in 1 .. m + 1, x < y
        PROVE  Ahead(msgs, more[x], more[y])
    <2>1. x \in 1 .. m
      BY <1>2, <1>8
    <2>2. CASE y = m + 1
      BY <1>2, <1>4, <2>1, <2>2
    <2>3. CASE y \in 1 .. m
      BY <1>1, <1>2, <1>8, <2>1, <2>3 DEF Rising, m
    <2> QED BY <1>5, <2>2, <2>3
  <1>9. Rising(msgs, more)
    BY <1>2, <1>8 DEF Rising
  <1>10. Hop(msgs, p, lo, wr, more, isCut)
    BY <1>1, <1>2, <1>6, <1>7, <1>9 DEF Hop, n
  <1> QED BY <1>10 DEF more

\* The first chunk has been read.
LEMMA HopRead ==
  ASSUME NEW msgs, NEW p, NEW lo, NEW wr, NEW wt, NEW isCut, Hop(msgs, p, lo, wr, wt, isCut),
         wr # <<>>
  PROVE  Hop(msgs, p, lo, Tail(wr), wt, isCut)
  <1> DEFINE rest == Tail(wr)
             m == Len(wr)
  <1>1. /\ Messages(msgs) /\ lo \in 0 .. Len(msgs) /\ Sq(wr) /\ Sq(wt)
        /\ \A x \in 1 .. m : /\ ChunkRight(msgs, p, lo, wr[x])
                             /\ ~isCut => WholeRight(msgs, p, lo, wr[x])
        /\ \A x \in 1 .. Len(wt) : BufferRight(msgs, p, lo, wt[x])
        /\ Rising(msgs, wr) /\ Rising(msgs, wt)
        /\ \A x \in 1 .. m, y \in 1 .. Len(wt) : Ahead(msgs, wr[x], wt[y])
    BY DEF Hop
  <1>2. /\ Sq(rest) /\ Len(rest) = m - 1 /\ m \in Nat /\ m >= 1
        /\ \A x \in 1 .. m - 1 : rest[x] = wr[x + 1]
    BY <1>1, Tailed
  <1> HIDE DEF rest, m
  <1>3. \A x \in 1 .. m - 1 : x + 1 \in 1 .. m
    BY <1>2
  <1>4. \A x \in 1 .. m - 1 : /\ ChunkRight(msgs, p, lo, rest[x])
                              /\ ~isCut => WholeRight(msgs, p, lo, rest[x])
                              /\ \A y \in 1 .. Len(wt) : Ahead(msgs, rest[x], wt[y])
    BY <1>1, <1>2, <1>3
  <1>5. ASSUME NEW x \in 1 .. m - 1, NEW y \in 1 .. m - 1, x < y
        PROVE  Ahead(msgs, rest[x], rest[y])
    <2>1. x + 1 \in 1 .. m /\ y + 1 \in 1 .. m /\ x + 1 < y + 1
      BY <1>3, <1>5
    <2>2. Ahead(msgs, wr[x + 1], wr[y + 1])
      BY <1>1, <2>1 DEF Rising, m
    <2> QED BY <1>2, <2>2
  <1>6. Rising(msgs, rest)
    BY <1>2, <1>5 DEF Rising
  <1>7. Hop(msgs, p, lo, rest, wt, isCut)
    BY <1>1, <1>2, <1>4, <1>6 DEF Hop
  <1> QED BY <1>7 DEF rest

\* The first chunk was a message: all that is still on its way is later.
LEMMA HopReceived ==
  ASSUME NEW msgs, NEW p, NEW lo, NEW wr, NEW wt, NEW isCut, Hop(msgs, p, lo, wr, wt, isCut),
         wr # <<>>, NEW k \in lo + 1 .. Len(msgs), Starts(msgs, p, wr[1], k)
  PROVE  Hop(msgs, p, k, Tail(wr), wt, isCut)
  <1> DEFINE rest == Tail(wr)
             n == Len(msgs)
             m == Len(wr)
             a == wr[1]
  <1>1. /\ Messages(msgs) /\ n \in Nat /\ lo \in 0 .. n /\ Sq(wr)
        /\ ChunkRight(msgs, p, lo, a) /\ Rising(msgs, wr)
        /\ m \in Nat /\ m >= 1 /\ Len(rest) = m - 1
        /\ \A x \in 1 .. m - 1 : rest[x] = wr[x + 1]
        /\ \A y \in 1 .. Len(wt) : Ahead(msgs, a, wt[y])
    <2>1. Sq(wr) /\ Messages(msgs) /\ Sq(msgs) /\ lo \in 0 .. n /\ Rising(msgs, wr)
      BY DEF Hop, Messages
    <2>2. /\ m \in Nat /\ m >= 1 /\ Len(rest) = m - 1
          /\ \A x \in 1 .. m - 1 : rest[x] = wr[x + 1]
      BY <2>1, Tailed
    <2>3. 1 \in 1 .. m
      BY <2>2
    <2>4. ChunkRight(msgs, p, lo, a) /\ \A y \in 1 .. Len(wt) : Ahead(msgs, a, wt[y])
      BY <2>3 DEF Hop
    <2> QED BY <2>1, <2>2, <2>4, SqProperties
  <1>2. Hop(msgs, p, lo, rest, wt, isCut)
    BY HopRead
  <1>3. k \in 1 .. n /\ k \in Nat /\ lo \in Nat
    BY <1>1
  <1>4. Marked(msgs, a, k)
    BY <1>1, <1>3, StartsMarks DEF ChunkRight
  <1> HIDE DEF rest, a, n
  <1>5. ASSUME NEW b, Sq(b), Ahead(msgs, a, b), NEW l \in lo + 1 .. n, Starts(msgs, p, b, l)
        PROVE  l \in k + 1 .. n
    <2>1. l \in 1 .. n
      BY <1>1
    <2>2. Marked(msgs, b, l)
      BY <1>1, <1>5, <2>1, StartsMarks DEF n
    <2>3. k < l
      BY <1>3, <1>4, <1>5, <2>1, <2>2 DEF Ahead, n
    <2> QED BY <1>1, <1>3, <2>1, <2>3
  <1>6. ASSUME NEW x \in 1 .. Len(rest)
        PROVE  ChunkRight(msgs, p, k, rest[x]) /\ (~isCut => WholeRight(msgs, p, k, rest[x]))
    <2>1. ChunkRight(msgs, p, lo, rest[x]) /\ (~isCut => WholeRight(msgs, p, lo, rest[x]))
      BY <1>2 DEF Hop
    <2>2. Ahead(msgs, a, rest[x])
      <3>1. x \in 1 .. m - 1 /\ x + 1 \in 1 .. m /\ 1 \in 1 .. m /\ 1 < x + 1
        BY <1>1
      <3>2. rest[x] = wr[x + 1]
        BY <1>1, <3>1
      <3> QED BY <1>1, <3>1, <3>2 DEF Rising, a
    <2>3. Sq(rest[x])
      BY <2>1 DEF ChunkRight
    <2>4. ChunkRight(msgs, p, k, rest[x])
      <3> SUFFICES ASSUME Begins(rest[x])
                   PROVE  \E l \in k + 1 .. n : Starts(msgs, p, rest[x], l)
        BY <2>3 DEF ChunkRight, n
      <3>1. PICK l \in lo + 1 .. n : Starts(msgs, p, rest[x], l)
        BY <2>1 DEF ChunkRight, n
      <3> QED BY <1>5, <2>2, <2>3, <3>1
    <2>5. ASSUME ~isCut PROVE WholeRight(msgs, p, k, rest[x])
      <3> SUFFICES ASSUME rest[x] # <<Close>>
                   PROVE  \E l \in k + 1 .. n : /\ Starts(msgs, p, rest[x], l)
                                                /\ Len(Buffer(msgs, p, l)) <= Len(rest[x])
        BY DEF WholeRight, n
      <3>1. PICK l \in lo + 1 .. n : /\ Starts(msgs, p, rest[x], l)
                                     /\ Len(Buffer(msgs, p, l)) <= Len(rest[x])
        BY <2>1, <2>5 DEF WholeRight, n
      <3> QED BY <1>5, <2>2, <2>3, <3>1
    <2> QED BY <2>4, <2>5
  <1>7. ASSUME NEW y \in 1 .. Len(wt)
        PROVE  BufferRight(msgs, p, k, wt[y])
    <2>1. CASE wt[y] = <<Close>>
      BY <2>1 DEF BufferRight
    <2>2. CASE wt[y] # <<Close>>
      <3>1. BufferRight(msgs, p, lo, wt[y])
        BY <1>2 DEF Hop
      <3>2. PICK l \in lo + 1 .. n : wt[y] = Buffer(msgs, p, l)
        BY <2>2, <3>1 DEF BufferRight, n
      <3>3. l \in 1 .. n
        BY <1>1
      <3>4. Sq(wt[y]) /\ Starts(msgs, p, wt[y], l)
        BY <1>1, <3>2, <3>3, BufferStarts DEF n
      <3>5. l \in k + 1 .. n
        BY <1>1, <1>5, <3>4
      <3> QED BY <3>2, <3>5 DEF BufferRight, n
    <2> QED BY <2>1, <2>2
  <1>8. k \in 0 .. n
    BY <1>3
  <1>9. Hop(msgs, p, k, rest, wt, isCut)
    BY <1>2, <1>6, <1>7, <1>8 DEF Hop, n
  <1> QED BY <1>9 DEF rest

\* What waits is written.
LEMMA HopEmits ==
  ASSUME NEW msgs, NEW p, NEW lo, NEW wr, NEW W, NEW isCut, Hop(msgs, p, lo, wr, W, isCut),
         NEW recs, NEW seg, NEW off, Cuts(recs, W, seg, off), NEW cutNow,
         cutNow <=> isCut \/ \E r \in Range(recs) : ~Begins(r) /\ r # <<Close>>
  PROVE  /\ Hop(msgs, p, lo, wr \o recs, <<>>, cutNow)
         /\ \A r \in Range(recs) :
              Begins(r) => \E k \in 1 .. Len(msgs) : TransactionOf(r) = msgs[k].message.transaction
  <1> DEFINE n == Len(msgs)
             m == Len(wr)
             q == Len(recs)
             all == wr \o recs
  <1>1. /\ Messages(msgs) /\ n \in Nat /\ lo \in 0 .. n /\ Sq(wr) /\ Sq(W)
        /\ \A x \in 1 .. m : /\ ChunkRight(msgs, p, lo, wr[x])
                             /\ ~isCut => WholeRight(msgs, p, lo, wr[x])
        /\ \A x \in 1 .. Len(W) : BufferRight(msgs, p, lo, W[x])
        /\ Rising(msgs, wr) /\ Rising(msgs, W)
        /\ \A x \in 1 .. m, y \in 1 .. Len(W) : Ahead(msgs, wr[x], W[y])
    BY SqProperties DEF Hop, Messages
  <1>2. /\ Sq(recs) /\ q \in Nat /\ m \in Nat /\ DOMAIN recs = 1 .. q
        /\ \A x \in 1 .. q : seg[x] \in 1 .. Len(W) /\ off[x] \in Nat \ {0}
        /\ \A x \in 1 .. q :
             /\ Sq(recs[x]) /\ Len(recs[x]) >= 1
             /\ off[x] <= Len(W[seg[x]]) /\ StartsAt(recs[x], W[seg[x]], off[x])
             /\ off[x] + Len(recs[x]) - 1 < Len(W[seg[x]])
                  => /\ Len(recs[x]) >= 9 /\ x + 1 \in 1 .. q
                     /\ seg[x + 1] = seg[x] /\ off[x + 1] > 1
        /\ \A x, y \in 1 .. q :
             x < y => seg[x] < seg[y] \/ (seg[x] = seg[y] /\ off[x] < off[y])
    BY <1>1, SqProperties DEF Cuts
  <1>3. /\ Sq(all) /\ Len(all) = m + q
        /\ \A x \in 1 .. m : all[x] = wr[x]
        /\ \A x \in 1 .. q : all[m + x] = recs[x]
    BY <1>1, <1>2, Joined
  <1> HIDE DEF all, n, m, q
  <1>4. ASSUME NEW x \in 1 .. q, W[seg[x]] # <<Close>>, off[x] > 1
        PROVE  ~Begins(recs[x]) /\ recs[x] # <<Close>>
    <2>1. PICK k \in lo + 1 .. n : W[seg[x]] = Buffer(msgs, p, k)
      BY <1>1, <1>2, <1>4 DEF BufferRight, n
    <2>2. k \in 1 .. n
      BY <1>1
    <2>3. WellFormed(msgs[k].message)
      BY <1>1, <2>2 DEF Messages, n
    <2>4. W[seg[x]] = Serialize(msgs[k].message, p)
      BY <2>1 DEF Buffer
    <2> DEFINE r == recs[x]
               o == off[x]
               s == msgs[k].message
    <2>5. /\ Sq(r) /\ Len(r) >= 1 /\ o \in Nat /\ o > 1 /\ o <= Len(Serialize(s, p))
          /\ StartsAt(r, Serialize(s, p), o) /\ WellFormed(s)
      BY <1>2, <1>4, <2>3, <2>4
    <2> HIDE DEF r, o, s
    <2>6. ~Begins(r) /\ r # <<Close>>
      BY <2>5, InsideMessage
    <2> QED BY <2>6 DEF r
  <1>5. ASSUME NEW x \in 1 .. q, W[seg[x]] = <<Close>>
        PROVE  ~Begins(recs[x])
    <2>1. off[x] = 1
      <3>1. off[x] \in Nat \ {0}
        BY <1>2
      <3>2. off[x] <= Len(W[seg[x]])
        BY <1>2
      <3>3. off[x] <= 1
        BY <3>2, <1>5, CloseBegins
      <3> QED BY <3>1, <3>3
    <2>2. Len(recs[x]) \in Nat /\ Len(recs[x]) >= 1
      BY <1>2, SqProperties
    <2>3. recs[x][1] = <<Close>>[1]
      <3>1. 1 \in 1 .. Len(recs[x]) /\ 1 + 1 - 1 <= Len(<<Close>>)
        BY <2>2, CloseBegins
      <3>2. StartsAt(recs[x], <<Close>>, 1)
        <4>1. StartsAt(recs[x], W[seg[x]], off[x])
          BY <1>2
        <4> QED BY <4>1, <1>5, <2>1
      <3>3. recs[x][1] = <<Close>>[1 + 1 - 1]
        BY <3>1, <3>2 DEF StartsAt
      <3> QED BY <3>3
    <2>4. recs[x][1][1] = "bytes"
      BY <2>3 DEF Close
    <2> QED BY <2>4, BeginsAs
  \* A record that begins like a message begins with one of the buffers.
  <1>6. ASSUME NEW x \in 1 .. q, Begins(recs[x])
        PROVE  /\ off[x] = 1
               /\ \E k \in lo + 1 .. n :
                    /\ W[seg[x]] = Buffer(msgs, p, k) /\ Starts(msgs, p, recs[x], k)
                    /\ Starts(msgs, p, W[seg[x]], k) /\ Sq(W[seg[x]])
    <2>1. W[seg[x]] # <<Close>>
      BY <1>5, <1>6
    <2>2. off[x] = 1
      <3>1. off[x] \in Nat \ {0}
        BY <1>2
      <3>2. ~(off[x] > 1)
        BY <1>4, <1>6, <2>1
      <3> QED BY <3>1, <3>2
    <2>3. PICK k \in lo + 1 .. n : W[seg[x]] = Buffer(msgs, p, k)
      BY <1>1, <1>2, <2>1 DEF BufferRight, n
    <2>4. k \in 1 .. n
      BY <1>1
    <2> DEFINE b == Buffer(msgs, p, k)
               r == recs[x]
    <2>5. Sq(b) /\ Len(b) \in Nat /\ Len(b) >= 26 /\ Starts(msgs, p, b, k)
      BY <1>1, <2>4, BufferStarts DEF n
    <2>6. /\ Sq(r) /\ Len(r) \in Nat /\ StartsAt(r, b, 1)
          /\ 1 + Len(r) - 1 < Len(b) => Len(r) >= 9
      BY SMTT(30), <1>2, <2>2, <2>3, SqProperties
    <2> HIDE DEF r
    <2>7. Len(r) >= 9
      <3> HIDE DEF b
      <3> QED BY <2>5, <2>6
    <2>8. Fits(r, 1, b)
      <3> HIDE DEF b
      <3> SUFFICES ASSUME NEW i \in 1 .. Len(b), 1 + i - 1 <= Len(r) PROVE r[1 + i - 1] = b[i]
        BY DEF Fits
      <3>1. i \in 1 .. Len(r) /\ 1 + i - 1 = i
        BY <2>6
      <3> QED BY <2>6, <3>1 DEF StartsAt
    <2>9. Starts(msgs, p, r, k)
      BY <2>7, <2>8 DEF Starts
    <2> QED BY <2>2, <2>3, <2>5, <2>9 DEF r
  <1>7. ASSUME NEW x \in 1 .. q
        PROVE  ChunkRight(msgs, p, lo, recs[x])
    BY <1>2, <1>6 DEF ChunkRight, n
  <1>8. ASSUME NEW x \in 1 .. q, ~cutNow
        PROVE  WholeRight(msgs, p, lo, recs[x])
    <2> SUFFICES ASSUME recs[x] # <<Close>>
                 PROVE  \E k \in lo + 1 .. n : /\ Starts(msgs, p, recs[x], k)
                                               /\ Len(Buffer(msgs, p, k)) <= Len(recs[x])
      BY DEF WholeRight, n
    <2>1. \A y \in 1 .. q : Begins(recs[y]) \/ recs[y] = <<Close>>
      BY <1>2, <1>8 DEF Range
    <2>2. off[x] = 1 /\ \E k \in lo + 1 .. n : /\ W[seg[x]] = Buffer(msgs, p, k)
                                              /\ Starts(msgs, p, recs[x], k)
      BY <1>6, <2>1
    <2>3. PICK k \in lo + 1 .. n : W[seg[x]] = Buffer(msgs, p, k) /\ Starts(msgs, p, recs[x], k)
      BY <2>2
    <2>4. W[seg[x]] # <<Close>>
      BY <1>5, <2>1
    <2>5. ~(off[x] + Len(recs[x]) - 1 < Len(W[seg[x]]))
      <3> SUFFICES ASSUME off[x] + Len(recs[x]) - 1 < Len(W[seg[x]]) PROVE FALSE
        OBVIOUS
      <3>1. x + 1 \in 1 .. q /\ seg[x + 1] = seg[x] /\ off[x + 1] > 1
        BY <1>2
      <3>2. ~Begins(recs[x + 1]) /\ recs[x + 1] # <<Close>>
        BY <1>4, <2>4, <3>1
      <3> QED BY <2>1, <3>1, <3>2
    <2>6. Len(Buffer(msgs, p, k)) <= Len(recs[x])
      <3> DEFINE a == Len(recs[x])
                 b == Len(Buffer(msgs, p, k))
      <3>1. a \in Nat /\ b \in Nat
        <4>1. k \in 1 .. n
          BY <1>1
        <4> QED BY <1>1, <1>2, <4>1, BufferStarts, SqProperties DEF n
      <3>2. ~(1 + a - 1 < b)
        BY <2>2, <2>3, <2>5
      <3> HIDE DEF a, b
      <3>3. b <= a
        BY <3>1, <3>2
      <3> QED BY <3>3 DEF a, b
    <2> QED BY <2>3, <2>6
  \* A record is as far as the buffer that it begins with.
  <1>9. ASSUME NEW x \in 1 .. q, NEW j \in 1 .. n, Marked(msgs, recs[x], j)
        PROVE  Marked(msgs, W[seg[x]], j) /\ off[x] = 1
    <2>1. Begins(recs[x])
      BY <1>9 DEF Marked
    <2>2. off[x] = 1 /\ \E k \in lo + 1 .. n : /\ Starts(msgs, p, recs[x], k)
                                              /\ Starts(msgs, p, W[seg[x]], k) /\ Sq(W[seg[x]])
      BY <1>6, <2>1
    <2>3. PICK k \in lo + 1 .. n : /\ Starts(msgs, p, recs[x], k)
                                   /\ Starts(msgs, p, W[seg[x]], k) /\ Sq(W[seg[x]])
      BY <2>2
    <2>4. k \in 1 .. n
      BY <1>1
    <2>5. j = k
      BY <1>1, <1>2, <1>9, <2>3, <2>4, StartsMarks DEF n
    <2>6. Marked(msgs, W[seg[x]], k)
      BY <1>1, <2>3, <2>4, StartsMarks DEF n
    <2> QED BY <2>2, <2>5, <2>6
  <1>10. ASSUME NEW x \in 1 .. q, NEW y \in 1 .. q, x < y
         PROVE  Ahead(msgs, recs[x], recs[y])
    <2> SUFFICES ASSUME NEW j \in 1 .. n, NEW k \in 1 .. n,
                        Marked(msgs, recs[x], j), Marked(msgs, recs[y], k)
                 PROVE  j < k
      BY DEF Ahead, n
    <2>1. Marked(msgs, W[seg[x]], j) /\ off[x] = 1 /\ Marked(msgs, W[seg[y]], k) /\ off[y] = 1
      BY <1>9
    <2>2. seg[x] < seg[y] /\ seg[x] \in 1 .. Len(W) /\ seg[y] \in 1 .. Len(W)
      <3>1. seg[x] < seg[y] \/ (seg[x] = seg[y] /\ off[x] < off[y])
        BY <1>2, <1>10
      <3>2. seg[x] \in 1 .. Len(W) /\ seg[y] \in 1 .. Len(W)
        BY <1>2
      <3> QED BY <2>1, <3>1, <3>2
    <2>3. Ahead(msgs, W[seg[x]], W[seg[y]])
      BY <1>1, <2>2 DEF Rising
    <2> QED BY <2>1, <2>3 DEF Ahead, n
  <1>11. ASSUME NEW x \in 1 .. m, NEW y \in 1 .. q
         PROVE  Ahead(msgs, wr[x], recs[y])
    <2> SUFFICES ASSUME NEW j \in 1 .. n, NEW k \in 1 .. n,
                        Marked(msgs, wr[x], j), Marked(msgs, recs[y], k)
                 PROVE  j < k
      BY DEF Ahead, n
    <2>1. Marked(msgs, W[seg[y]], k) /\ seg[y] \in 1 .. Len(W)
      BY <1>2, <1>9
    <2>2. Ahead(msgs, wr[x], W[seg[y]])
      BY <1>1, <2>1
    <2> QED BY <2>1, <2>2 DEF Ahead, n
  <1>12. ASSUME NEW x \in 1 .. m + q
         PROVE  x \in 1 .. m \/ (x - m \in 1 .. q /\ x = m + (x - m))
    BY <1>2
  <1>13. ASSUME NEW x \in 1 .. m + q
         PROVE  /\ ChunkRight(msgs, p, lo, all[x])
                /\ ~cutNow => WholeRight(msgs, p, lo, all[x])
    <2>1. CASE x \in 1 .. m
      BY <1>1, <1>3, <2>1
    <2>2. CASE x - m \in 1 .. q /\ x = m + (x - m)
      <3>1. all[x] = recs[x - m]
        BY <1>3, <2>2
      <3> QED BY <1>7, <1>8, <2>2, <3>1
    <2> QED BY <1>12, <2>1, <2>2
  <1>14. ASSUME NEW x \in 1 .. m + q, NEW y \in 1 .. m + q, x < y
         PROVE  Ahead(msgs, all[x], all[y])
    <2>1. CASE y \in 1 .. m
      <3>1. x \in 1 .. m
        BY <1>2, <1>14, <2>1
      <3> QED BY <1>1, <1>3, <1>14, <2>1, <3>1 DEF Rising, m
    <2>2. CASE x \in 1 .. m /\ y - m \in 1 .. q /\ y = m + (y - m)
      <3>1. all[x] = wr[x] /\ all[y] = recs[y - m]
        BY <1>3, <2>2
      <3> QED BY <1>11, <2>2, <3>1
    <2>3. CASE x - m \in 1 .. q /\ x = m + (x - m) /\ y - m \in 1 .. q /\ y = m + (y - m)
      <3>1. all[x] = recs[x - m] /\ all[y] = recs[y - m]
        BY <1>3, <2>3
      <3>2. x - m < y - m
        BY <1>2, <1>14
      <3> QED BY <1>10, <2>3, <3>1, <3>2
    <2>4. x - m \in 1 .. q => y \notin 1 .. m
      BY <1>2, <1>14
    <2> QED BY <1>12, <2>1, <2>2, <2>3, <2>4
  <1>15. Hop(msgs, p, lo, all, <<>>, cutNow)
    <2>1. Sq(<<>>) /\ Len(<<>>) = 0
      BY DEF Sq
    <2>2. Rising(msgs, all) /\ Rising(msgs, <<>>)
      BY <1>3, <1>14, <2>1 DEF Rising
    <2> QED BY <1>1, <1>3, <1>13, <2>1, <2>2 DEF Hop, n
  <1>16. ASSUME NEW r \in Range(recs), Begins(r)
         PROVE  \E k \in 1 .. n : TransactionOf(r) = msgs[k].message.transaction
    <2>1. PICK x \in 1 .. q : r = recs[x]
      BY <1>2 DEF Range
    <2>2. PICK k \in lo + 1 .. n : Starts(msgs, p, recs[x], k)
      BY <1>6, <1>16, <2>1
    <2>3. k \in 1 .. n
      BY <1>1
    <2>4. Marked(msgs, recs[x], k)
      BY <1>1, <1>2, <2>2, <2>3, StartsMarks DEF n
    <2> QED BY <2>1, <2>3, <2>4 DEF Marked
  <1> QED BY <1>15, <1>16 DEF all, n

-----------------------------------------------------------------------------
(* The inductive invariant.                                                *)

\* f takes each message of got to its place among msgs, and goes up, not
\* beyond last.
Picks(f, got, msgs, last) ==
  /\ f \in [1 .. Len(got) -> 1 .. Len(msgs)]
  /\ \A i \in 1 .. Len(got) : got[i] = msgs[f[i]] /\ f[i] <= last
  /\ \A i, j \in 1 .. Len(got) : i < j => f[i] < f[j]

\* Place, for any messages.
PlaceIn(got, msgs) ==
  IF got = <<>> THEN 0
  ELSE SelectInSeq(msgs, LAMBDA s : s.message.transaction = Last(got).message.transaction)

\* What a peer writes of its own, and what the relay writes of another's.
Own(h, m) ==
  /\ m.sequence = sequence[Route[h]] /\ m.ttl = InitialTtl /\ m.via = <<NodeID(Route[h])>>
  /\ \/ m.dest = <<NodeID(Reader(h))>>
     \/ h = 1 /\ m.dest = <<NodeID(Reader(h)), ResourceID(Target)>>

Relayed(h, m) ==
  /\ h = 2 /\ m.sequence = sequence[Route[2]] /\ m.ttl = InitialTtl - 1
  /\ m.via = <<NodeID(Route[1]), NodeID(Route[2])>> /\ m.dest = <<ResourceID(Target)>>
  /\ \E j \in DOMAIN received[1] :
       LET o == received[1][j].message
       IN  /\ o.transaction = m.transaction /\ o.overlay = m.overlay
           /\ o.code = m.code /\ o.body = m.body

WrittenRight(h) ==
  /\ written[h] \in Seq(SignedMessage)
  /\ \A k \in 1 .. Len(written[h]) :
       /\ written[h][k].signer = Route[h]
       /\ Own(h, written[h][k].message) \/ Relayed(h, written[h][k].message)

\* What the reader has got is picked from what was written, and only a reader
\* of the same configuration has got anything.
ReceivedRight(h) ==
  /\ received[h] \in Seq(SignedMessage)
  /\ received[h] # <<>> => sequence[Route[h]] = sequence[Reader(h)]
  /\ \E f \in [1 .. Len(received[h]) -> 1 .. Len(written[h])] :
       Picks(f, received[h], written[h], Place(h))

HopRight(h) ==
  /\ Hop(written[h], Route[h], Place(h), wire[h], waiting[h], h \in cut)
  /\ WrittenRight(h) /\ ReceivedRight(h)
  /\ Reader(h) \in ended => h \in cut
  /\ waiting[h] # <<>> => busy[h]

\* The transactions count the messages of all peers, and the relay sends on
\* only what it has received.
Numbered == \E n \in 0 .. MaxMessages : Transactions = 1 .. n

Followed ==
  \A k \in 1 .. Len(written[1]), j \in 1 .. Len(written[2]) :
    written[1][k].message.transaction = written[2][j].message.transaction => k <= Place(1)

Right ==
  /\ sequence \in Configurations
  /\ DOMAIN waiting = Hops /\ DOMAIN wire = Hops
  /\ busy \in [Hops -> BOOLEAN] /\ state \in [Hops -> {"open", "closing", "closed"}]
  /\ ended \subseteq Peers /\ cut \subseteq Hops
  /\ opening \in [Hops -> SUBSET (1 .. MaxMessages)]
  /\ DOMAIN written = Hops /\ DOMAIN received = Hops
  /\ \A h \in Hops : HopRight(h)
  /\ Numbered /\ Followed

\* The histories are functions.
Shaped ==
  written = [h \in Hops |-> written[h]] /\ received = [h \in Hops |-> received[h]]

IInv == Right /\ Shaped

\* What a step is to the channel of hop h: one more is written, one that was
\* written after those received is received, or nothing happens.
ChannelStep(h) ==
  \/ /\ \E s \in SignedMessage : written'[h] = Append(written[h], s)
     /\ received'[h] = received[h] /\ Place(h)' = Place(h)
  \/ /\ \E k \in Place(h) + 1 .. Len(written[h]) :
          Place(h)' = k /\ received'[h] = Append(received[h], written[h][k])
     /\ written'[h] = written[h]
  \/ written'[h] = written[h] /\ received'[h] = received[h] /\ Place(h)' = Place(h)

LEMMA RouteProperties ==
  /\ Hops = 1 .. 2 /\ 1 \in Hops /\ 2 \in Hops /\ Peers = {Route[1], Route[2], Route[3]}
  /\ Route[1] # Route[2] /\ Route[1] # Route[3] /\ Route[2] # Route[3]
  /\ Last(Route) = Route[3] /\ Reader(1) = Route[2] /\ Reader(2) = Route[3]
  <1>1. Route \in Seq(Peers) /\ Len(Route) = 3 /\ IsInjective(Route)
    BY StreamAssumption
  <1>2. DOMAIN Route = {1, 2, 3} /\ Hops = 1 .. 2
    BY <1>1 DEF Hops
  <1>3. Peers = {Route[1], Route[2], Route[3]}
    BY <1>2 DEF Peers, Range
  <1>4. Route[1] # Route[2] /\ Route[1] # Route[3] /\ Route[2] # Route[3]
    BY <1>1, <1>2 DEF IsInjective
  <1> QED BY <1>1, <1>2, <1>3, <1>4 DEF Last, Reader

\* The place of the last message that was picked is found by its transaction.
LEMMA PlaceOfLast ==
  ASSUME NEW msgs, Messages(msgs), NEW got, Sq(got), NEW f, NEW last, Picks(f, got, msgs, last)
  PROVE  PlaceIn(got, msgs) = IF got = <<>> THEN 0 ELSE f[Len(got)]
  <1>1. CASE got = <<>>
    BY <1>1 DEF PlaceIn
  <1>2. CASE got # <<>>
    <2> DEFINE n == Len(msgs)
               m == Len(got)
               k == f[m]
               Same(s) == s.message.transaction = Last(got).message.transaction
               I == {i \in 1 .. n : Same(msgs[i])}
    <2>1. m \in Nat /\ m >= 1 /\ n \in Nat
      BY <1>2, Tailed, SqProperties DEF Messages
    <2>2. k \in 1 .. n /\ got[m] = msgs[k]
      BY <2>1 DEF Picks
    <2>3. Last(got) = msgs[k]
      BY <2>2 DEF Last
    <2>4. \A i \in 1 .. n : Same(msgs[i]) <=> i = k
      BY <2>2, <2>3 DEF Messages
    <2> HIDE DEF Same, n, m, k
    <2>5. I = {k}
      BY <2>2, <2>4
    <2>6. k \in Nat
      BY <2>1, <2>2
    <2>7. Min(I) = k
      <3>1. I \in SUBSET Nat /\ I # {}
        BY <2>5, <2>6
      <3> HIDE DEF I
      <3>2. Min(I) \in I
        BY <3>1, MinProperties
      <3> QED BY <2>5, <3>2
    <2>8. PlaceIn(got, msgs) = SelectInSeq(msgs, Same)
      BY <1>2 DEF PlaceIn, Same
    <2>9. SelectInSeq(msgs, Same) = IF I # {} THEN Min(I) ELSE 0
      BY DEF SelectInSeq, n
    <2> QED BY <1>2, <2>5, <2>7, <2>8, <2>9 DEF k, m
  <1> QED BY <1>1, <1>2

\* A whole chunk can be read, and what is read and verifies is the message
\* that the chunk begins with.
LEMMA ReadRight ==
  ASSUME NEW msgs, Messages(msgs), \A k \in 1 .. Len(msgs) : msgs[k].message.sequence \in Seq(Nat),
         NEW p, NEW lo \in 0 .. Len(msgs), NEW b, ChunkRight(msgs, p, lo, b),
         NEW conf \in Seq(Nat)
  PROVE  LET d == Decode(b)
         IN  /\ WholeRight(msgs, p, lo, b) /\ b # <<Close>> => d.fate = "reads"
             /\ d.fate = "reads" /\ Verify(d, conf) =>
                  \E k \in lo + 1 .. Len(msgs) :
                    /\ Starts(msgs, p, b, k)
                    /\ d.message = msgs[k].message /\ Owner(d.certificate) = p
                    /\ conf = msgs[k].message.sequence
  <1> DEFINE d == Decode(b)
             n == Len(msgs)
  <1>1. n \in Nat /\ Sq(b) /\ (Begins(b) => \E k \in lo + 1 .. n : Starts(msgs, p, b, k))
    BY SqProperties DEF Messages, ChunkRight
  <1>2. ASSUME NEW k \in lo + 1 .. n, Starts(msgs, p, b, k)
        PROVE  /\ k \in 1 .. n /\ WellFormed(msgs[k].message)
               /\ Fits(b, 1, Serialize(msgs[k].message, p))
               /\ Len(Serialize(msgs[k].message, p)) = Len(Buffer(msgs, p, k))
    BY <1>1, <1>2 DEF Messages, Starts, Buffer
  <1>3. ASSUME WholeRight(msgs, p, lo, b), b # <<Close>>
        PROVE  d.fate = "reads"
    <2>1. PICK k \in lo + 1 .. n : Starts(msgs, p, b, k) /\ Len(Buffer(msgs, p, k)) <= Len(b)
      BY <1>3 DEF WholeRight
    <2> DEFINE m == msgs[k].message
    <2>2. WellFormed(m) /\ Fits(b, 1, Serialize(m, p)) /\ Len(Serialize(m, p)) <= Len(b)
      BY <1>2, <2>1
    <2> HIDE DEF m
    <2>3. Len(Serialize(m, p)) <= Len(b) => d.fate = "reads"
      BY <1>1, <2>2, MessageRead
    <2> QED BY <2>2, <2>3
  <1>4. ASSUME d.fate = "reads", Verify(d, conf)
        PROVE  \E k \in lo + 1 .. n :
                 /\ Starts(msgs, p, b, k)
                 /\ d.message = msgs[k].message /\ Owner(d.certificate) = p
                 /\ conf = msgs[k].message.sequence
    <2>1. Begins(b)
      BY <1>1, <1>4, OnlyMessagesRead
    <2>2. PICK k \in lo + 1 .. n : Starts(msgs, p, b, k)
      BY <1>1, <2>1
    <2> DEFINE m == msgs[k].message
    <2>3. WellFormed(m) /\ Fits(b, 1, Serialize(m, p)) /\ m.sequence \in Seq(Nat)
      BY <1>2, <2>2
    <2> HIDE DEF m
    <2>4. d.fate = "reads" => d.message = m /\ d.certificate = Pem(p)
      BY <1>1, <2>3, MessageRead
    <2>5. d.fate = "reads" =>
            (Verify(d, conf) <=> /\ Len(Serialize(m, p)) <= Len(b)
                                 /\ ~Before(m.sequence, conf) /\ ~Before(conf, m.sequence))
      BY <1>1, <2>3, WhatVerifies
    <2> HIDE DEF d
    <2>6. ~Before(m.sequence, conf) /\ ~Before(conf, m.sequence)
      BY <1>4, <2>5
    <2>7. m.sequence = conf
      BY <2>3, <2>6, BeforeIsTotal
    <2>8. d.message = m /\ Owner(d.certificate) = p
      BY <1>4, <2>4 DEF Owner, Pem
    <2> QED BY <2>2, <2>7, <2>8 DEF m
  <1> QED BY <1>3, <1>4

-----------------------------------------------------------------------------
(* Writing keeps a hop right.                                              *)

LEMMA HopCut ==
  ASSUME NEW msgs, NEW p, NEW lo, NEW wr, NEW wt, NEW isCut, Hop(msgs, p, lo, wr, wt, isCut),
         NEW more, isCut => more
  PROVE  Hop(msgs, p, lo, wr, wt, more)
  BY DEF Hop

\* What a write to hop h leaves to the other hops.
Apart(h, chunks) ==
  /\ DOMAIN wire' = Hops /\ DOMAIN waiting' = Hops /\ busy' \in [Hops -> BOOLEAN]
  /\ cut' \subseteq Hops /\ opening' \in [Hops -> SUBSET (1 .. MaxMessages)]
  /\ \A g \in Hops : /\ g \in cut => g \in cut'
                     /\ g # h => /\ wire'[g] = chunks[g] /\ waiting'[g] = waiting[g]
                                 /\ busy'[g] = busy[g]

LEMMA EmitRight ==
  ASSUME NEW h \in Hops, NEW chunks, DOMAIN chunks = Hops, NEW msgs, NEW lo, NEW W,
         Hop(msgs, Route[h], lo, chunks[h], W, h \in cut),
         \A k \in 1 .. Len(msgs) : msgs[k].message.transaction \in 1 .. MaxMessages,
         cut \subseteq Hops, opening \in [Hops -> SUBSET (1 .. MaxMessages)],
         NEW recs, NEW seg, NEW off, Cuts(recs, W, seg, off), Emit(chunks, h, recs)
  PROVE  /\ Hop(msgs, Route[h], lo, wire'[h], <<>>, h \in cut')
         /\ DOMAIN wire' = Hops /\ \A g \in Hops : g # h => wire'[g] = chunks[g]
         /\ cut' \subseteq Hops /\ \A g \in Hops : g \in cut => g \in cut'
         /\ opening' \in [Hops -> SUBSET (1 .. MaxMessages)]
  <1> DEFINE inside == \E r \in Range(recs) : ~Begins(r) /\ r # <<Close>>
             T == {TransactionOf(r) : r \in {q \in Range(recs) : Begins(q)}}
  <1>1. /\ wire' = [chunks EXCEPT ![h] = @ \o recs]
        /\ opening' = [opening EXCEPT ![h] = @ \cup T]
        /\ cut' = IF inside THEN cut \cup {h} ELSE cut
    BY DEF Emit
  <1>2. h \in cut' <=> (h \in cut \/ inside)
    BY <1>1
  <1>3. /\ Hop(msgs, Route[h], lo, chunks[h] \o recs, <<>>, h \in cut')
        /\ \A r \in Range(recs) :
             Begins(r) => \E k \in 1 .. Len(msgs) : TransactionOf(r) = msgs[k].message.transaction
    <2> DEFINE was == h \in cut
               now == h \in cut'
               p == Route[h]
               wr == chunks[h]
    <2>1. Hop(msgs, p, lo, wr, W, was) /\ (now <=> was \/ inside)
      BY <1>2
    <2> HIDE DEF was, now, p, wr
    <2>2. /\ Hop(msgs, p, lo, wr \o recs, <<>>, now)
          /\ \A r \in Range(recs) :
               Begins(r) => \E k \in 1 .. Len(msgs) : TransactionOf(r) = msgs[k].message.transaction
      BY <2>1, HopEmits
    <2> QED BY <2>2 DEF now, p, wr
  <1>4. /\ DOMAIN wire' = Hops /\ wire'[h] = chunks[h] \o recs
        /\ \A g \in Hops : g # h => wire'[g] = chunks[g]
    BY <1>1
  <1>5. T \subseteq 1 .. MaxMessages
    BY <1>3
  <1> HIDE DEF T, inside
  <1>6. opening' \in [Hops -> SUBSET (1 .. MaxMessages)]
    BY <1>1, <1>5
  <1>7. cut' \subseteq Hops /\ \A g \in Hops : g \in cut => g \in cut'
    BY <1>1
  <1> QED BY <1>3, <1>4, <1>6, <1>7

LEMMA WriteRight ==
  ASSUME NEW h \in Hops, NEW chunks, DOMAIN chunks = Hops, NEW msgs, NEW lo,
         Hop(msgs, Route[h], lo, chunks[h], waiting[h], h \in cut),
         \A k \in 1 .. Len(msgs) : msgs[k].message.transaction \in 1 .. MaxMessages,
         cut \subseteq Hops, opening \in [Hops -> SUBSET (1 .. MaxMessages)],
         DOMAIN waiting = Hops, busy \in [Hops -> BOOLEAN], waiting[h] # <<>> => busy[h],
         NEW b,
         \/ b = <<Close>>
         \/ /\ Len(msgs) \in lo + 1 .. Len(msgs) /\ b = Buffer(msgs, Route[h], Len(msgs))
            /\ \A x \in 1 .. Len(chunks[h]) : ~Marked(msgs, chunks[h][x], Len(msgs))
            /\ \A x \in 1 .. Len(waiting[h]) : ~Marked(msgs, waiting[h][x], Len(msgs)),
         Write(chunks, h, b)
  PROVE  /\ Hop(msgs, Route[h], lo, wire'[h], waiting'[h], h \in cut')
         /\ waiting'[h] # <<>> => busy'[h]
         /\ Apart(h, chunks)
  <1>1. Hop(msgs, Route[h], lo, chunks[h], Append(waiting[h], b), h \in cut)
    BY HopWaits
  <1>2. CASE busy[h]
    <2>1. /\ waiting' = [waiting EXCEPT ![h] = Append(@, b)]
          /\ wire' = chunks /\ busy' = busy /\ opening' = opening /\ cut' = cut
      BY <1>2 DEF Write
    <2>2. /\ DOMAIN waiting' = Hops /\ waiting'[h] = Append(waiting[h], b)
          /\ \A g \in Hops : g # h => waiting'[g] = waiting[g]
      BY <2>1
    <2> QED BY <1>1, <1>2, <2>1, <2>2 DEF Apart
  <1>3. CASE ~busy[h]
    <2>1. /\ Emit(chunks, h, Records(b)) /\ busy' = [busy EXCEPT ![h] = TRUE]
          /\ waiting' = waiting /\ waiting[h] = <<>>
      BY <1>3 DEF Write
    <2>2. Append(waiting[h], b) = <<b>>
      BY <2>1
    <2>3. Hop(msgs, Route[h], lo, chunks[h], <<b>>, h \in cut)
      BY <1>1, <2>2
    <2>4. Sq(b) /\ b # <<>>
      <3>1. /\ Messages(msgs) /\ lo \in 0 .. Len(msgs)
            /\ \A x \in 1 .. Len(<<b>>) : BufferRight(msgs, Route[h], lo, <<b>>[x])
        BY <2>3 DEF Hop
      <3>2. BufferRight(msgs, Route[h], lo, b)
        BY <3>1
      <3> QED BY <3>1, <3>2, BufferRightAs
    <2>5. PICK seg, off : Cuts(Records(b), <<b>>, seg, off)
      BY <2>4, CutsOfOne
    <2>6. /\ Hop(msgs, Route[h], lo, wire'[h], <<>>, h \in cut')
          /\ DOMAIN wire' = Hops /\ \A g \in Hops : g # h => wire'[g] = chunks[g]
          /\ cut' \subseteq Hops /\ \A g \in Hops : g \in cut => g \in cut'
          /\ opening' \in [Hops -> SUBSET (1 .. MaxMessages)]
      BY <2>1, <2>3, <2>5, EmitRight
    <2>7. /\ busy' \in [Hops -> BOOLEAN] /\ \A g \in Hops : g # h => busy'[g] = busy[g]
      BY <2>1
    <2> QED BY <2>1, <2>6, <2>7 DEF Apart
  <1> QED BY <1>2, <1>3

-----------------------------------------------------------------------------
(* The steps.                                                              *)

LEMMA PlaceAs ==
  ASSUME NEW h
  PROVE  /\ Place(h) = PlaceIn(received[h], written[h])
         /\ Place(h)' = PlaceIn(received'[h], written'[h])
  <1>1. Place(h) = PlaceIn(received[h], written[h])
    BY DEF Place, PlaceIn, SelectInSeq
  <1>2. Place(h)' = PlaceIn(received'[h], written'[h])
    BY DEF Place, PlaceIn, SelectInSeq
  <1> QED BY <1>1, <1>2

\* What the relay has received it has for good.
Grown ==
  \A j \in DOMAIN received[1] : j \in DOMAIN received'[1] /\ received'[1][j] = received[1][j]

\* What was written stays what it was.
LEMMA StillWritten ==
  ASSUME NEW h, NEW m, sequence' = sequence, Grown, Own(h, m) \/ Relayed(h, m)
  PROVE  Own(h, m)' \/ Relayed(h, m)'
  <1>1. Own(h, m) => Own(h, m)'
    BY DEF Own
  <1>2. ASSUME Relayed(h, m) PROVE Relayed(h, m)'
    <2>1. PICK j \in DOMAIN received[1] :
            LET o == received[1][j].message
            IN  /\ o.transaction = m.transaction /\ o.overlay = m.overlay
                /\ o.code = m.code /\ o.body = m.body
      BY <1>2 DEF Relayed
    <2>2. j \in DOMAIN received'[1] /\ received'[1][j] = received[1][j]
      BY DEF Grown
    <2> QED BY <1>2, <2>1, <2>2 DEF Relayed
  <1> QED BY <1>1, <1>2

LEMMA WrittenStays ==
  ASSUME NEW h \in Hops, WrittenRight(h), sequence' = sequence, Grown, written'[h] = written[h]
  PROVE  WrittenRight(h)'
  <1> SUFFICES ASSUME NEW k \in 1 .. Len(written[h])
               PROVE  /\ written[h][k].signer = Route[h]
                      /\ Own(h, written[h][k].message)' \/ Relayed(h, written[h][k].message)'
    BY DEF WrittenRight
  <1>1. /\ written[h][k].signer = Route[h]
        /\ Own(h, written[h][k].message) \/ Relayed(h, written[h][k].message)
    BY DEF WrittenRight
  <1> QED BY <1>1, StillWritten

LEMMA WrittenMore ==
  ASSUME NEW h \in Hops, WrittenRight(h), sequence' = sequence, Grown,
         NEW s \in SignedMessage, s.signer = Route[h], Own(h, s.message)' \/ Relayed(h, s.message)',
         written'[h] = Append(written[h], s)
  PROVE  WrittenRight(h)'
  <1> DEFINE n == Len(written[h])
  <1>1. written[h] \in Seq(SignedMessage) /\ n \in Nat
    BY DEF WrittenRight
  <1>2. /\ written'[h] \in Seq(SignedMessage) /\ Len(written'[h]) = n + 1
        /\ \A k \in 1 .. n : written'[h][k] = written[h][k]
        /\ written'[h][n + 1] = s
    BY <1>1, AppendProperties
  <1>3. ASSUME NEW k \in 1 .. n + 1
        PROVE  \E r : /\ r = written'[h][k] /\ r.signer = Route[h]
                      /\ Own(h, r.message)' \/ Relayed(h, r.message)'
    <2>1. CASE k = n + 1
      BY <1>2, <2>1
    <2>2. CASE k \in 1 .. n
      <3> DEFINE r == written[h][k]
      <3>1. /\ r.signer = Route[h]
            /\ Own(h, r.message) \/ Relayed(h, r.message)
        BY <2>2 DEF WrittenRight
      <3>2. r = written'[h][k]
        BY <1>2, <2>2
      <3>3. PICK t : t = r
        OBVIOUS
      <3>4. Own(h, t.message)' \/ Relayed(h, t.message)'
        BY <3>1, <3>3, StillWritten
      <3> QED BY <3>1, <3>2, <3>3, <3>4
    <2> QED BY <1>1, <2>1, <2>2
  <1> HIDE DEF n
  <1> SUFFICES ASSUME NEW k \in 1 .. Len(written'[h])
               PROVE  /\ written'[h][k].signer = Route[h]
                      /\ (Own(h, written[h][k].message) \/ Relayed(h, written[h][k].message))'
    BY <1>2 DEF WrittenRight
  <1>4. PICK r : /\ r = written'[h][k] /\ r.signer = Route[h]
                 /\ Own(h, r.message)' \/ Relayed(h, r.message)'
    BY <1>2, <1>3
  <1> QED BY <1>4

\* Picked from what was written, picked from that and more.
LEMMA PicksStay ==
  ASSUME NEW msgs, NEW more, NEW got, Len(msgs) \in Nat, Len(more) \in Nat,
         Len(msgs) <= Len(more), \A k \in 1 .. Len(msgs) : more[k] = msgs[k],
         NEW f, NEW last, Picks(f, got, msgs, last)
  PROVE  Picks(f, got, more, last)
  <1> DEFINE n == Len(msgs)
             m == Len(more)
             g == Len(got)
  <1>1. /\ f \in [1 .. g -> 1 .. n]
        /\ \A i \in 1 .. g : got[i] = msgs[f[i]] /\ f[i] <= last
        /\ \A i, j \in 1 .. g : i < j => f[i] < f[j]
    BY DEF Picks
  <1> HIDE DEF n, m, g
  <1>2. 1 .. n \subseteq 1 .. m
    BY DEF n, m
  <1>3. f \in [1 .. g -> 1 .. m]
    BY <1>1, <1>2
  <1>4. \A i \in 1 .. g : got[i] = more[f[i]]
    BY <1>1 DEF n
  <1> QED BY <1>1, <1>3, <1>4 DEF Picks, m, g

\* The place does not move while nothing is received.
LEMMA PlaceStays ==
  ASSUME NEW h \in Hops, Messages(written[h]), ReceivedRight(h),
         received'[h] = received[h], Messages(written'[h]), Len(written[h]) <= Len(written'[h]),
         \A k \in 1 .. Len(written[h]) : written'[h][k] = written[h][k], sequence' = sequence
  PROVE  Place(h)' = Place(h) /\ ReceivedRight(h)'
  <1> DEFINE msgs == written[h]
             more == written'[h]
             got == received[h]
             last == Place(h)
  <1>1. PICK f \in [1 .. Len(got) -> 1 .. Len(msgs)] : Picks(f, got, msgs, last)
    BY DEF ReceivedRight
  <1>2. Sq(got) /\ got \in Seq(SignedMessage) /\ (got # <<>> => sequence[Route[h]] = sequence[Reader(h)])
    BY SqOf DEF ReceivedRight
  <1>3. Len(msgs) \in Nat /\ Len(more) \in Nat
    BY SqProperties DEF Messages
  <1>4. last = PlaceIn(got, msgs) /\ Place(h)' = PlaceIn(got, more)
    BY PlaceAs
  <1>5. /\ Messages(msgs) /\ Messages(more) /\ Len(msgs) <= Len(more)
        /\ \A k \in 1 .. Len(msgs) : more[k] = msgs[k]
    OBVIOUS
  <1> HIDE DEF msgs, more, got, last
  <1>6. Picks(f, got, more, last)
    BY <1>1, <1>3, <1>5, PicksStay
  <1>7. PlaceIn(got, msgs) = IF got = <<>> THEN 0 ELSE f[Len(got)]
    BY <1>1, <1>2, <1>5, PlaceOfLast
  <1>8. PlaceIn(got, more) = IF got = <<>> THEN 0 ELSE f[Len(got)]
    BY <1>2, <1>5, <1>6, PlaceOfLast
  <1>9. Place(h)' = last
    BY <1>4, <1>7, <1>8
  <1>10. \E e \in [1 .. Len(got) -> 1 .. Len(more)] : Picks(e, got, more, last)
    BY <1>6 DEF Picks
  <1>11. ReceivedRight(h)'
    <2>1. received'[h] = got /\ written'[h] = more
      BY DEF got, more
    <2>2. (sequence[Route[h]] = sequence[Reader(h)])' <=> sequence[Route[h]] = sequence[Reader(h)]
      BY DEF Reader
    <2> QED BY <1>2, <1>9, <1>10, <2>1, <2>2 DEF ReceivedRight
  <1> QED BY <1>9, <1>11 DEF last

\* A step elsewhere leaves a hop as it is.
LEMMA HopStays ==
  ASSUME NEW h \in Hops, HopRight(h), sequence' = sequence, Grown,
         written'[h] = written[h], received'[h] = received[h],
         wire'[h] = wire[h], waiting'[h] = waiting[h], busy'[h] = busy[h],
         h \in cut => h \in cut', Reader(h) \in ended' => Reader(h) \in ended
  PROVE  HopRight(h)' /\ Place(h)' = Place(h)
  <1>1. /\ Hop(written[h], Route[h], Place(h), wire[h], waiting[h], h \in cut)
        /\ WrittenRight(h) /\ ReceivedRight(h)
        /\ Reader(h) \in ended => h \in cut
        /\ waiting[h] # <<>> => busy[h]
    BY DEF HopRight
  <1>2. Messages(written[h]) /\ Len(written[h]) \in Nat
    BY <1>1, SqProperties DEF Hop, Messages
  <1>3. Place(h)' = Place(h) /\ ReceivedRight(h)'
    BY <1>1, <1>2, PlaceStays
  <1>4. WrittenRight(h)'
    BY <1>1, WrittenStays
  <1>5. Hop(written'[h], Route[h], Place(h)', wire'[h], waiting'[h], h \in cut')
    <2>1. Hop(written[h], Route[h], Place(h), wire[h], waiting[h], h \in cut')
      BY <1>1, HopCut
    <2> QED BY <1>3, <2>1
  <1>6. Reader(h)' = Reader(h)
    BY DEF Reader
  <1> QED BY <1>1, <1>3, <1>4, <1>5, <1>6 DEF HopRight

LEMMA SendRight ==
  ASSUME NEW h \in Hops, NEW chunks, DOMAIN chunks = Hops,
         Hop(written[h], Route[h], Place(h), chunks[h], waiting[h], h \in cut),
         WrittenRight(h), ReceivedRight(h),
         Reader(h) \in ended => h \in cut, waiting[h] # <<>> => busy[h],
         cut \subseteq Hops, opening \in [Hops -> SUBSET (1 .. MaxMessages)],
         DOMAIN waiting = Hops, busy \in [Hops -> BOOLEAN], DOMAIN written = Hops,
         NEW m, WellFormed(m), BySigner(Route[h], m) \in SignedMessage,
         Own(h, m)' \/ Relayed(h, m)',
         \A k \in 1 .. Len(written[h]) : written[h][k].message.transaction # m.transaction,
         SendMessage(chunks, h, m),
         sequence' = sequence, ended' = ended, received'[h] = received[h], Grown
  PROVE  /\ HopRight(h)' /\ Place(h)' = Place(h) /\ Apart(h, chunks)
         /\ DOMAIN written' = Hops /\ written'[h] = Append(written[h], BySigner(Route[h], m))
         /\ \A g \in Hops : g # h => written'[g] = written[g]
  <1> DEFINE p == Route[h]
             s == BySigner(p, m)
             msgs == written[h]
             more == Append(msgs, s)
             lo == Place(h)
             was == h \in cut
             wr == chunks[h]
             wt == waiting[h]
  <1>1. /\ Write(chunks, h, Serialize(m, p)) /\ DOMAIN written' = Hops /\ written'[h] = more
        /\ \A g \in Hops : g # h => written'[g] = written[g]
    BY DEF SendMessage
  <1>2. s.message = m /\ s.signer = p /\ s \in SignedMessage
    BY DEF BySigner
  <1>3. Hop(msgs, p, lo, wr, wt, was) /\ Messages(msgs) /\ lo \in 0 .. Len(msgs) /\ Sq(msgs)
    BY DEF Hop, Messages
  <1>4. \A k \in 1 .. Len(msgs) : msgs[k].message.transaction # s.message.transaction
    BY <1>2
  <1>5. msgs \in Seq(SignedMessage)
    BY DEF WrittenRight
  <1> HIDE DEF s, msgs, lo, was, p, wr, wt
  <1>6. WellFormed(s.message)
    BY <1>2
  <1>7. /\ Hop(more, p, lo, wr, wt, was)
        /\ Len(more) = Len(msgs) + 1 /\ Buffer(more, p, Len(more)) = Serialize(s.message, p)
        /\ \A x \in 1 .. Len(wr) : ~Marked(more, wr[x], Len(more))
        /\ \A x \in 1 .. Len(wt) : ~Marked(more, wt[x], Len(more))
    BY <1>3, <1>4, <1>6, HopWritten
  <1>8. /\ more \in Seq(SignedMessage) /\ Len(msgs) \in Nat
        /\ \A k \in 1 .. Len(msgs) : more[k] = msgs[k]
    BY <1>2, <1>5, AppendProperties
  <1>9. \A k \in 1 .. Len(more) : more[k].message.transaction \in 1 .. MaxMessages
    <2>1. ASSUME NEW r \in SignedMessage PROVE r.message.transaction \in 1 .. MaxMessages
      BY DEF SignedMessage, Message
    <2>2. \A k \in 1 .. Len(more) : more[k] \in SignedMessage
      BY <1>8
    <2> QED BY <2>1, <2>2
  <1>10. Len(more) \in lo + 1 .. Len(more)
    BY <1>3, <1>7, <1>8
  <1>11. Messages(more)
    BY <1>7 DEF Hop
  <1> HIDE DEF more
  <1> DEFINE b == Serialize(m, p)
  <1>12. b = Buffer(more, p, Len(more))
    BY <1>2, <1>7
  <1> HIDE DEF b
  <1>13. /\ Hop(more, Route[h], lo, chunks[h], waiting[h], h \in cut)
         /\ \A x \in 1 .. Len(chunks[h]) : ~Marked(more, chunks[h][x], Len(more))
         /\ \A x \in 1 .. Len(waiting[h]) : ~Marked(more, waiting[h][x], Len(more))
         /\ b = Buffer(more, Route[h], Len(more))
    BY <1>7, <1>12 DEF was, p, wr, wt
  <1>14. Write(chunks, h, b)
    BY <1>1 DEF b
  <1>15. /\ Hop(more, Route[h], lo, wire'[h], waiting'[h], h \in cut')
         /\ waiting'[h] # <<>> => busy'[h]
         /\ Apart(h, chunks)
    BY <1>9, <1>10, <1>13, <1>14, WriteRight
  <1>16. Len(msgs) <= Len(more)
    BY <1>7, <1>8
  <1>17. Place(h)' = lo /\ ReceivedRight(h)'
    <2>1. /\ Messages(written[h]) /\ Messages(written'[h]) /\ Len(written[h]) <= Len(written'[h])
          /\ \A k \in 1 .. Len(written[h]) : written'[h][k] = written[h][k]
      BY <1>1, <1>3, <1>8, <1>11, <1>16 DEF msgs
    <2> QED BY <2>1, PlaceStays DEF lo
  <1>18. WrittenRight(h)'
    <2>1. s.signer = Route[h] /\ written'[h] = Append(written[h], s)
      BY <1>1, <1>2 DEF more, msgs, p
    <2>2. Own(h, s.message)' \/ Relayed(h, s.message)'
      BY <1>2 DEF s
    <2> QED BY <1>2, <2>1, <2>2, WrittenMore
  <1>19. Hop(written'[h], Route[h], Place(h)', wire'[h], waiting'[h], h \in cut')
    BY <1>1, <1>15, <1>17
  <1>20. Reader(h)' \in ended' => h \in cut'
    <2>1. Reader(h)' = Reader(h) /\ (h \in cut => h \in cut')
      BY <1>15 DEF Apart, Reader
    <2> QED BY <2>1
  <1>21. HopRight(h)'
    BY <1>15, <1>17, <1>18, <1>19, <1>20 DEF HopRight
  <1> QED BY <1>1, <1>15, <1>17, <1>21 DEF more, msgs, lo, s, p

\* Transactions, of any messages.
TransactionsIn(w) == {s.message.transaction : s \in UNION {Range(w[h]) : h \in Hops}}

LEMMA TransactionsAs ==
  Transactions = TransactionsIn(written) /\ Transactions' = TransactionsIn(written')
  BY DEF Transactions, TransactionsIn

LEMMA OneTransactionMore ==
  ASSUME NEW w, NEW v, NEW h \in Hops, NEW S, w[h] \in Seq(S), NEW s \in S,
         v[h] = Append(w[h], s), \A g \in Hops : g # h => v[g] = w[g]
  PROVE  TransactionsIn(v) = TransactionsIn(w) \cup {s.message.transaction}
  <1> DEFINE n == Len(w[h])
             R(u) == UNION {Range(u[g]) : g \in Hops}
  <1>1. /\ v[h] \in Seq(S) /\ Len(v[h]) = n + 1 /\ n \in Nat
        /\ \A k \in 1 .. n : v[h][k] = w[h][k]
        /\ v[h][n + 1] = s
    BY AppendProperties
  <1>2. DOMAIN v[h] = 1 .. n + 1 /\ DOMAIN w[h] = 1 .. n
    BY <1>1
  <1>3. Range(v[h]) = Range(w[h]) \cup {s}
    <2>1. Range(v[h]) \subseteq Range(w[h]) \cup {s}
      <3> SUFFICES ASSUME NEW k \in 1 .. n + 1 PROVE v[h][k] \in Range(w[h]) \cup {s}
        BY <1>2 DEF Range
      <3>1. k = n + 1 \/ k \in 1 .. n
        BY <1>1
      <3> QED BY <1>1, <1>2, <3>1 DEF Range
    <2>2. Range(w[h]) \subseteq Range(v[h])
      <3> SUFFICES ASSUME NEW k \in 1 .. n PROVE w[h][k] \in Range(v[h])
        BY <1>2 DEF Range
      <3>1. k \in 1 .. n + 1 /\ v[h][k] = w[h][k]
        BY <1>1
      <3> QED BY <1>2, <3>1 DEF Range
    <2>3. s \in Range(v[h])
      <3>1. n + 1 \in 1 .. n + 1
        BY <1>1
      <3> QED BY <1>1, <1>2, <3>1 DEF Range
    <2> QED BY <2>1, <2>2, <2>3
  <1>4. \A g \in Hops : g # h => Range(v[g]) = Range(w[g])
    OBVIOUS
  <1>5. R(v) = R(w) \cup {s}
    BY <1>3, <1>4
  <1> QED BY <1>5 DEF TransactionsIn

LEMMA TransactionIsOne ==
  ASSUME NEW w, NEW h \in Hops, NEW S, w[h] \in Seq(S), NEW k \in 1 .. Len(w[h])
  PROVE  w[h][k].message.transaction \in TransactionsIn(w)
  <1>1. w[h][k] \in Range(w[h])
    BY DEF Range
  <1> QED BY <1>1 DEF TransactionsIn

\* Ids.
LEMMA NodesOnly ==
  ASSUME NEW S, NEW list \in Seq(S), \A x \in S : \E id : x = NodeID(id) \/ x = ResourceID(id)
  PROVE  Ids(list)
  <1>1. Sq(list)
    BY SqOf
  <1>2. \A i \in 1 .. Len(list) : list[i] \in S
    OBVIOUS
  <1> QED BY <1>1, <1>2 DEF Ids

LEMMA NewMessageRight ==
  ASSUME NEW h \in Hops, NEW content \in Contents, NEW dest \in Destinations(h, content),
         sequence \in Configurations, NEW n \in Nat, Transactions = 1 .. n, n < MaxMessages
  PROVE  LET m == NewMessage(Route[h], content, dest)
         IN  /\ m.transaction = n + 1 /\ WellFormed(m)
             /\ BySigner(Route[h], m) \in SignedMessage /\ Own(h, m)
  <1> DEFINE p == Route[h]
             m == NewMessage(p, content, dest)
             N == {NodeID(q) : q \in Peers}
             D == N \cup {ResourceID(Target)}
  <1>1. p \in Peers /\ Reader(h) \in Peers /\ (h = 1 \/ h = 2)
    BY RouteProperties
  <1>2. Cardinality(Transactions) = n
    BY PlacesCount
  <1>3. /\ content = [code |-> content.code, body |-> content.body]
        /\ content.code \in Range(MessageCode) /\ OfClass(content.code, content.body)
        /\ InitialTtl \in Nat \ {0, 1} /\ MaxMessages \in Nat
        /\ Configurations \subseteq [Peers -> Seq(Nat)]
    BY StreamAssumption
  <1>4. dest = <<NodeID(Reader(h))>> \/ (h = 1 /\ dest = <<NodeID(Reader(h)), ResourceID(Target)>>)
    BY DEF Destinations
  <1>5. <<NodeID(p)>> \in Seq(N) /\ dest \in Seq(D)
    <2> DEFINE a == NodeID(p)
               b == NodeID(Reader(h))
               c == ResourceID(Target)
    <2>1. a \in N /\ b \in N /\ b \in D /\ c \in D
      BY <1>1
    <2>2. dest = <<b>> \/ dest = <<b, c>>
      BY <1>4
    <2> HIDE DEF a, b, c, N, D
    <2>3. <<a>> \in Seq(N) /\ <<b>> \in Seq(D) /\ <<b, c>> \in Seq(D)
      BY <2>1
    <2> QED BY <2>2, <2>3 DEF a
  <1>6. m = [overlay |-> "overlay", sequence |-> sequence[p], ttl |-> InitialTtl,
             transaction |-> n + 1, via |-> <<NodeID(p)>>, dest |-> dest,
             code |-> content.code, body |-> content.body]
    BY <1>2 DEF NewMessage
  <1> HIDE DEF N, D
  <1>7. Ids(<<NodeID(p)>>) /\ Ids(dest)
    <2>1. \A x \in N : \E id : x = NodeID(id) \/ x = ResourceID(id)
      BY DEF N
    <2>2. \A x \in D : \E id : x = NodeID(id) \/ x = ResourceID(id)
      BY <2>1 DEF D
    <2>3. Ids(<<NodeID(p)>>)
      BY <1>5, <2>1, NodesOnly
    <2>4. Ids(dest)
      BY <1>5, <2>2, NodesOnly
    <2> QED BY <2>3, <2>4
  <1> HIDE DEF m
  <1>8. WellFormed(m)
    BY <1>3, <1>6, <1>7 DEF WellFormed
  <1>9. sequence[p] \in UNION {Range(c) : c \in Configurations}
    <2>1. sequence[p] \in Range(sequence)
      BY <1>1, <1>3 DEF Range
    <2> QED BY <2>1
  <1>10. m \in Message
    <2>1. /\ InitialTtl \in 1 .. InitialTtl /\ n + 1 \in 1 .. MaxMessages
          /\ content.body \in {c.body : c \in Contents}
      BY <1>3
    <2> QED BY <1>3, <1>5, <1>6, <1>9, <2>1 DEF Message, N, D
  <1>11. BySigner(p, m) \in SignedMessage
    BY <1>1, <1>10 DEF BySigner, SignedMessage
  <1>12. Own(h, m)
    BY <1>4, <1>6 DEF Own
  <1> QED BY <1>6, <1>8, <1>11, <1>12 DEF m, p

\* Followed, of any messages.
Follows(a, b, last) ==
  \A k \in 1 .. Len(a), j \in 1 .. Len(b) :
    a[k].message.transaction = b[j].message.transaction => k <= last

LEMMA FollowedAs ==
  /\ Followed <=> Follows(written[1], written[2], Place(1))
  /\ Followed' <=> Follows(written'[1], written'[2], Place(1)')
  BY DEF Followed, Follows

LEMMA FollowsStill ==
  ASSUME NEW a, NEW b, NEW last \in Nat, Follows(a, b, last), NEW S, a \in Seq(S), b \in Seq(S), NEW s \in S
  PROVE  /\ (\A j \in 1 .. Len(b) : b[j].message.transaction # s.message.transaction)
              => Follows(Append(a, s), b, last)
         /\ \A more \in Nat :
              /\ last <= more
              /\ \A k \in 1 .. Len(a) :
                   a[k].message.transaction = s.message.transaction => k <= more
              => Follows(a, Append(b, s), more)
  <1> DEFINE c == Append(a, s)
             d == Append(b, s)
             n == Len(a)
             m == Len(b)
  <1>1. /\ Len(c) = n + 1 /\ n \in Nat /\ c[n + 1] = s /\ \A k \in 1 .. n : c[k] = a[k]
        /\ Len(d) = m + 1 /\ m \in Nat /\ d[m + 1] = s /\ \A k \in 1 .. m : d[k] = b[k]
    BY AppendProperties
  <1>2. \A k \in 1 .. n, j \in 1 .. m :
          a[k].message.transaction = b[j].message.transaction => k <= last
    BY DEF Follows
  <1> HIDE DEF c, d, n, m
  <1>3. /\ \A k \in 1 .. n + 1 : k = n + 1 \/ k \in 1 .. n
        /\ \A k \in 1 .. m + 1 : k = m + 1 \/ k \in 1 .. m
    BY <1>1
  <1>4. ASSUME \A j \in 1 .. m : b[j].message.transaction # s.message.transaction
        PROVE  Follows(c, b, last)
    <2> SUFFICES ASSUME NEW k \in 1 .. n + 1, NEW j \in 1 .. m,
                        c[k].message.transaction = b[j].message.transaction
                 PROVE  k <= last
      BY <1>1 DEF Follows, m
    <2>1. k # n + 1
      BY <1>1, <1>4
    <2>2. k \in 1 .. n
      BY <1>3, <2>1
    <2> QED BY <1>1, <1>2, <2>2
  <1>5. ASSUME NEW more \in Nat, last <= more,
               \A k \in 1 .. n : a[k].message.transaction = s.message.transaction => k <= more
        PROVE  Follows(a, d, more)
    <2> SUFFICES ASSUME NEW k \in 1 .. n, NEW j \in 1 .. m + 1,
                        a[k].message.transaction = d[j].message.transaction
                 PROVE  k <= more
      BY <1>1 DEF Follows, n
    <2>1. CASE j = m + 1
      BY <1>1, <1>5, <2>1
    <2>2. CASE j \in 1 .. m
      <3>1. k <= last
        BY <1>1, <1>2, <2>2
      <3> QED BY <1>1, <1>5, <3>1
    <2> QED BY <1>3, <2>1, <2>2
  <1> QED BY <1>4, <1>5 DEF c, d, n, m

LEMMA PlaceRight ==
  ASSUME NEW h \in Hops, HopRight(h)
  PROVE  /\ Messages(written[h]) /\ written[h] \in Seq(SignedMessage)
         /\ Len(written[h]) \in Nat /\ Place(h) \in 0 .. Len(written[h])
  BY SqProperties DEF HopRight, Hop, Messages, WrittenRight

LEMMA SendKeeps ==
  ASSUME Right, NEW h \in Hops, Send(h)
  PROVE  Right' /\ \A g \in Hops : ChannelStep(g)
  <1>1. PICK n \in 0 .. MaxMessages : Transactions = 1 .. n
    BY DEF Right, Numbered
  <1>2. PICK content \in Contents :
          \E dest \in Destinations(h, content) :
            SendMessage(wire, h, NewMessage(Route[h], content, dest))
    BY DEF Send
  <1>3. PICK dest \in Destinations(h, content) :
          SendMessage(wire, h, NewMessage(Route[h], content, dest))
    BY <1>2
  <1> PICK m : m = NewMessage(Route[h], content, dest)
    OBVIOUS
  <1> DEFINE s == BySigner(Route[h], m)
  <1>4. /\ sequence' = sequence /\ state' = state /\ ended' = ended /\ received' = received
        /\ Cardinality(Transactions) < MaxMessages
    BY DEF Send
  <1>5. n \in Nat /\ MaxMessages \in Nat /\ n < MaxMessages
    BY <1>1, <1>4, PlacesCount, StreamAssumption
  <1>6. /\ sequence \in Configurations
        /\ DOMAIN waiting = Hops /\ DOMAIN wire = Hops
        /\ busy \in [Hops -> BOOLEAN] /\ state \in [Hops -> {"open", "closing", "closed"}]
        /\ ended \subseteq Peers /\ cut \subseteq Hops
        /\ opening \in [Hops -> SUBSET (1 .. MaxMessages)]
        /\ DOMAIN written = Hops /\ DOMAIN received = Hops
        /\ \A g \in Hops : HopRight(g)
    BY DEF Right
  <1>7. /\ m.transaction = n + 1 /\ WellFormed(m) /\ s \in SignedMessage /\ Own(h, m)
    BY <1>1, <1>5, <1>6, NewMessageRight
  <1>8. s.message = m /\ s.signer = Route[h]
    BY DEF BySigner
  <1>9. Grown
    BY <1>4 DEF Grown
  <1>10. Own(h, m)' \/ Relayed(h, m)'
    BY <1>4, <1>7, <1>9, StillWritten
  <1>11. \A g \in Hops : \A k \in 1 .. Len(written[g]) :
           written[g][k].message.transaction # m.transaction
    <2> SUFFICES ASSUME NEW g \in Hops, NEW k \in 1 .. Len(written[g])
                 PROVE  written[g][k].message.transaction # m.transaction
      OBVIOUS
    <2>1. written[g] \in Seq(SignedMessage)
      BY <1>6, PlaceRight
    <2>2. written[g][k].message.transaction \in TransactionsIn(written)
      BY <2>1, TransactionIsOne
    <2>3. written[g][k].message.transaction \in 1 .. n
      BY <1>1, <2>2, TransactionsAs
    <2> QED BY <1>5, <1>7, <2>3
  <1>12. /\ HopRight(h)' /\ Place(h)' = Place(h) /\ Apart(h, wire)
         /\ DOMAIN written' = Hops /\ written'[h] = Append(written[h], s)
         /\ \A g \in Hops : g # h => written'[g] = written[g]
    <2>1. /\ Hop(written[h], Route[h], Place(h), wire[h], waiting[h], h \in cut)
          /\ WrittenRight(h) /\ ReceivedRight(h)
          /\ Reader(h) \in ended => h \in cut
          /\ waiting[h] # <<>> => busy[h]
      BY <1>6 DEF HopRight
    <2>2. SendMessage(wire, h, m)
      BY <1>3
    <2> QED BY <1>4, <1>6, <1>7, <1>9, <1>10, <1>11, <2>1, <2>2, SendRight
  <1>13. ASSUME NEW g \in Hops, g # h PROVE HopRight(g)' /\ Place(g)' = Place(g)
    BY <1>4, <1>6, <1>9, <1>12, <1>13, HopStays DEF Apart, Reader
  <1>14. Numbered'
    <2>1. written[h] \in Seq(SignedMessage)
      BY <1>6, PlaceRight
    <2>2. TransactionsIn(written') = TransactionsIn(written) \cup {s.message.transaction}
      BY <1>7, <1>12, <2>1, OneTransactionMore
    <2>3. Transactions' = 1 .. n + 1
      BY <1>1, <1>5, <1>7, <1>8, <2>2, TransactionsAs
    <2> QED BY <1>5, <2>3 DEF Numbered
  <1>15. Followed'
    <2>1. /\ 1 \in Hops /\ 2 \in Hops /\ (h = 1 \/ h = 2)
      BY RouteProperties
    <2>2. Follows(written[1], written[2], Place(1))
      BY FollowedAs DEF Right
    <2>3. /\ written[1] \in Seq(SignedMessage) /\ written[2] \in Seq(SignedMessage)
          /\ Place(1) \in Nat
      BY <1>6, <2>1, PlaceRight
    <2>4. Place(1)' = Place(1)
      BY <1>12, <1>13, <2>1
    <2> DEFINE last == Place(1)
    <2> HIDE DEF last
    <2>5. CASE h = 1
      <3>1. \A j \in 1 .. Len(written[2]) : written[2][j].message.transaction # s.message.transaction
        BY <1>8, <1>11, <2>1
      <3>2. Follows(Append(written[1], s), written[2], last)
        BY <1>7, <2>2, <2>3, <3>1, FollowsStill DEF last
      <3>3. written'[1] = Append(written[1], s) /\ written'[2] = written[2] /\ Place(1)' = last
        BY <1>12, <2>1, <2>4, <2>5 DEF last
      <3>4. Follows(written'[1], written'[2], Place(1)')
        BY <3>2, <3>3
      <3> QED BY <3>4, FollowedAs
    <2>6. CASE h = 2
      <3>1. \A k \in 1 .. Len(written[1]) :
              written[1][k].message.transaction = s.message.transaction => k <= last
        BY <1>8, <1>11, <2>1
      <3>2. last <= last /\ last \in Nat
        BY <2>3 DEF last
      <3>3. Follows(written[1], Append(written[2], s), last)
        BY <1>7, <2>2, <2>3, <3>1, <3>2, FollowsStill DEF last
      <3>4. written'[1] = written[1] /\ written'[2] = Append(written[2], s) /\ Place(1)' = last
        BY <1>12, <2>1, <2>4, <2>6 DEF last
      <3>5. Follows(written'[1], written'[2], Place(1)')
        BY <3>3, <3>4
      <3> QED BY <3>5, FollowedAs
    <2> QED BY <2>1, <2>5, <2>6
  <1>16. ASSUME NEW g \in Hops PROVE ChannelStep(g)
    <2>1. received'[g] = received[g] /\ Place(g)' = Place(g)
      BY <1>4, <1>12, <1>13
    <2>2. CASE g = h
      BY <1>7, <1>12, <2>1, <2>2 DEF ChannelStep
    <2>3. CASE g # h
      BY <1>12, <2>1, <2>3 DEF ChannelStep
    <2> QED BY <2>2, <2>3
  <1>17. Right'
    BY <1>4, <1>6, <1>12, <1>13, <1>14, <1>15 DEF Right, Apart
  <1> QED BY <1>16, <1>17

\* A step with no message more.
LEMMA NoMessageMore ==
  ASSUME Right, NEW h \in Hops,
         sequence' = sequence, written' = written, received' = received,
         Hop(written[h], Route[h], Place(h), wire'[h], waiting'[h], h \in cut'),
         waiting'[h] # <<>> => busy'[h], Reader(h) \in ended' => h \in cut', Apart(h, wire),
         state' \in [Hops -> {"open", "closing", "closed"}], ended' \subseteq Peers,
         \A g \in Hops : g # h /\ Reader(g) \in ended' => Reader(g) \in ended
  PROVE  Right' /\ \A g \in Hops : ChannelStep(g)
  <1>1. Grown
    BY DEF Grown
  <1>2. HopRight(h)
    BY DEF Right
  <1>3. Place(h)' = Place(h) /\ WrittenRight(h)' /\ ReceivedRight(h)'
    <2>1. Messages(written[h]) /\ Len(written[h]) \in Nat
      BY <1>2, PlaceRight
    <2>2. WrittenRight(h) /\ ReceivedRight(h)
      BY <1>2 DEF HopRight
    <2>3. Place(h)' = Place(h) /\ ReceivedRight(h)'
      BY <2>1, <2>2, PlaceStays
    <2> QED BY <1>1, <2>2, <2>3, WrittenStays
  <1>4. HopRight(h)'
    <2>1. Hop(written'[h], Route[h], Place(h)', wire'[h], waiting'[h], h \in cut')
      BY <1>3
    <2>2. Reader(h)' = Reader(h)
      BY DEF Reader
    <2> QED BY <1>3, <2>1, <2>2 DEF HopRight
  <1>5. ASSUME NEW g \in Hops, g # h PROVE HopRight(g)' /\ Place(g)' = Place(g)
    <2>1. HopRight(g)
      BY DEF Right
    <2>2. /\ wire'[g] = wire[g] /\ waiting'[g] = waiting[g] /\ busy'[g] = busy[g]
          /\ g \in cut => g \in cut'
      BY <1>5 DEF Apart
    <2>3. Reader(g) \in ended' => Reader(g) \in ended
      BY <1>5
    <2> QED BY <1>1, <2>1, <2>2, <2>3, HopStays
  <1>6. Numbered' /\ Followed'
    <2>1. 1 \in Hops
      BY RouteProperties
    <2>2. Place(1)' = Place(1)
      BY <1>3, <1>5, <2>1
    <2>3. Followed'
      BY <2>2, FollowedAs DEF Right
    <2>4. Transactions' = Transactions
      BY DEF Transactions
    <2> QED BY <2>3, <2>4 DEF Right, Numbered
  <1>7. \A g \in Hops : ChannelStep(g)
    BY <1>3, <1>5 DEF ChannelStep
  <1>8. Right'
    BY <1>4, <1>5, <1>6 DEF Right, Apart
  <1> QED BY <1>7, <1>8

LEMMA TransactionsBounded ==
  ASSUME NEW h \in Hops, HopRight(h)
  PROVE  \A k \in 1 .. Len(written[h]) : written[h][k].message.transaction \in 1 .. MaxMessages
  <1>1. ASSUME NEW r \in SignedMessage PROVE r.message.transaction \in 1 .. MaxMessages
    BY DEF SignedMessage, Message
  <1>2. \A k \in 1 .. Len(written[h]) : written[h][k] \in SignedMessage
    BY PlaceRight
  <1> QED BY <1>1, <1>2

LEMMA SendCloseKeeps ==
  ASSUME Right, NEW h \in Hops, SendClose(h)
  PROVE  Right' /\ \A g \in Hops : ChannelStep(g)
  <1>1. /\ Write(wire, h, <<Close>>) /\ state' = [state EXCEPT ![h] = "closing"]
        /\ sequence' = sequence /\ ended' = ended /\ written' = written /\ received' = received
    BY DEF SendClose
  <1>2. /\ DOMAIN waiting = Hops /\ DOMAIN wire = Hops /\ busy \in [Hops -> BOOLEAN]
        /\ state \in [Hops -> {"open", "closing", "closed"}] /\ ended \subseteq Peers
        /\ cut \subseteq Hops /\ opening \in [Hops -> SUBSET (1 .. MaxMessages)]
        /\ HopRight(h)
    BY DEF Right
  <1>3. /\ Hop(written[h], Route[h], Place(h), wire[h], waiting[h], h \in cut)
        /\ Reader(h) \in ended => h \in cut
        /\ waiting[h] # <<>> => busy[h]
    BY <1>2 DEF HopRight
  <1> DEFINE b == <<Close>>
  <1>4. b = <<Close>>
    OBVIOUS
  <1>5. Write(wire, h, b)
    BY <1>1
  <1> HIDE DEF b
  <1>6. /\ Hop(written[h], Route[h], Place(h), wire'[h], waiting'[h], h \in cut')
        /\ waiting'[h] # <<>> => busy'[h]
        /\ Apart(h, wire)
    BY <1>2, <1>3, <1>4, <1>5, TransactionsBounded, WriteRight
  <1>7. Reader(h) \in ended' => h \in cut'
    BY <1>1, <1>3, <1>6 DEF Apart
  <1>8. state' \in [Hops -> {"open", "closing", "closed"}]
    BY <1>1, <1>2
  <1> QED BY <1>1, <1>2, <1>6, <1>7, <1>8, NoMessageMore

LEMMA WriteDoneKeeps ==
  ASSUME Right, NEW h \in Hops, WriteDone(h)
  PROVE  Right' /\ \A g \in Hops : ChannelStep(g)
  <1>1. /\ sequence' = sequence /\ state' = state /\ ended' = ended
        /\ written' = written /\ received' = received
    BY DEF WriteDone
  <1>2. /\ DOMAIN waiting = Hops /\ DOMAIN wire = Hops /\ busy \in [Hops -> BOOLEAN]
        /\ state \in [Hops -> {"open", "closing", "closed"}] /\ ended \subseteq Peers
        /\ cut \subseteq Hops /\ opening \in [Hops -> SUBSET (1 .. MaxMessages)]
        /\ HopRight(h)
    BY DEF Right
  <1>3. /\ Hop(written[h], Route[h], Place(h), wire[h], waiting[h], h \in cut)
        /\ Reader(h) \in ended => h \in cut
    BY <1>2 DEF HopRight
  <1>4. CASE waiting[h] = <<>>
    <2>1. /\ busy' = [busy EXCEPT ![h] = FALSE]
          /\ waiting' = waiting /\ wire' = wire /\ opening' = opening /\ cut' = cut
      BY <1>4 DEF WriteDone
    <2>2. Apart(h, wire)
      BY <1>2, <2>1 DEF Apart
    <2> QED BY <1>1, <1>2, <1>3, <1>4, <2>1, <2>2, NoMessageMore
  <1>5. CASE waiting[h] # <<>>
    <2> DEFINE W == waiting[h]
    <2>1. /\ waiting' = [waiting EXCEPT ![h] = <<>>] /\ busy' = busy
          /\ \/ Emit(wire, h, Records(FlattenSeq(W)))
             \/ Emit(wire, h, FlattenSeq([i \in DOMAIN W |-> Records(W[i])]))
      BY <1>5 DEF WriteDone
    <2>2. Sq(W) /\ W # <<>> /\ \A i \in 1 .. Len(W) : Sq(W[i]) /\ W[i] # <<>>
      <3>1. /\ Messages(written[h]) /\ Place(h) \in 0 .. Len(written[h]) /\ Sq(W)
            /\ \A i \in 1 .. Len(W) : BufferRight(written[h], Route[h], Place(h), W[i])
        BY <1>3 DEF Hop
      <3>2. \A i \in 1 .. Len(W) : Sq(W[i]) /\ W[i] # <<>>
        BY <3>1, BufferRightAs
      <3> QED BY <1>5, <3>1, <3>2
    <2>3. Hop(written[h], Route[h], Place(h), wire[h], W, h \in cut)
      BY <1>3
    <2> HIDE DEF W
    <2>4. PICK recs, seg, off : Cuts(recs, W, seg, off) /\ Emit(wire, h, recs)
      <3>1. \E seg, off : Cuts(Records(FlattenSeq(W)), W, seg, off)
        BY <2>2, CutsTogether
      <3>2. \E seg, off : Cuts(FlattenSeq([i \in DOMAIN W |-> Records(W[i])]), W, seg, off)
        BY <2>2, CutsSeparately
      <3> QED BY <2>1, <3>1, <3>2
    <2>5. /\ Hop(written[h], Route[h], Place(h), wire'[h], <<>>, h \in cut')
          /\ DOMAIN wire' = Hops /\ \A g \in Hops : g # h => wire'[g] = wire[g]
          /\ cut' \subseteq Hops /\ \A g \in Hops : g \in cut => g \in cut'
          /\ opening' \in [Hops -> SUBSET (1 .. MaxMessages)]
      BY <1>2, <2>3, <2>4, TransactionsBounded, EmitRight
    <2>6. /\ DOMAIN waiting' = Hops /\ waiting'[h] = <<>>
          /\ \A g \in Hops : g # h => waiting'[g] = waiting[g]
      BY <1>2, <2>1
    <2>7. Apart(h, wire)
      BY <1>2, <2>1, <2>5, <2>6 DEF Apart
    <2>8. Hop(written[h], Route[h], Place(h), wire'[h], waiting'[h], h \in cut')
      BY <2>5, <2>6
    <2>9. Reader(h) \in ended' => h \in cut'
      BY <1>1, <1>3, <2>5
    <2> QED BY <1>1, <1>2, <2>6, <2>7, <2>8, <2>9, NoMessageMore
  <1> QED BY <1>4, <1>5

\* The chunk that arrives.
LEMMA ChunkIsRight ==
  ASSUME Right, NEW h \in Hops, Arrives(h)
  PROVE  /\ wire[h] # <<>> /\ Chunk(h) = wire[h][1]
         /\ ChunkRight(written[h], Route[h], Place(h), Chunk(h))
         /\ h \notin cut => WholeRight(written[h], Route[h], Place(h), Chunk(h))
         /\ \A k \in 1 .. Len(written[h]) : written[h][k].message.sequence \in Seq(Nat)
         /\ sequence[Reader(h)] \in Seq(Nat) /\ Reader(h) \in Peers
  <1>1. /\ Hop(written[h], Route[h], Place(h), wire[h], waiting[h], h \in cut)
        /\ sequence \in Configurations /\ HopRight(h)
    BY DEF Right, HopRight
  <1>2. wire[h] # <<>> /\ Sq(wire[h])
    BY <1>1 DEF Arrives, Hop
  <1>3. Chunk(h) = wire[h][1] /\ 1 \in 1 .. Len(wire[h])
    BY <1>2, Tailed DEF Chunk
  <1>4. /\ ChunkRight(written[h], Route[h], Place(h), wire[h][1])
        /\ h \notin cut => WholeRight(written[h], Route[h], Place(h), wire[h][1])
    BY <1>1, <1>3 DEF Hop
  <1>5. /\ sequence \in [Peers -> Seq(Nat)] /\ Reader(h) \in Peers
        /\ UNION {Range(c) : c \in Configurations} \subseteq Seq(Nat)
    <2>1. Configurations \subseteq [Peers -> Seq(Nat)]
      BY StreamAssumption
    <2>2. \A c \in Configurations : Range(c) \subseteq Seq(Nat)
      BY <2>1 DEF Range
    <2>3. Reader(h) \in Peers
      BY RouteProperties
    <2>4. sequence \in [Peers -> Seq(Nat)]
      BY <1>1, <2>1
    <2>5. UNION {Range(c) : c \in Configurations} \subseteq Seq(Nat)
      BY <2>2
    <2> QED BY <2>3, <2>4, <2>5
  <1>6. \A k \in 1 .. Len(written[h]) : written[h][k].message.sequence \in Seq(Nat)
    <2>1. ASSUME NEW r \in SignedMessage PROVE r.message.sequence \in Seq(Nat)
      BY <1>5 DEF SignedMessage, Message
    <2>2. \A k \in 1 .. Len(written[h]) : written[h][k] \in SignedMessage
      BY <1>1, PlaceRight
    <2> QED BY <2>1, <2>2
  <1>7. sequence[Reader(h)] \in Seq(Nat)
    BY <1>5
  <1> QED BY <1>2, <1>3, <1>4, <1>5, <1>6, <1>7

\* A chunk is read, and nothing comes of it for the messages.
LEMMA ChunkGone ==
  ASSUME Right, NEW h \in Hops, Arrives(h), wire' = Remaining(h),
         sequence' = sequence, written' = written, received' = received,
         waiting' = waiting, busy' = busy, opening' = opening, cut' = cut,
         state' \in [Hops -> {"open", "closing", "closed"}],
         ended' = ended \/ (h \in cut /\ ended' = ended \cup {Reader(h)})
  PROVE  Right' /\ \A g \in Hops : ChannelStep(g)
  <1>1. /\ DOMAIN waiting = Hops /\ DOMAIN wire = Hops /\ busy \in [Hops -> BOOLEAN]
        /\ ended \subseteq Peers
        /\ cut \subseteq Hops /\ opening \in [Hops -> SUBSET (1 .. MaxMessages)]
        /\ Hop(written[h], Route[h], Place(h), wire[h], waiting[h], h \in cut)
        /\ Reader(h) \in ended => h \in cut
        /\ waiting[h] # <<>> => busy[h]
    BY DEF Right, HopRight
  <1>2. wire[h] # <<>> /\ Reader(h) \in Peers
    BY ChunkIsRight
  <1>3. Hop(written[h], Route[h], Place(h), Tail(wire[h]), waiting[h], h \in cut)
    BY <1>1, <1>2, HopRead
  <1>4. /\ DOMAIN wire' = Hops /\ wire'[h] = Tail(wire[h])
        /\ \A g \in Hops : g # h => wire'[g] = wire[g]
    BY <1>1 DEF Remaining
  <1>5. Apart(h, wire)
    BY <1>1, <1>4 DEF Apart
  <1>6. Hop(written[h], Route[h], Place(h), wire'[h], waiting'[h], h \in cut')
    BY <1>3, <1>4
  <1>7. Reader(h) \in ended' => h \in cut'
    BY <1>1
  <1>8. \A g \in Hops : g # h /\ Reader(g) \in ended' => Reader(g) \in ended
    <2>1. \A g \in Hops : g # h => Reader(g) # Reader(h)
      BY RouteProperties
    <2> QED BY <2>1
  <1>9. ended' \subseteq Peers
    BY <1>1, <1>2
  <1> QED BY <1>1, <1>5, <1>6, <1>7, <1>8, <1>9, NoMessageMore

LEMMA ReadCloseKeeps ==
  ASSUME Right, NEW h \in Hops, ReadClose(h)
  PROVE  Right' /\ \A g \in Hops : ChannelStep(g)
  <1>1. /\ Arrives(h) /\ state' = [state EXCEPT ![h] = "closed"] /\ wire' = Remaining(h)
        /\ sequence' = sequence /\ waiting' = waiting /\ busy' = busy /\ ended' = ended
        /\ written' = written /\ opening' = opening /\ cut' = cut /\ received' = received
    BY DEF ReadClose
  <1>2. state' \in [Hops -> {"open", "closing", "closed"}]
    BY <1>1 DEF Right
  <1> QED BY <1>1, <1>2, ChunkGone

LEMMA ReadRefusedKeeps ==
  ASSUME Right, NEW h \in Hops, Arrives(h), NEW d, ReadRefused(h, d)
  PROVE  Right' /\ \A g \in Hops : ChannelStep(g)
  <1>1. /\ wire' = Remaining(h) /\ state' = state
        /\ sequence' = sequence /\ waiting' = waiting /\ busy' = busy /\ ended' = ended
        /\ written' = written /\ opening' = opening /\ cut' = cut /\ received' = received
    BY DEF ReadRefused
  <1>2. state' \in [Hops -> {"open", "closing", "closed"}]
    BY <1>1 DEF Right
  <1> QED BY <1>1, <1>2, ChunkGone

\* Only a chunk that begins inside a message ends its reader.
LEMMA ReadThrowsKeeps ==
  ASSUME Right, NEW h \in Hops, Arrives(h), Chunk(h) # <<Close>>, ReadThrows(h, Decode(Chunk(h)))
  PROVE  Right' /\ \A g \in Hops : ChannelStep(g)
  <1>1. /\ wire' = Remaining(h) /\ state' = state /\ ended' = ended \cup {Reader(h)}
        /\ sequence' = sequence /\ waiting' = waiting /\ busy' = busy
        /\ written' = written /\ opening' = opening /\ cut' = cut /\ received' = received
        /\ Decode(Chunk(h)).fate # "reads"
    BY DEF ReadThrows
  <1>2. state' \in [Hops -> {"open", "closing", "closed"}]
    BY <1>1 DEF Right
  <1>3. h \in cut
    <2> SUFFICES ASSUME h \notin cut PROVE FALSE
      OBVIOUS
    <2> DEFINE b == Chunk(h)
               msgs == written[h]
               p == Route[h]
               lo == Place(h)
               conf == sequence[Reader(h)]
    <2>1. HopRight(h)
      BY DEF Right
    <2>2. Messages(msgs) /\ lo \in 0 .. Len(msgs)
      BY <2>1, PlaceRight
    <2>3. /\ ChunkRight(msgs, p, lo, b) /\ WholeRight(msgs, p, lo, b)
          /\ \A k \in 1 .. Len(msgs) : msgs[k].message.sequence \in Seq(Nat)
          /\ conf \in Seq(Nat)
      BY ChunkIsRight
    <2> HIDE DEF b, msgs, p, lo, conf
    <2>4. WholeRight(msgs, p, lo, b) /\ b # <<Close>> => Decode(b).fate = "reads"
      BY ZenonT(40), <2>2, <2>3, ReadRight
    <2> QED BY <1>1, <2>3, <2>4 DEF b
  <1> QED BY <1>1, <1>2, <1>3, ChunkGone

LEMMA AppendToOne ==
  ASSUME NEW u, NEW v
  PROVE  Append(<<u>>, v) = <<u, v>>
  <1> DEFINE S == {u, v}
             t == <<u>>
             w == <<u, v>>
  <1>1. /\ t \in Seq(S) /\ Len(t) = 1 /\ t[1] = u /\ v \in S
        /\ w \in Seq(S) /\ Len(w) = 2 /\ w[1] = u /\ w[2] = v
    OBVIOUS
  <1> HIDE DEF S, t, w
  <1>2. /\ Append(t, v) \in Seq(S) /\ Len(Append(t, v)) = 2
        /\ Append(t, v)[1] = u /\ Append(t, v)[2] = v
    <2>1. /\ Append(t, v) \in Seq(S) /\ Len(Append(t, v)) = Len(t) + 1
          /\ \A i \in 1 .. Len(t) : Append(t, v)[i] = t[i]
          /\ Append(t, v)[Len(t) + 1] = v
      <3>1. t \in Seq(S) /\ v \in S
        BY <1>1
      <3> QED BY <3>1, AppendProperties
    <2>2. Append(t, v)[1] = t[1] /\ Len(t) + 1 = 2
      BY <1>1, <2>1
    <2> QED BY <1>1, <2>1, <2>2
  <1>3. \A i \in 1 .. 2 : Append(t, v)[i] = w[i]
    <2>1. \A i \in 1 .. 2 : i = 1 \/ i = 2
      OBVIOUS
    <2> QED BY <1>1, <1>2, <2>1
  <1>4. Append(t, v) = w
    BY <1>1, <1>2, <1>3, SeqEqual
  <1> QED BY <1>4 DEF t, w

LEMMA WellFormedFields ==
  ASSUME NEW overlay, NEW conf, NEW ttl, NEW transaction, NEW via, NEW dest, NEW code, NEW body,
         Ids(via), Ids(dest), code \in Range(MessageCode), OfClass(code, body)
  PROVE  WellFormed([overlay |-> overlay, sequence |-> conf, ttl |-> ttl,
                     transaction |-> transaction, via |-> via, dest |-> dest,
                     code |-> code, body |-> body])
  BY DEF WellFormed

\* A message of one hop is for its reader, or it is one for the resource that
\* is sent on.
LEMMA WhatIsForwarded ==
  ASSUME NEW h \in Hops, NEW m, Own(h, m) \/ Relayed(h, m),
         ~(IsLocal(Reader(h), Stripped(Reader(h), m.dest)) \/ m.ttl = 1)
  PROVE  /\ h = 1 /\ Own(1, m)
         /\ Forwarded(Route[2], m) =
              [m EXCEPT !.ttl = InitialTtl - 1, !.via = <<NodeID(Route[1]), NodeID(Route[2])>>,
                        !.dest = <<ResourceID(Target)>>]
  <1> DEFINE p == Reader(h)
             a == NodeID(p)
             c == ResourceID(Target)
  <1>1. a # c
    BY DEF NodeID, ResourceID
  <1>2. m.dest = <<a>> => IsLocal(p, Stripped(p, m.dest))
    BY DEF IsLocal, Stripped
  <1>3. m.dest = <<c>> /\ p = Last(Route) => IsLocal(p, Stripped(p, m.dest))
    <2> SUFFICES ASSUME m.dest = <<c>>, p = Last(Route) PROVE IsLocal(p, Stripped(p, m.dest))
      OBVIOUS
    <2>1. Stripped(p, m.dest) = m.dest
      BY DEF Stripped
    <2> HIDE DEF a, c
    <2>2. Len(m.dest) = 1 /\ m.dest[1] = c
      OBVIOUS
    <2>3. c \in {NodeID(p)} \cup {ResourceID(Target)}
      BY DEF c
    <2> QED BY <2>1, <2>2, <2>3 DEF IsLocal
  <1>4. ~Relayed(h, m)
    <2> SUFFICES ASSUME Relayed(h, m) PROVE FALSE
      OBVIOUS
    <2>1. h = 2 /\ m.dest = <<c>>
      BY DEF Relayed
    <2> QED BY <1>3, <2>1, RouteProperties
  <1>5. h = 1 /\ Own(1, m) /\ m.dest = <<a, c>> /\ p = Route[2]
    BY <1>2, <1>4, RouteProperties DEF Own
  <1>6. m.ttl = InitialTtl /\ m.via = <<NodeID(Route[1])>>
    BY <1>5 DEF Own
  <1>7. Stripped(Route[2], m.dest) = <<c>>
    <2>1. a = NodeID(Route[2])
      BY <1>5
    <2> HIDE DEF a, c
    <2>2. m.dest[1] = a /\ Len(m.dest) > 1 /\ Tail(m.dest) = <<c>>
      BY <1>5
    <2> QED BY <2>1, <2>2 DEF Stripped
  <1>8. Append(m.via, NodeID(Route[2])) = <<NodeID(Route[1]), NodeID(Route[2])>>
    <2> DEFINE u == NodeID(Route[1])
               v == NodeID(Route[2])
    <2>1. m.via = <<u>>
      BY <1>6
    <2> HIDE DEF u, v
    <2>2. Append(<<u>>, v) = <<u, v>>
      BY AppendToOne
    <2> QED BY <2>1, <2>2 DEF u, v
  <1> QED BY <1>5, <1>6, <1>7, <1>8 DEF Forwarded

\* And what is sent on is in order.
LEMMA ForwardedRight ==
  ASSUME NEW m \in Message, WellFormed(m), NEW fm,
         fm = [m EXCEPT !.ttl = InitialTtl - 1, !.via = <<NodeID(Route[1]), NodeID(Route[2])>>,
                        !.dest = <<ResourceID(Target)>>]
  PROVE  WellFormed(fm) /\ BySigner(Route[2], fm) \in SignedMessage
  <1> DEFINE N == {NodeID(q) : q \in Peers}
             D == N \cup {ResourceID(Target)}
             a == NodeID(Route[1])
             b == NodeID(Route[2])
             c == ResourceID(Target)
             via == <<a, b>>
             dest == <<c>>
             ttl == InitialTtl - 1
  <1>1. a \in N /\ b \in N /\ c \in D /\ Route[2] \in Peers
    BY RouteProperties
  <1>2. /\ \A x \in N : \E id : x = NodeID(id) \/ x = ResourceID(id)
        /\ \A x \in D : \E id : x = NodeID(id) \/ x = ResourceID(id)
    OBVIOUS
  <1>3. ttl \in 1 .. InitialTtl
    BY StreamAssumption
  <1>4. via \in Seq(N) /\ dest \in Seq(D)
    <2> HIDE DEF a, b, c, N, D
    <2> QED BY <1>1
  <1>5. Ids(via) /\ Ids(dest)
    <2> HIDE DEF via, dest, N, D
    <2>1. Ids(via)
      BY <1>2, <1>4, NodesOnly
    <2>2. Ids(dest)
      BY <1>2, <1>4, NodesOnly
    <2> QED BY <2>1, <2>2
  <1>6. fm = [m EXCEPT !.ttl = ttl, !.via = via, !.dest = dest]
    OBVIOUS
  <1> HIDE DEF via, dest, ttl, N, D
  <1>7. fm = [overlay |-> m.overlay, sequence |-> m.sequence, ttl |-> ttl,
              transaction |-> m.transaction, via |-> via, dest |-> dest,
              code |-> m.code, body |-> m.body]
    BY <1>6 DEF WellFormed
  <1>8. WellFormed(fm)
    <2>1. m.code \in Range(MessageCode) /\ OfClass(m.code, m.body)
      BY DEF WellFormed
    <2>2. WellFormed([overlay |-> m.overlay, sequence |-> m.sequence, ttl |-> ttl,
                      transaction |-> m.transaction, via |-> via, dest |-> dest,
                      code |-> m.code, body |-> m.body])
      BY <1>5, <2>1, WellFormedFields
    <2> QED BY <1>7, <2>2
  <1>9. fm \in Message
    BY <1>3, <1>4, <1>7 DEF Message, N, D
  <1> QED BY <1>1, <1>8, <1>9 DEF BySigner, SignedMessage

\* The message at place k is received.
LEMMA ReceivedMore ==
  ASSUME NEW h \in Hops, Messages(written[h]), ReceivedRight(h),
         Place(h) \in 0 .. Len(written[h]), written[h] \in Seq(SignedMessage),
         NEW k \in Place(h) + 1 .. Len(written[h]),
         received'[h] = Append(received[h], written[h][k]), written'[h] = written[h],
         sequence' = sequence, sequence[Route[h]] = sequence[Reader(h)]
  PROVE  Place(h)' = k /\ ReceivedRight(h)'
  <1> DEFINE msgs == written[h]
             got == received[h]
             last == Place(h)
             s == msgs[k]
             more == Append(got, s)
             n == Len(got)
  <1>1. PICK f \in [1 .. n -> 1 .. Len(msgs)] : Picks(f, got, msgs, last)
    BY DEF ReceivedRight
  <1>2. /\ Len(msgs) \in Nat /\ last \in Nat /\ k \in Nat /\ last < k /\ k \in 1 .. Len(msgs)
        /\ got \in Seq(SignedMessage) /\ s \in SignedMessage /\ Messages(msgs)
    BY DEF ReceivedRight
  <1>3. /\ more \in Seq(SignedMessage) /\ Len(more) = n + 1 /\ n \in Nat
        /\ \A i \in 1 .. n : more[i] = got[i]
        /\ more[n + 1] = s
    BY <1>2, AppendProperties
  <1>4. received'[h] = more /\ written'[h] = msgs
    OBVIOUS
  <1>5. \A i \in 1 .. n + 1 : i = n + 1 \/ i \in 1 .. n
    BY <1>3
  <1> DEFINE g == [i \in 1 .. n + 1 |-> IF i = n + 1 THEN k ELSE f[i]]
  <1>6. /\ g \in [1 .. n + 1 -> 1 .. Len(msgs)] /\ g[n + 1] = k
        /\ \A i \in 1 .. n : g[i] = f[i]
    BY <1>2, <1>3, <1>5
  <1> HIDE DEF g, more, s, got, last, n
  <1>7. /\ \A i \in 1 .. n : got[i] = msgs[f[i]] /\ f[i] <= last /\ f[i] \in Nat
        /\ \A i, j \in 1 .. n : i < j => f[i] < f[j]
    BY <1>1, <1>2 DEF Picks, n
  <1> HIDE DEF msgs
  <1>8. ASSUME NEW i \in 1 .. n + 1 PROVE more[i] = msgs[g[i]] /\ g[i] <= k
    <2>1. CASE i = n + 1
      BY <1>2, <1>3, <1>6, <2>1 DEF s
    <2>2. CASE i \in 1 .. n
      <3>1. f[i] <= last /\ f[i] \in Nat /\ g[i] = f[i] /\ more[i] = got[i] /\ got[i] = msgs[f[i]]
        BY <1>3, <1>6, <1>7, <2>2
      <3>2. f[i] <= k
        BY <1>2, <3>1
      <3> QED BY <3>1, <3>2
    <2> QED BY <1>5, <2>1, <2>2
  <1>9. ASSUME NEW i \in 1 .. n + 1, NEW j \in 1 .. n + 1, i < j PROVE g[i] < g[j]
    <2>1. i \in 1 .. n
      BY <1>3, <1>9
    <2>2. f[i] <= last /\ f[i] \in Nat /\ g[i] = f[i]
      BY <1>6, <1>7, <2>1
    <2>3. CASE j = n + 1
      <3>1. f[i] < k
        BY <1>2, <2>2
      <3> QED BY <1>6, <2>2, <2>3, <3>1
    <2>4. CASE j \in 1 .. n
      BY <1>6, <1>7, <1>9, <2>1, <2>4
    <2> QED BY <1>5, <2>3, <2>4
  <1>10. Picks(g, more, msgs, k)
    BY <1>3, <1>6, <1>8, <1>9 DEF Picks
  <1>11. Sq(more) /\ more # <<>>
    <2>1. Sq(more)
      BY <1>3, SqOf
    <2>2. Len(<<>>) = 0
      OBVIOUS
    <2> QED BY <1>3, <2>1, <2>2
  <1>12. PlaceIn(more, msgs) = g[n + 1]
    BY <1>2, <1>3, <1>10, <1>11, PlaceOfLast
  <1>13. Place(h)' = k
    BY <1>4, <1>6, <1>12, PlaceAs
  <1>14. ReceivedRight(h)'
    <2>1. (sequence[Route[h]] = sequence[Reader(h)])'
      BY DEF Reader
    <2>2. \E e \in [1 .. Len(more) -> 1 .. Len(msgs)] : Picks(e, more, msgs, k)
      BY <1>3, <1>6, <1>10
    <2> QED BY <1>3, <1>4, <1>13, <2>1, <2>2 DEF ReceivedRight
  <1> QED BY <1>13, <1>14

\* A genuine message is taken for the one at its place.
LEMMA WhatIsReceived ==
  ASSUME Right, NEW h \in Hops, Arrives(h), Genuine(h, Decode(Chunk(h)))
  PROVE  \E k \in Place(h) + 1 .. Len(written[h]) :
           /\ Starts(written[h], Route[h], wire[h][1], k)
           /\ Decode(Chunk(h)).message = written[h][k].message
           /\ BySigner(Owner(Decode(Chunk(h)).certificate), Decode(Chunk(h)).message) = written[h][k]
           /\ sequence[Route[h]] = sequence[Reader(h)]
           /\ Own(h, written[h][k].message) \/ Relayed(h, written[h][k].message)
           /\ k \in 1 .. Len(written[h])
  <1> DEFINE b == Chunk(h)
             msgs == written[h]
             p == Route[h]
             lo == Place(h)
             conf == sequence[Reader(h)]
             d == Decode(b)
  <1>1. HopRight(h)
    BY DEF Right
  <1>2. Messages(msgs) /\ lo \in 0 .. Len(msgs) /\ msgs \in Seq(SignedMessage) /\ Len(msgs) \in Nat
    BY <1>1, PlaceRight
  <1>3. /\ ChunkRight(msgs, p, lo, b) /\ b = wire[h][1]
        /\ \A k \in 1 .. Len(msgs) : msgs[k].message.sequence \in Seq(Nat)
        /\ conf \in Seq(Nat)
    BY ChunkIsRight
  <1>4. d.fate = "reads" /\ Verify(d, conf)
    BY DEF Genuine
  <1> HIDE DEF b, msgs, p, lo, conf
  <1>5. d.fate = "reads" /\ Verify(d, conf) =>
          \E k \in lo + 1 .. Len(msgs) :
            /\ Starts(msgs, p, b, k)
            /\ d.message = msgs[k].message /\ Owner(d.certificate) = p
            /\ conf = msgs[k].message.sequence
    BY <1>2, <1>3, ReadRight
  <1> HIDE DEF d
  <1>6. PICK k \in lo + 1 .. Len(msgs) :
          /\ Starts(msgs, p, b, k)
          /\ d.message = msgs[k].message /\ Owner(d.certificate) = p
          /\ conf = msgs[k].message.sequence
    BY <1>4, <1>5
  <1>7. k \in 1 .. Len(msgs)
    BY <1>2
  <1>8. /\ msgs[k].signer = p
        /\ Own(h, msgs[k].message) \/ Relayed(h, msgs[k].message)
    BY <1>1, <1>7 DEF HopRight, WrittenRight, msgs, p
  <1>9. msgs[k].message.sequence = sequence[Route[h]]
    BY <1>8 DEF Own, Relayed
  <1>10. BySigner(Owner(d.certificate), d.message) = msgs[k]
    <2>1. msgs[k] \in SignedMessage
      BY <1>2, <1>7
    <2>2. msgs[k] = [signer |-> msgs[k].signer, message |-> msgs[k].message]
      BY <2>1 DEF SignedMessage
    <2> QED BY <1>6, <1>8, <2>2 DEF BySigner
  <1>11. sequence[Route[h]] = sequence[Reader(h)]
    BY <1>6, <1>9 DEF conf
  <1> QED BY <1>3, <1>6, <1>7, <1>8, <1>10, <1>11 DEF d, b, msgs, p, lo

\* What was received has the place of its message.
LEMMA ReceivedHere ==
  ASSUME Right, NEW h \in Hops, Arrives(h), NEW k \in Place(h) + 1 .. Len(written[h]),
         Starts(written[h], Route[h], wire[h][1], k), sequence[Route[h]] = sequence[Reader(h)],
         received'[h] = Append(received[h], written[h][k]), written'[h] = written[h],
         sequence' = sequence, ended' = ended, Grown,
         wire'[h] = Tail(wire[h]), waiting'[h] = waiting[h], busy'[h] = busy[h],
         h \in cut => h \in cut'
  PROVE  HopRight(h)' /\ Place(h)' = k
  <1>1. HopRight(h) /\ wire[h] # <<>>
    BY ChunkIsRight DEF Right
  <1>2. /\ Messages(written[h]) /\ written[h] \in Seq(SignedMessage)
        /\ Place(h) \in 0 .. Len(written[h])
    BY <1>1, PlaceRight
  <1>3. /\ Hop(written[h], Route[h], Place(h), wire[h], waiting[h], h \in cut)
        /\ WrittenRight(h) /\ ReceivedRight(h)
        /\ Reader(h) \in ended => h \in cut
        /\ waiting[h] # <<>> => busy[h]
    BY <1>1 DEF HopRight
  <1>4. Place(h)' = k /\ ReceivedRight(h)'
    BY <1>2, <1>3, ReceivedMore
  <1>5. WrittenRight(h)'
    BY <1>3, WrittenStays
  <1>6. Hop(written[h], Route[h], k, Tail(wire[h]), waiting[h], h \in cut)
    BY <1>1, <1>3, HopReceived
  <1>7. Hop(written[h], Route[h], k, Tail(wire[h]), waiting[h], h \in cut')
    BY <1>6, HopCut
  <1>8. Hop(written'[h], Route[h], Place(h)', wire'[h], waiting'[h], h \in cut')
    BY <1>4, <1>7
  <1>9. Reader(h)' = Reader(h)
    BY DEF Reader
  <1> QED BY <1>3, <1>4, <1>5, <1>8, <1>9 DEF HopRight

LEMMA ReceiveKeeps ==
  ASSUME Right, NEW h \in Hops, Arrives(h), Receive(h, Decode(Chunk(h)))
  PROVE  Right' /\ \A g \in Hops : ChannelStep(g)
  <1> DEFINE d == Decode(Chunk(h))
             p == Reader(h)
  <1>1. /\ Genuine(h, d)
        /\ received' = [received EXCEPT ![h] =
                          Append(@, BySigner(Owner(d.certificate), d.message))]
        /\ sequence' = sequence /\ state' = state /\ ended' = ended
        /\ IF IsLocal(p, Stripped(p, d.message.dest)) \/ d.message.ttl = 1
           THEN /\ wire' = Remaining(h) /\ waiting' = waiting /\ busy' = busy
                /\ written' = written /\ opening' = opening /\ cut' = cut
           ELSE SendMessage(Remaining(h), h + 1, Forwarded(p, d.message))
    BY DEF Receive
  <1>2. PICK k \in Place(h) + 1 .. Len(written[h]) :
          /\ Starts(written[h], Route[h], wire[h][1], k)
          /\ d.message = written[h][k].message
          /\ BySigner(Owner(d.certificate), d.message) = written[h][k]
          /\ sequence[Route[h]] = sequence[Reader(h)]
          /\ Own(h, written[h][k].message) \/ Relayed(h, written[h][k].message)
          /\ k \in 1 .. Len(written[h])
    BY <1>1, WhatIsReceived
  <1> PICK s : s = written[h][k]
    OBVIOUS
  <1> PICK m : m = s.message
    OBVIOUS
  <1> HIDE DEF d
  <1>3. /\ sequence \in Configurations
        /\ DOMAIN waiting = Hops /\ DOMAIN wire = Hops
        /\ busy \in [Hops -> BOOLEAN] /\ state \in [Hops -> {"open", "closing", "closed"}]
        /\ ended \subseteq Peers /\ cut \subseteq Hops
        /\ opening \in [Hops -> SUBSET (1 .. MaxMessages)]
        /\ DOMAIN written = Hops /\ DOMAIN received = Hops
        /\ \A g \in Hops : HopRight(g)
    BY DEF Right
  <1>4. /\ DOMAIN received' = Hops /\ received'[h] = Append(received[h], s)
        /\ \A g \in Hops : g # h => received'[g] = received[g]
    BY <1>1, <1>2, <1>3
  <1>5. /\ Messages(written[h]) /\ written[h] \in Seq(SignedMessage) /\ s \in SignedMessage
        /\ Place(h) \in Nat /\ k \in Nat /\ Place(h) < k
        /\ received[h] \in Seq(SignedMessage) /\ WellFormed(m) /\ m \in Message
    <2>1. /\ Messages(written[h]) /\ written[h] \in Seq(SignedMessage)
          /\ Place(h) \in 0 .. Len(written[h]) /\ Len(written[h]) \in Nat
      BY <1>3, PlaceRight
    <2>2. s \in SignedMessage /\ WellFormed(m)
      BY <1>2, <2>1 DEF Messages
    <2>3. received[h] \in Seq(SignedMessage)
      BY <1>3 DEF HopRight, ReceivedRight
    <2>4. m \in Message
      BY <2>2 DEF SignedMessage
    <2> QED BY <1>2, <2>1, <2>2, <2>3, <2>4
  <1>6. /\ received'[h] \in Seq(SignedMessage) /\ Len(received'[h]) = Len(received[h]) + 1
        /\ Len(received[h]) \in Nat /\ DOMAIN received[h] = 1 .. Len(received[h])
        /\ DOMAIN received'[h] = 1 .. Len(received[h]) + 1
        /\ \A j \in 1 .. Len(received[h]) : received'[h][j] = received[h][j]
        /\ received'[h][Len(received[h]) + 1] = s
    <2>1. /\ received'[h] \in Seq(SignedMessage) /\ Len(received'[h]) = Len(received[h]) + 1
          /\ \A j \in 1 .. Len(received[h]) : received'[h][j] = received[h][j]
          /\ received'[h][Len(received[h]) + 1] = s
      BY <1>4, <1>5, AppendProperties
    <2>2. /\ Len(received[h]) \in Nat /\ DOMAIN received[h] = 1 .. Len(received[h])
          /\ DOMAIN received'[h] = 1 .. Len(received'[h])
      BY <1>5, <2>1
    <2> QED BY <2>1, <2>2
  <1>7. Grown
    <2> SUFFICES ASSUME NEW j \in DOMAIN received[1]
                 PROVE  j \in DOMAIN received'[1] /\ received'[1][j] = received[1][j]
      BY DEF Grown
    <2>1. CASE h = 1
      BY SMTT(30), <1>6, <2>1
    <2>2. CASE h # 1
      BY <1>4, <2>2, RouteProperties
    <2> QED BY <2>1, <2>2
  <1>8. DOMAIN Remaining(h) = Hops /\ Remaining(h)[h] = Tail(wire[h])
        /\ \A g \in Hops : g # h => Remaining(h)[g] = wire[g]
    BY <1>3 DEF Remaining
  \* The message is for the reader.
  <1>9. ASSUME IsLocal(p, Stripped(p, m.dest)) \/ m.ttl = 1
        PROVE  Right' /\ \A g \in Hops : ChannelStep(g)
    <2>1. /\ wire' = Remaining(h) /\ waiting' = waiting /\ busy' = busy
          /\ written' = written /\ opening' = opening /\ cut' = cut
      BY <1>1, <1>2, <1>9
    <2>2. HopRight(h)' /\ Place(h)' = k
      BY <1>1, <1>2, <1>4, <1>7, <1>8, <2>1, ReceivedHere
    <2>3. ASSUME NEW g \in Hops, g # h PROVE HopRight(g)' /\ Place(g)' = Place(g)
      BY <1>1, <1>3, <1>4, <1>7, <1>8, <2>1, <2>3, HopStays
    <2>4. Followed'
      <3>1. 1 \in Hops
        BY RouteProperties
      <3>2. Place(1) \in Nat /\ Place(1)' \in Nat /\ Place(1) <= Place(1)'
        <4>1. Place(1) \in Nat
          BY <1>3, <3>1, PlaceRight
        <4>2. CASE h = 1
          BY <1>5, <2>2, <4>2
        <4>3. CASE h # 1
          BY <2>3, <3>1, <4>1, <4>3
        <4> QED BY <4>1, <4>2, <4>3
      <3> DEFINE last == Place(1)
                 now == Place(1)'
      <3>3. Follows(written[1], written[2], last)
        BY FollowedAs DEF Right
      <3> HIDE DEF last, now
      <3>4. last \in Nat /\ now \in Nat /\ last <= now
        BY <3>2 DEF last, now
      <3>5. Len(written[1]) \in Nat
        BY <1>3, <3>1, PlaceRight
      <3>6. Follows(written[1], written[2], now)
        BY SMTT(30), <3>3, <3>4, <3>5 DEF Follows
      <3>7. Follows(written'[1], written'[2], Place(1)')
        BY <2>1, <3>6 DEF now
      <3> QED BY <3>7, FollowedAs
    <2>5. Numbered'
      BY <2>1 DEF Right, Numbered, Transactions
    <2>6. ASSUME NEW g \in Hops PROVE ChannelStep(g)
      <3>1. CASE g = h
        BY <1>2, <1>4, <2>1, <2>2, <3>1 DEF ChannelStep
      <3>2. CASE g # h
        BY <1>4, <2>1, <2>3, <3>2 DEF ChannelStep
      <3> QED BY <3>1, <3>2
    <2>7. Right'
      BY <1>1, <1>3, <1>4, <1>8, <2>1, <2>2, <2>3, <2>4, <2>5 DEF Right
    <2> QED BY <2>6, <2>7
  \* It is sent on.
  <1>10. ASSUME ~(IsLocal(p, Stripped(p, m.dest)) \/ m.ttl = 1)
         PROVE  Right' /\ \A g \in Hops : ChannelStep(g)
    <2>1. /\ h = 1 /\ Own(1, m)
          /\ Forwarded(Route[2], m) =
               [m EXCEPT !.ttl = InitialTtl - 1, !.via = <<NodeID(Route[1]), NodeID(Route[2])>>,
                         !.dest = <<ResourceID(Target)>>]
      BY <1>2, <1>10, WhatIsForwarded
    <2> PICK fm : fm = Forwarded(Route[2], m)
      OBVIOUS
    <2>2. 1 \in Hops /\ 2 \in Hops /\ p = Route[2] /\ \A g \in Hops : g = 1 \/ g = 2
      BY <2>1, RouteProperties
    <2>3. SendMessage(Remaining(1), 2, fm)
      BY <1>1, <1>2, <1>10, <2>1, <2>2
    <2>4. WellFormed(fm) /\ BySigner(Route[2], fm) \in SignedMessage
      BY <1>5, <2>1, ForwardedRight
    <2>5. /\ fm.sequence = m.sequence /\ fm.ttl = InitialTtl - 1
          /\ fm.via = <<NodeID(Route[1]), NodeID(Route[2])>> /\ fm.dest = <<ResourceID(Target)>>
          /\ fm.transaction = m.transaction /\ fm.overlay = m.overlay
          /\ fm.code = m.code /\ fm.body = m.body
      BY ZenonT(40), <1>5, <2>1 DEF WellFormed
    <2>6. Relayed(2, fm)'
      <3>1. fm.sequence = sequence'[Route[2]]
        <4>1. m.sequence = sequence[Route[1]]
          BY <2>1 DEF Own
        <4>2. sequence[Route[1]] = sequence[Route[2]]
          BY <1>2, <2>1, <2>2
        <4> QED BY <1>1, <2>5, <4>1, <4>2
      <3>2. \E j \in DOMAIN received'[1] :
              LET o == received'[1][j].message
              IN  /\ o.transaction = fm.transaction /\ o.overlay = fm.overlay
                  /\ o.code = fm.code /\ o.body = fm.body
        <4> DEFINE j == Len(received[h]) + 1
        <4>1. j \in DOMAIN received'[1] /\ received'[1][j] = s
          BY <1>6, <2>1
        <4> HIDE DEF j
        <4> QED BY <2>5, <4>1
      <3> QED BY <2>5, <3>1, <3>2 DEF Relayed
    <2>7. Follows(written[1], written[2], Place(1))
      BY FollowedAs DEF Right
    <2>8. \A j \in 1 .. Len(written[2]) : written[2][j].message.transaction # fm.transaction
      <3> SUFFICES ASSUME NEW j \in 1 .. Len(written[2]),
                          written[2][j].message.transaction = fm.transaction
                   PROVE  FALSE
        OBVIOUS
      <3>1. written[1][k].message.transaction = written[2][j].message.transaction
        BY <1>2, <2>1, <2>5
      <3>2. k \in 1 .. Len(written[1])
        BY <1>2, <2>1
      <3>3. k <= Place(1)
        BY <2>7, <3>1, <3>2 DEF Follows
      <3> QED BY <1>5, <2>1, <3>3
    <2> DEFINE chunks == Remaining(1)
    <2>9. DOMAIN chunks = Hops /\ chunks[1] = Tail(wire[1]) /\ chunks[2] = wire[2]
      BY <1>8, <2>1, <2>2
    <2>10. SendMessage(chunks, 2, fm)
      BY <2>3
    <2> HIDE DEF chunks
    <2>11. /\ HopRight(2)' /\ Place(2)' = Place(2) /\ Apart(2, chunks)
           /\ DOMAIN written' = Hops /\ written'[2] = Append(written[2], BySigner(Route[2], fm))
           /\ \A g \in Hops : g # 2 => written'[g] = written[g]
      <3> PICK i : i = 2
        OBVIOUS
      <3>1. /\ i \in Hops /\ received'[i] = received[i] /\ (Own(i, fm)' \/ Relayed(i, fm)')
            /\ SendMessage(chunks, i, fm) /\ BySigner(Route[i], fm) \in SignedMessage
            /\ \A j \in 1 .. Len(written[i]) : written[i][j].message.transaction # fm.transaction
            /\ chunks[i] = wire[i]
        BY <1>4, <2>1, <2>2, <2>4, <2>6, <2>8, <2>9, <2>10
      <3>2. /\ Hop(written[i], Route[i], Place(i), chunks[i], waiting[i], i \in cut)
            /\ WrittenRight(i) /\ ReceivedRight(i)
            /\ Reader(i) \in ended => i \in cut
            /\ waiting[i] # <<>> => busy[i]
        <4>1. HopRight(i)
          BY <1>3, <3>1
        <4> DEFINE was == i \in cut
        <4>2. Hop(written[i], Route[i], Place(i), wire[i], waiting[i], was)
          BY <4>1 DEF HopRight
        <4> HIDE DEF was
        <4>3. Hop(written[i], Route[i], Place(i), chunks[i], waiting[i], was)
          BY <3>1, <4>2
        <4>4. Hop(written[i], Route[i], Place(i), chunks[i], waiting[i], i \in cut)
          BY <4>3 DEF was
        <4> QED BY <4>1, <4>4 DEF HopRight
      <3>3. /\ HopRight(i)' /\ Place(i)' = Place(i) /\ Apart(i, chunks)
            /\ DOMAIN written' = Hops /\ written'[i] = Append(written[i], BySigner(Route[i], fm))
            /\ \A g \in Hops : g # i => written'[g] = written[g]
        <4>1. /\ cut \subseteq Hops /\ opening \in [Hops -> SUBSET (1 .. MaxMessages)]
              /\ DOMAIN waiting = Hops /\ busy \in [Hops -> BOOLEAN] /\ DOMAIN written = Hops
              /\ sequence' = sequence /\ ended' = ended
          BY <1>1, <1>3
        <4> QED BY SMTT(60), <1>7, <2>4, <2>9, <3>1, <3>2, <4>1, SendRight
      <3> QED BY <3>3
    <2>12. HopRight(1)' /\ Place(1)' = k
      <3>1. /\ written'[h] = written[h] /\ wire'[h] = Tail(wire[h]) /\ waiting'[h] = waiting[h]
            /\ busy'[h] = busy[h] /\ (h \in cut => h \in cut')
        BY SMTT(30), <2>1, <2>2, <2>9, <2>11 DEF Apart
      <3>2. HopRight(h)' /\ Place(h)' = k
        BY <1>1, <1>2, <1>4, <1>7, <3>1, ReceivedHere
      <3> QED BY <2>1, <3>2
    <2> PICK r : r = BySigner(Route[2], fm)
      OBVIOUS
    <2>13. r \in SignedMessage /\ r.message = fm
      BY <2>4 DEF BySigner
    <2>14. written[1] \in Seq(SignedMessage) /\ written[2] \in Seq(SignedMessage)
      BY <1>3, <2>2, PlaceRight
    <2>15. Followed'
      <3> DEFINE last == Place(1)
      <3>1. Follows(written[1], written[2], last) /\ last \in Nat /\ last <= k /\ k \in Nat
        BY <1>5, <2>1, <2>7
      <3> HIDE DEF last
      <3>2. \A j \in 1 .. Len(written[1]) :
              written[1][j].message.transaction = r.message.transaction => j <= k
        <4>1. Messages(written[1]) /\ k \in 1 .. Len(written[1])
              /\ written[1][k].message.transaction = r.message.transaction
          BY <1>2, <1>5, <2>1, <2>5, <2>13
        <4>2. \A j \in 1 .. Len(written[1]) :
                written[1][j].message.transaction = r.message.transaction => j = k
          BY <4>1 DEF Messages
        <4> QED BY <1>5, <4>2
      <3>3. Follows(written[1], Append(written[2], r), k)
        BY <2>13, <2>14, <3>1, <3>2, FollowsStill
      <3>4. Follows(written'[1], written'[2], Place(1)')
        BY <2>2, <2>11, <2>12, <3>3
      <3> QED BY <3>4, FollowedAs
    <2>16. Numbered'
      <3> DEFINE i == 2
      <3>1. i \in Hops /\ written[i] \in Seq(SignedMessage) /\ written'[i] = Append(written[i], r)
            /\ \A g \in Hops : g # i => written'[g] = written[g]
        BY <2>2, <2>11, <2>14
      <3> HIDE DEF i
      <3>2. TransactionsIn(written') = TransactionsIn(written) \cup {r.message.transaction}
        BY SMTT(30), <2>13, <3>1, OneTransactionMore
      <3>3. r.message.transaction \in TransactionsIn(written)
        <4>1. written[h][k].message.transaction \in TransactionsIn(written)
          BY <1>2, <1>5, TransactionIsOne
        <4> QED BY <1>2, <2>5, <2>13, <4>1
      <3>4. Transactions' = Transactions
        BY <3>2, <3>3, TransactionsAs
      <3> QED BY <3>4 DEF Right, Numbered
    <2>17. \A g \in Hops : HopRight(g)'
      BY <2>2, <2>11, <2>12
    <2>18. ChannelStep(1)
      BY <1>2, <1>4, <2>1, <2>2, <2>11, <2>12 DEF ChannelStep
    <2>19. ChannelStep(2)
      BY <1>4, <2>1, <2>2, <2>4, <2>11 DEF ChannelStep
    <2>20. Right'
      BY <1>1, <1>3, <1>4, <2>11, <2>15, <2>16, <2>17 DEF Right, Apart
    <2> QED BY <2>2, <2>18, <2>19, <2>20
  <1> QED BY <1>9, <1>10

-----------------------------------------------------------------------------
(* The specification.                                                      *)

LEMMA Initially == Init => IInv
  <1> SUFFICES ASSUME Init PROVE IInv
    OBVIOUS
  <1>1. /\ sequence \in Configurations /\ busy \in [Hops -> BOOLEAN] /\ ended = {} /\ cut = {}
        /\ waiting = [h \in Hops |-> <<>>] /\ wire = [h \in Hops |-> <<>>]
        /\ written = [h \in Hops |-> <<>>] /\ received = [h \in Hops |-> <<>>]
        /\ state = [h \in Hops |-> "open"] /\ opening = [h \in Hops |-> {}]
    BY DEF Init
  <1>2. Len(<<>>) = 0 /\ <<>> \in Seq(SignedMessage)
    OBVIOUS
  <1>3. ASSUME NEW h \in Hops PROVE HopRight(h) /\ Place(h) = 0
    <2>1. /\ waiting[h] = <<>> /\ wire[h] = <<>> /\ written[h] = <<>> /\ received[h] = <<>>
      BY <1>1
    <2>2. Place(h) = 0
      BY <2>1 DEF Place
    <2> DEFINE was == h \in cut
    <2>3. Hop(<<>>, Route[h], 0, <<>>, <<>>, was)
      <3> HIDE DEF was
      <3> QED BY HopEmpty
    <2>4. WrittenRight(h)
      BY <1>2, <2>1 DEF WrittenRight
    <2>5. ReceivedRight(h)
      <3> DEFINE f == [i \in 1 .. 0 |-> 0]
      <3>1. f \in [1 .. 0 -> 1 .. 0] /\ Picks(f, <<>>, <<>>, 0)
        BY <1>2 DEF Picks
      <3> HIDE DEF f
      <3>2. \E e \in [1 .. Len(<<>>) -> 1 .. Len(<<>>)] : Picks(e, <<>>, <<>>, 0)
        BY <1>2, <3>1
      <3> QED BY <1>2, <2>1, <2>2, <3>2 DEF ReceivedRight
    <2> QED BY <1>1, <2>1, <2>2, <2>3, <2>4, <2>5 DEF HopRight
  <1>4. Transactions = 1 .. 0 /\ 0 \in 0 .. MaxMessages
    <2>1. \A h \in Hops : Range(written[h]) = {}
      BY <1>1 DEF Range
    <2>2. Transactions = {}
      BY <2>1 DEF Transactions
    <2> QED BY <2>2, StreamAssumption
  <1>5. Followed
    BY <1>1, <1>2, RouteProperties DEF Followed
  <1>6. opening \in [Hops -> SUBSET (1 .. MaxMessages)]
    BY <1>1
  <1>7. Right
    BY <1>1, <1>3, <1>4, <1>5, <1>6 DEF Right, Numbered
  <1> QED BY <1>1, <1>7 DEF IInv, Shaped

LEMMA RightKept ==
  ASSUME Right, Next
  PROVE  Right' /\ \A g \in Hops : ChannelStep(g)
  <1>1. PICK h \in Hops : Send(h) \/ SendClose(h) \/ WriteDone(h) \/ Read(h)
    BY DEF Next
  <1>2. CASE Send(h)
    BY <1>2, SendKeeps
  <1>3. CASE SendClose(h)
    BY <1>3, SendCloseKeeps
  <1>4. CASE WriteDone(h)
    BY <1>4, WriteDoneKeeps
  <1>5. CASE ReadClose(h)
    BY <1>5, ReadCloseKeeps
  <1>6. CASE ReadMessage(h)
    <2> DEFINE d == Decode(Chunk(h))
    <2>1. /\ Arrives(h) /\ Chunk(h) # <<Close>>
          /\ ReadThrows(h, d) \/ ReadRefused(h, d) \/ Receive(h, d)
      BY <1>6 DEF ReadMessage
    <2>2. CASE ReadThrows(h, d)
      BY <2>1, <2>2, ReadThrowsKeeps
    <2>3. CASE ReadRefused(h, d)
      <3> HIDE DEF d
      <3> QED BY <2>1, <2>3, ReadRefusedKeeps
    <2>4. CASE Receive(h, d)
      BY <2>1, <2>4, ReceiveKeeps
    <2> QED BY <2>1, <2>2, <2>3, <2>4
  <1> QED BY <1>1, <1>2, <1>3, <1>4, <1>5, <1>6 DEF Read

LEMMA ShapedKept ==
  ASSUME Right, Shaped, Next
  PROVE  Shaped'
  <1> DEFINE Function(f) == f = [h \in Hops |-> f[h]]
  <1>1. ASSUME NEW f, Function(f), NEW h, NEW v PROVE Function([f EXCEPT ![h] = v])
    BY <1>1
  <1>2. PICK h \in Hops : Send(h) \/ SendClose(h) \/ WriteDone(h) \/ Read(h)
    BY DEF Next
  <1>3. Function(written) /\ Function(received)
    BY DEF Shaped
  <1>4. \/ written' = written
        \/ \E i, m : written' = [written EXCEPT ![i] = Append(@, BySigner(Route[i], m))]
    <2>1. CASE Send(h)
      BY <2>1 DEF Send, SendMessage
    <2>2. CASE Read(h)
      BY <2>2 DEF Read, ReadClose, ReadMessage, ReadThrows, ReadRefused, Receive, SendMessage
    <2>3. CASE SendClose(h) \/ WriteDone(h)
      BY <2>3 DEF SendClose, WriteDone
    <2> QED BY <1>2, <2>1, <2>2, <2>3
  <1>5. received' = received \/ \E i, s : received' = [received EXCEPT ![i] = Append(@, s)]
    <2>1. CASE Send(h) \/ SendClose(h) \/ WriteDone(h)
      BY <2>1 DEF Send, SendClose, WriteDone
    <2>2. CASE Read(h)
      BY <2>2 DEF Read, ReadClose, ReadMessage, ReadThrows, ReadRefused, Receive
    <2> QED BY <1>2, <2>1, <2>2
  <1>6. Function(written')
    <2>1. CASE written' = written
      BY <1>3, <2>1
    <2>2. CASE \E i, m : written' = [written EXCEPT ![i] = Append(@, BySigner(Route[i], m))]
      <3>1. PICK i, m : written' = [written EXCEPT ![i] = Append(@, BySigner(Route[i], m))]
        BY <2>2
      <3> HIDE DEF Function
      <3> QED BY <1>1, <1>3, <3>1
    <2> QED BY <1>4, <2>1, <2>2
  <1>7. Function(received')
    <2>1. CASE received' = received
      BY <1>3, <2>1
    <2>2. CASE \E i, s : received' = [received EXCEPT ![i] = Append(@, s)]
      <3>1. PICK i, s : received' = [received EXCEPT ![i] = Append(@, s)]
        BY <2>2
      <3> HIDE DEF Function
      <3> QED BY <1>1, <1>3, <3>1
    <2> QED BY <1>5, <2>1, <2>2
  <1> QED BY <1>6, <1>7 DEF Shaped

LEMMA StepKeeps ==
  IInv /\ [Next]_vars => IInv' /\ \A g \in Hops : ChannelStep(g)
  <1> SUFFICES ASSUME IInv, [Next]_vars PROVE IInv' /\ \A g \in Hops : ChannelStep(g)
    OBVIOUS
  <1>1. CASE Next
    BY <1>1, RightKept, ShapedKept DEF IInv
  <1>2. CASE UNCHANGED vars
    <2>1. /\ sequence' = sequence /\ waiting' = waiting /\ busy' = busy /\ wire' = wire
          /\ state' = state /\ ended' = ended /\ written' = written /\ opening' = opening
          /\ cut' = cut /\ received' = received
      BY <1>2 DEF vars
    <2>2. Grown
      BY <2>1 DEF Grown
    <2>3. ASSUME NEW g \in Hops PROVE HopRight(g)' /\ Place(g)' = Place(g)
      BY <2>1, <2>2, HopStays DEF IInv, Right
    <2>4. Followed'
      <3>1. Place(1)' = Place(1)
        BY <2>3, RouteProperties
      <3> QED BY <2>1, <3>1, FollowedAs DEF IInv, Right
    <2>5. Numbered'
      BY <2>1 DEF IInv, Right, Numbered, Transactions
    <2>6. \A g \in Hops : ChannelStep(g)
      BY <2>1, <2>3 DEF ChannelStep
    <2>7. Right'
      BY <2>1, <2>3, <2>4, <2>5 DEF IInv, Right
    <2> QED BY <2>1, <2>6, <2>7 DEF IInv, Shaped
  <1> QED BY <1>1, <1>2

\* The invariant: each connection's buffers hold what was written to it and not
\* yet read, whole messages one after the other; what its reader has got are
\* some of those, in order; transactions are numbered as they are sent; and the
\* relay has written on only what it got.
THEOREM Invariance == Spec => []IInv
  <1>1. IInv /\ [Next]_vars => IInv'
    BY StepKeeps
  <1> QED BY Initially, <1>1, PTL DEF Spec

\* The variables hold what they should, whatever was sent, cut and forwarded.
THEOREM TypeCorrect == Spec => []TypeOK
  <1>1. IInv => TypeOK
    <2> SUFFICES ASSUME IInv PROVE TypeOK
      OBVIOUS
    <2>1. \A h \in Hops : /\ written[h] \in Seq(SignedMessage) /\ received[h] \in Seq(SignedMessage)
                          /\ waiting[h] # <<>> => busy[h]
      BY DEF IInv, Right, HopRight, WrittenRight, ReceivedRight
    <2>2. written \in [Hops -> Seq(SignedMessage)] /\ received \in [Hops -> Seq(SignedMessage)]
      BY <2>1 DEF IInv, Shaped
    <2> QED BY <2>1, <2>2 DEF IInv, Right, TypeOK
  <1> QED BY Invariance, <1>1, PTL

\* No sequence of messages ends the process of their reader while every
\* record of the connection begins with a message.
THEOREM OnlyCutsEnd == Spec => []EndsOnlyInsideAMessage
  <1>1. IInv => EndsOnlyInsideAMessage
    BY DEF IInv, Right, HopRight, EndsOnlyInsideAMessage
  <1> QED BY Invariance, <1>1, PTL

\* RelayKeepsTheMessage, of one message.
Kept(h, s, m) ==
  /\ m.sequence = sequence[Reader(h)] /\ s.signer = Route[h]
  /\ m.ttl + Len(m.via) = InitialTtl + 1
  /\ Last(m.via) = NodeID(s.signer)
  /\ m.via[1] # NodeID(s.signer) =>
       /\ m.via = <<NodeID(Route[h - 1]), NodeID(Route[h])>>
       /\ \E j \in DOMAIN received[h - 1] :
            LET o == received[h - 1][j].message
            IN  /\ o.transaction = m.transaction /\ o.overlay = m.overlay
                /\ o.code = m.code /\ o.body = m.body

\* What comes over the relay is what its origin sent to it.
THEOREM RelayIsFaithful == Spec => []RelayKeepsTheMessage
  <1>1. ASSUME IInv, NEW h \in Hops, NEW i \in DOMAIN received[h],
               NEW s, s = received[h][i], NEW m, m = s.message
        PROVE  Kept(h, s, m)
    <2>1. HopRight(h)
      BY <1>1 DEF IInv, Right
    <2>2. /\ received[h] \in Seq(SignedMessage)
          /\ received[h] # <<>> => sequence[Route[h]] = sequence[Reader(h)]
      BY <2>1 DEF HopRight, ReceivedRight
    <2>3. PICK f \in [1 .. Len(received[h]) -> 1 .. Len(written[h])] :
            Picks(f, received[h], written[h], Place(h))
      BY <2>1 DEF HopRight, ReceivedRight
    <2>4. i \in 1 .. Len(received[h])
      BY <2>2
    <2>5. s = written[h][f[i]] /\ f[i] \in 1 .. Len(written[h])
      BY <1>1, <2>3, <2>4 DEF Picks
    <2>6. s.signer = Route[h] /\ (Own(h, m) \/ Relayed(h, m))
      BY <1>1, <2>1, <2>5 DEF HopRight, WrittenRight
    <2>7. sequence[Route[h]] = sequence[Reader(h)]
      <3>1. Len(<<>>) = 0
        OBVIOUS
      <3>2. received[h] # <<>>
        BY <2>4, <3>1
      <3> QED BY <2>2, <3>2
    <2>8. InitialTtl \in Nat
      BY StreamAssumption
    <2> DEFINE a == NodeID(Route[1])
               b == NodeID(Route[2])
               c == NodeID(Route[h])
    <2>9. /\ Len(<<c>>) = 1 /\ <<c>>[1] = c
          /\ Len(<<a, b>>) = 2 /\ <<a, b>>[2] = b
      OBVIOUS
    <2>10. CASE Own(h, m)
      <3>1. m.sequence = sequence[Route[h]] /\ m.ttl = InitialTtl /\ m.via = <<c>>
        BY <2>10 DEF Own
      <3> HIDE DEF a, b, c
      <3>2. m.ttl + Len(m.via) = InitialTtl + 1 /\ Last(m.via) = c /\ m.via[1] = c
        BY <2>9, <3>1 DEF Last
      <3>3. c = NodeID(s.signer)
        BY <2>6 DEF c
      <3> QED BY <2>6, <2>7, <3>1, <3>2, <3>3 DEF Kept
    <2>11. CASE Relayed(h, m)
      <3>1. /\ h = 2 /\ m.sequence = sequence[Route[h]] /\ m.ttl = InitialTtl - 1 /\ m.via = <<a, b>>
            /\ \E j \in DOMAIN received[1] :
                 LET o == received[1][j].message
                 IN  /\ o.transaction = m.transaction /\ o.overlay = m.overlay
                     /\ o.code = m.code /\ o.body = m.body
        BY <2>11 DEF Relayed
      <3>2. b = NodeID(s.signer) /\ h - 1 = 1 /\ a = NodeID(Route[h - 1]) /\ b = NodeID(Route[h])
        BY <2>6, <3>1
      <3> HIDE DEF a, b, c
      <3>3. m.ttl + Len(m.via) = InitialTtl + 1 /\ Last(m.via) = b
        BY <2>8, <2>9, <3>1 DEF Last
      <3> QED BY <2>6, <2>7, <3>1, <3>2, <3>3 DEF Kept
    <2> QED BY <2>6, <2>10, <2>11
  <1>2. IInv => RelayKeepsTheMessage
    <2> SUFFICES ASSUME IInv, NEW h \in Hops, NEW i \in DOMAIN received[h]
                 PROVE  Kept(h, received[h][i], received[h][i].message)
      BY DEF RelayKeepsTheMessage, Kept
    <2> QED BY <1>1
  <1> QED BY Invariance, <1>2, PTL

LEMMA FrontOfAppend ==
  ASSUME NEW S, NEW s \in Seq(S), NEW e \in S
  PROVE  /\ Append(s, e) \in Seq(S) /\ Len(Append(s, e)) = Len(s) + 1
         /\ Append(s, e)[Len(s) + 1] = e /\ Front(Append(s, e)) = s
  <1> DEFINE t == Append(s, e)
             n == Len(s)
  <1>1. /\ t \in Seq(S) /\ Len(t) = n + 1 /\ n \in Nat
        /\ \A i \in 1 .. n : t[i] = s[i]
        /\ t[n + 1] = e
    BY AppendProperties
  <1> HIDE DEF t
  <1>2. Front(t) = SubSeq(t, 1, n)
    BY <1>1 DEF Front
  <1>3. \A i \in 1 .. n : t[i] \in S
    BY <1>1
  <1>4. /\ SubSeq(t, 1, n) \in Seq(S)
        /\ Len(SubSeq(t, 1, n)) = IF 1 <= n THEN n - 1 + 1 ELSE 0
        /\ \A i \in 1 .. n - 1 + 1 : SubSeq(t, 1, n)[i] = t[1 + i - 1]
    <2> HIDE DEF n
    <2>1. n \in Int /\ 1 \in Int /\ \A i \in 1 .. n : t[i] \in S
      BY <1>1, <1>3
    <2> QED BY <2>1, SubSeqProperties
  <1>5. Len(SubSeq(t, 1, n)) = n /\ \A i \in 1 .. n : SubSeq(t, 1, n)[i] = s[i]
    <2>1. \A i \in 1 .. n : i \in 1 .. n - 1 + 1 /\ 1 + i - 1 = i
      BY <1>1
    <2> QED BY <1>1, <1>4, <2>1
  <1> DEFINE u == SubSeq(t, 1, n)
  <1>6. u \in Seq(S) /\ Len(u) = Len(s) /\ \A i \in 1 .. Len(u) : u[i] = s[i]
    BY <1>4, <1>5
  <1> HIDE DEF u
  <1>7. u = s
    BY <1>6, SeqEqual
  <1> QED BY <1>1, <1>2, <1>7 DEF t, u

\* The channel steps of the two hops are steps of Channel.
LEMMA StepIsChannelStep ==
  IInv /\ [Next]_vars => [First!Next]_(First!vars) /\ [Second!Next]_(Second!vars)
  <1> SUFFICES ASSUME IInv, [Next]_vars
               PROVE  [First!Next]_(First!vars) /\ [Second!Next]_(Second!vars)
    OBVIOUS
  <1>1. ASSUME NEW g \in Hops
        PROVE  \/ /\ written'[g] \in Seq(SignedMessage) /\ Len(written'[g]) = Len(written[g]) + 1
                  /\ Front(written'[g]) = written[g]
                  /\ received'[g] = received[g] /\ Place(g)' = Place(g)
               \/ /\ \E k \in Place(g) + 1 .. Len(written[g]) :
                       Place(g)' = k /\ received'[g] = Append(received[g], written[g][k])
                  /\ written'[g] = written[g]
               \/ written'[g] = written[g] /\ received'[g] = received[g] /\ Place(g)' = Place(g)
    <2>1. ChannelStep(g) /\ written[g] \in Seq(SignedMessage)
      BY StepKeeps DEF IInv, Right, HopRight, WrittenRight
    <2>2. \A s \in SignedMessage :
            written'[g] = Append(written[g], s) =>
              /\ written'[g] \in Seq(SignedMessage) /\ Len(written'[g]) = Len(written[g]) + 1
              /\ Front(written'[g]) = written[g]
      BY <2>1, FrontOfAppend
    <2> QED BY <2>1, <2>2 DEF ChannelStep
  <1>2. 1 \in Hops /\ 2 \in Hops
    BY RouteProperties
  <1>3. First!Next \/ UNCHANGED First!vars
    <2>1. \/ /\ written'[1] \in Seq(SignedMessage) /\ Len(written'[1]) = Len(written[1]) + 1
             /\ Front(written'[1]) = written[1]
             /\ received'[1] = received[1] /\ Place(1)' = Place(1)
          \/ /\ \E k \in Place(1) + 1 .. Len(written[1]) :
                  Place(1)' = k /\ received'[1] = Append(received[1], written[1][k])
             /\ written'[1] = written[1]
          \/ written'[1] = written[1] /\ received'[1] = received[1] /\ Place(1)' = Place(1)
      BY <1>1, <1>2
    <2> QED BY <2>1 DEF First!Next, First!Send, First!Get, First!vars, First!Front, Front
  <1>4. Second!Next \/ UNCHANGED Second!vars
    <2>1. \/ /\ written'[2] \in Seq(SignedMessage) /\ Len(written'[2]) = Len(written[2]) + 1
             /\ Front(written'[2]) = written[2]
             /\ received'[2] = received[2] /\ Place(2)' = Place(2)
          \/ /\ \E k \in Place(2) + 1 .. Len(written[2]) :
                  Place(2)' = k /\ received'[2] = Append(received[2], written[2][k])
             /\ written'[2] = written[2]
          \/ written'[2] = written[2] /\ received'[2] = received[2] /\ Place(2)' = Place(2)
      BY <1>1, <1>2
    <2> QED BY <2>1 DEF Second!Next, Second!Send, Second!Get, Second!vars, Second!Front, Front
  <1> QED BY <1>3, <1>4

\* A connection loses messages but does nothing else to them.
THEOREM HopsImplementChannels == Spec => HopsAreChannels
  <1>1. Init => First!Init /\ Second!Init
    <2> SUFFICES ASSUME Init PROVE First!Init /\ Second!Init
      OBVIOUS
    <2>1. ASSUME NEW g \in Hops PROVE written[g] = <<>> /\ received[g] = <<>> /\ Place(g) = 0
      BY DEF Init, Place
    <2> QED BY <2>1, RouteProperties DEF First!Init, Second!Init
  <1>2. IInv /\ [Next]_vars => [First!Next]_(First!vars) /\ [Second!Next]_(Second!vars)
    BY StepIsChannelStep
  <1> QED BY Invariance, <1>1, <1>2, PTL DEF Spec, HopsAreChannels, First!Spec, Second!Spec

\* What the reader of a connection has got is a selection, in order, of what
\* was written to it.
THEOREM OnlyLosses == Spec => [](First!Selection /\ Second!Selection)
  <1>1. ASSUME IInv, NEW g \in Hops
        PROVE  \E f \in [DOMAIN received[g] -> DOMAIN written[g]] :
                 /\ \A i \in DOMAIN received[g] :
                      received[g][i] = written[g][f[i]] /\ f[i] <= Place(g)
                 /\ \A i, j \in DOMAIN received[g] : i < j => f[i] < f[j]
    <2>1. HopRight(g)
      BY <1>1 DEF IInv, Right
    <2>2. /\ DOMAIN received[g] = 1 .. Len(received[g])
          /\ DOMAIN written[g] = 1 .. Len(written[g])
      BY <2>1 DEF HopRight, WrittenRight, ReceivedRight
    <2>3. PICK f \in [1 .. Len(received[g]) -> 1 .. Len(written[g])] :
            Picks(f, received[g], written[g], Place(g))
      BY <2>1 DEF HopRight, ReceivedRight
    <2> QED BY <2>2, <2>3 DEF Picks
  <1>2. IInv => First!Selection /\ Second!Selection
    BY <1>1, RouteProperties DEF First!Selection, Second!Selection
  <1> QED BY Invariance, <1>2, PTL

\* And what it has got is never taken back, and what it gets next was written
\* after all of that.
THEOREM NothingIsTakenBack == Spec => First!OnlyLaterOnes /\ Second!OnlyLaterOnes
  <1>1. ASSUME IInv, [Next]_vars, NEW g \in Hops, received'[g] # received[g]
        PROVE  /\ Front(received'[g]) = received[g]
               /\ \E k \in DOMAIN written[g] :
                    k > Place(g) /\ received'[g][Len(received'[g])] = written[g][k]
    <2>1. HopRight(g) /\ ChannelStep(g)
      BY <1>1, StepKeeps DEF IInv, Right
    <2>2. PICK k \in Place(g) + 1 .. Len(written[g]) :
            received'[g] = Append(received[g], written[g][k])
      BY <1>1, <2>1 DEF ChannelStep
    <2>3. /\ written[g] \in Seq(SignedMessage) /\ received[g] \in Seq(SignedMessage)
          /\ Len(written[g]) \in Nat /\ Place(g) \in 0 .. Len(written[g])
      BY <2>1, PlaceRight DEF HopRight, ReceivedRight
    <2>4. k \in DOMAIN written[g] /\ k > Place(g) /\ written[g][k] \in SignedMessage
      BY <2>3
    <2>5. /\ Front(received'[g]) = received[g] /\ Len(received'[g]) = Len(received[g]) + 1
          /\ received'[g][Len(received[g]) + 1] = written[g][k]
      BY <2>2, <2>3, <2>4, FrontOfAppend
    <2> QED BY <2>4, <2>5
  <1>2. IInv /\ [Next]_vars =>
          [(received[1])' # received[1] =>
             /\ First!Front((received[1])') = received[1]
             /\ \E k \in DOMAIN written[1] :
                  k > Place(1) /\ (received[1])'[Len((received[1])')] = written[1][k]]_(First!vars)
    BY <1>1, RouteProperties DEF First!Front, Front
  <1>3. IInv /\ [Next]_vars =>
          [(received[2])' # received[2] =>
             /\ Second!Front((received[2])') = received[2]
             /\ \E k \in DOMAIN written[2] :
                  k > Place(2) /\ (received[2])'[Len((received[2])')] = written[2][k]]_(Second!vars)
    BY <1>1, RouteProperties DEF Second!Front, Front
  <1> QED BY Invariance, <1>2, <1>3, PTL DEF Spec, First!OnlyLaterOnes, Second!OnlyLaterOnes
=============================================================================
