-------------------------- MODULE NeighborListProofs --------------------------
(***************************************************************************)
(* Proofs about NeighborList, for every set of ids, every injective        *)
(* conversion of them to numbers, every order of the pass and every size   *)
(* of the neighbour lists.                                                 *)
(***************************************************************************)
EXTENDS NeighborList, ProofLemmas

\* All of the list but its last place is sorted, and the last repeats one.
Sorted(list) ==
  /\ list \in Seq(Ids) /\ Len(list) >= 2
  /\ \A i, j \in 1 .. Len(list) - 1 : i < j => Rank[list[i]] < Rank[list[j]]
  /\ \E i \in 1 .. Len(list) - 1 : list[i] = list[Len(list)]

\* The list holds what the pass has taken, and is sorted.
IInv ==
  /\ value \in [Ids -> 0 .. RingSize - 1] /\ IsInjective(value)
  /\ isSuccessors \in BOOLEAN
  /\ heardOf \in SUBSET Ids /\ remaining \in SUBSET heardOf
  /\ ToSet(newList) = heardOf \ remaining
  /\ newList = <<>> \/ Sorted(newList)

-----------------------------------------------------------------------------
(* The arithmetic of the ring.                                             *)

\* On numbers below the size of the ring, being inside an interval is being
\* met before its end.
LEMMA Interval ==
  ASSUME NEW r \in Nat, NEW v \in 0 .. r - 1, NEW from \in 0 .. r - 1,
         NEW to \in 0 .. r - 1, NEW incl \in BOOLEAN
  PROVE  ElementOfInterval(v, from, to, incl)
           <=> \/ Clockwise(from, v, r) < Clockwise(from, to, r)
               \/ from = to \/ (incl /\ v = to)
  BY DEF ElementOfInterval, Clockwise

LEMMA Values ==
  ASSUME IInv
  PROVE  /\ RingSize \in Nat /\ Local \in Ids
         /\ \A n \in Ids : /\ value[n] \in 0 .. RingSize - 1
                           /\ Rank[n] \in 1 .. RingSize
                           /\ Rank[n] <= Rank[Local]
         /\ \A m, n \in Ids : value[m] = value[n] => m = n
         /\ \A m, n \in Ids : Rank[m] = Rank[n] => m = n
  <1>1. RingSize \in Nat /\ Local \in Ids
    BY NeighborListAssumption
  <1>2. \A n \in Ids : value[n] \in 0 .. RingSize - 1
    BY DEF IInv
  <1>3. \A m, n \in Ids : value[m] = value[n] => m = n
    BY DEF IInv, IsInjective
  <1>4. \A n \in Ids : Rank[n] \in 1 .. RingSize /\ Rank[n] <= Rank[Local]
    BY <1>1, <1>2 DEF Rank, Clockwise
  <1>5. ASSUME NEW m \in Ids, NEW n \in Ids, Rank[m] = Rank[n]
        PROVE  value[m] = value[n]
    BY <1>1, <1>2, <1>5 DEF Rank, Clockwise
  <1> QED BY <1>1, <1>2, <1>3, <1>4, <1>5

\* Before the first place stands the local peer.
LEMMA FitsFirst ==
  ASSUME IInv, NEW x \in Ids, NEW b \in Ids, x # b
  PROVE  LET inside == IF isSuccessors
                       THEN ElementOfInterval(value[x], value[Local], value[b], FALSE)
                       ELSE ElementOfInterval(value[x], value[b], value[Local], FALSE)
         IN  inside <=> Rank[x] < Rank[b]
  <1>1. /\ RingSize \in Nat /\ value[x] \in 0 .. RingSize - 1
        /\ value[b] \in 0 .. RingSize - 1 /\ value[Local] \in 0 .. RingSize - 1
        /\ value[x] # value[b]
    BY Values
  <1>2. Rank[x] = (IF isSuccessors THEN Clockwise(value[Local], value[x], RingSize)
                                   ELSE Clockwise(value[x], value[Local], RingSize))
        /\ Rank[b] = (IF isSuccessors THEN Clockwise(value[Local], value[b], RingSize)
                                      ELSE Clockwise(value[b], value[Local], RingSize))
    BY DEF Rank
  <1> QED BY <1>1, <1>2 DEF ElementOfInterval, Clockwise

\* Between two places in order lie the ranks between theirs; between two out
\* of order, or at one and the same, lies what is farther than the first.
LEMMA FitsBetween ==
  ASSUME IInv, NEW x \in Ids, NEW a \in Ids, NEW b \in Ids, x # a, x # b
  PROVE  LET inside == IF isSuccessors
                       THEN ElementOfInterval(value[x], value[a], value[b], FALSE)
                       ELSE ElementOfInterval(value[x], value[b], value[a], FALSE)
         IN  /\ Rank[a] < Rank[b] => (inside <=> Rank[a] < Rank[x] /\ Rank[x] < Rank[b])
             /\ Rank[b] <= Rank[a] /\ Rank[a] < Rank[x] => inside
  <1>1. /\ RingSize \in Nat /\ value[x] \in 0 .. RingSize - 1
        /\ value[a] \in 0 .. RingSize - 1
        /\ value[b] \in 0 .. RingSize - 1 /\ value[Local] \in 0 .. RingSize - 1
        /\ value[x] # value[b] /\ value[x] # value[a]
    BY Values
  <1>2. \A n \in Ids :
          Rank[n] = (IF isSuccessors THEN Clockwise(value[Local], value[n], RingSize)
                                     ELSE Clockwise(value[n], value[Local], RingSize))
    BY DEF Rank
  <1> QED BY <1>1, <1>2 DEF ElementOfInterval, Clockwise

-----------------------------------------------------------------------------
(* The insertion.                                                          *)

LEMMA ListType ==
  ASSUME NEW list, Sorted(list)
  PROVE  /\ list \in Seq(Ids) /\ Len(list) \in Nat /\ Len(list) >= 2
         /\ DOMAIN list = 1 .. Len(list)
         /\ \A i \in 1 .. Len(list) : list[i] \in Ids /\ list[i] \in ToSet(list)
         /\ ToSet(list) = {list[i] : i \in 1 .. Len(list)}
  BY DEF Sorted, ToSet

\* The first place whose node is farther than x fits.
LEMMA FartherFits ==
  ASSUME IInv, NEW list, Sorted(list), NEW x \in Ids, x \notin ToSet(list),
         NEW j \in 1 .. Len(list) - 1, Rank[x] < Rank[list[j]]
  PROVE  \E m \in DOMAIN list : Fits(list, m, x) /\ m <= j
  <1> DEFINE farther == {i \in 1 .. Len(list) - 1 : Rank[x] < Rank[list[i]]}
  <1>1. farther \in SUBSET Nat /\ j \in farther
    BY ListType
  <1>2. PICK m \in farther : \A i \in farther : m <= i
    <2> HIDE DEF farther
    <2> QED BY <1>1, LeastNatural
  <1>3. m \in 1 .. Len(list) - 1 /\ m \in DOMAIN list /\ Rank[x] < Rank[list[m]]
    BY <1>2, ListType
  <1>4. list[m] \in Ids /\ x # list[m]
    BY <1>3, ListType
  <1>5. Fits(list, m, x)
    <2>1. CASE m = 1
      <3>1. LET inside == IF isSuccessors
                          THEN ElementOfInterval(value[x], value[Local], value[list[m]], FALSE)
                          ELSE ElementOfInterval(value[x], value[list[m]], value[Local], FALSE)
            IN  inside
        BY <1>3, <1>4, FitsFirst
      <3> QED BY <2>1, <3>1 DEF Fits
    <2>2. CASE m # 1
      <3>1. m - 1 \in 1 .. Len(list) - 1 /\ m - 1 < m /\ ~(m <= m - 1)
        BY <1>3, <2>2, ListType
      <3>2. list[m - 1] \in Ids /\ x # list[m - 1] /\ ~(Rank[x] < Rank[list[m - 1]])
        BY <1>2, <3>1, ListType
      <3>3. Rank[list[m - 1]] < Rank[x]
        <4>1. Rank[x] \in Int /\ Rank[list[m - 1]] \in Int /\ Rank[x] # Rank[list[m - 1]]
          BY <3>2, Values
        <4> QED BY <3>2, <4>1
      <3>4. Rank[list[m - 1]] < Rank[list[m]]
        BY <1>3, <3>1 DEF Sorted
      <3>5. LET inside ==
                  IF isSuccessors
                  THEN ElementOfInterval(value[x], value[list[m - 1]], value[list[m]], FALSE)
                  ELSE ElementOfInterval(value[x], value[list[m]], value[list[m - 1]], FALSE)
            IN  inside
        BY <1>3, <1>4, <3>2, <3>3, <3>4, FitsBetween
      <3> QED BY <2>2, <3>5 DEF Fits
    <2> QED BY <2>1, <2>2
  <1> QED BY <1>1, <1>2, <1>3, <1>5

\* The last place fits when no node is farther.
LEMMA LastFits ==
  ASSUME IInv, NEW list, Sorted(list), NEW x \in Ids, x \notin ToSet(list),
         \A j \in 1 .. Len(list) - 1 : ~(Rank[x] < Rank[list[j]])
  PROVE  Fits(list, Len(list), x)
  <1> DEFINE n == Len(list)
  <1>1. n \in Nat /\ n >= 2 /\ n \in 1 .. n /\ n - 1 \in 1 .. n - 1 /\ n - 1 \in 1 .. n /\ n # 1
    BY ListType
  <1>2. PICK k \in 1 .. n - 1 : list[k] = list[n]
    BY DEF Sorted
  <1>3. /\ list[n] \in Ids /\ x # list[n] /\ list[n - 1] \in Ids /\ x # list[n - 1]
        /\ list[k] \in Ids
    BY <1>1, <1>2, ListType
  <1>4. /\ Rank[x] \in Int /\ Rank[list[n - 1]] \in Int /\ Rank[x] # Rank[list[n - 1]]
        /\ Rank[list[k]] \in Int
    BY <1>3, Values
  <1>5. Rank[list[n - 1]] < Rank[x]
    BY <1>1, <1>4
  <1>6. Rank[list[n]] <= Rank[list[n - 1]]
    <2>1. k < n - 1 => Rank[list[k]] < Rank[list[n - 1]]
      BY <1>1 DEF Sorted
    <2>2. k < n - 1 \/ k = n - 1
      BY <1>1
    <2> QED BY <1>2, <1>4, <2>1, <2>2
  <1> QED BY <1>1, <1>3, <1>5, <1>6, FitsBetween DEF Fits

LEMMA InsertInList ==
  ASSUME NEW list \in Seq(Ids), NEW x \in Ids, NEW p \in 1 .. Len(list) + 1
  PROVE  /\ InsertAt(list, p, x) \in Seq(Ids)
         /\ Len(InsertAt(list, p, x)) = Len(list) + 1
         /\ \A j \in 1 .. Len(list) + 1 :
              InsertAt(list, p, x)[j] =
                IF j < p THEN list[j] ELSE IF j = p THEN x ELSE list[j - 1]
  BY InsertAtProperties

\* Inserting at the first place that fits keeps the list sorted.
LEMMA InsertKeeps ==
  ASSUME IInv, NEW list, Sorted(list), NEW x \in Ids, x \notin ToSet(list)
  PROVE  Sorted(Insert(list, x)) /\ ToSet(Insert(list, x)) = ToSet(list) \cup {x}
  <1> DEFINE places == {i \in DOMAIN list : Fits(list, i, x)}
             p == Min(places)
             n == Len(list)
             new == InsertAt(list, p, x)
  <1>1. /\ list \in Seq(Ids) /\ n \in Nat /\ n >= 2 /\ DOMAIN list = 1 .. n
        /\ \A i \in 1 .. n : list[i] \in Ids /\ list[i] # x /\ Rank[list[i]] \in Int
        /\ Rank[x] \in Int /\ \A i \in 1 .. n : Rank[x] # Rank[list[i]]
    BY ListType, Values
  <1>2. \A j \in 1 .. n - 1 : Rank[x] < Rank[list[j]] => \E m \in places : m <= j
    BY FartherFits
  <1>3. places # {}
    BY <1>1, <1>2, LastFits
  <1>4. p \in places /\ \A m \in places : p <= m
    <2>1. places \in SUBSET Nat
      BY <1>1
    <2> HIDE DEF places
    <2> QED BY <1>3, <2>1, MinProperties
  <1>5. Insert(list, x) = new
    BY <1>3 DEF Insert
  <1>6. p \in 1 .. n /\ Fits(list, p, x)
    BY <1>1, <1>4
  <1>7. \A j \in 1 .. n - 1 : j < p => Rank[list[j]] < Rank[x]
    <2> SUFFICES ASSUME NEW j \in 1 .. n - 1, j < p, Rank[x] < Rank[list[j]]
                 PROVE  FALSE
      BY <1>1, SMTT(30)
    <2>1. PICK m \in places : m <= j
      BY <1>2
    <2>2. m \in Int /\ p <= m
      BY <1>1, <1>4, <2>1
    <2> QED BY <1>6, <2>1, <2>2
  <1>8. p < n => Rank[x] < Rank[list[p]]
    <2>1. CASE p = 1
      BY <1>1, <1>6, <2>1, FitsFirst DEF Fits
    <2>2. CASE p # 1 /\ p < n
      <3>1. p - 1 \in 1 .. n - 1 /\ p \in 1 .. n - 1 /\ p - 1 < p /\ p - 1 \in 1 .. n
        BY <1>1, <1>6, <2>2
      <3>2. Rank[list[p - 1]] < Rank[list[p]]
        BY <3>1 DEF Sorted
      <3> HIDE DEF p
      <3> QED BY <1>1, <1>6, <2>2, <3>1, <3>2, FitsBetween DEF Fits
    <2> QED BY <2>1, <2>2
  <1> HIDE DEF places, p, new
  <1>9. /\ new \in Seq(Ids) /\ Len(new) = n + 1
        /\ \A j \in 1 .. n + 1 :
             new[j] = IF j < p THEN list[j] ELSE IF j = p THEN x ELSE list[j - 1]
    <2>1. p \in 1 .. Len(list) + 1 /\ list \in Seq(Ids)
      BY <1>1, <1>6
    <2>2. /\ new \in Seq(Ids) /\ Len(new) = Len(list) + 1
          /\ \A j \in 1 .. Len(list) + 1 :
               new[j] = IF j < p THEN list[j] ELSE IF j = p THEN x ELSE list[j - 1]
      BY <2>1, InsertInList DEF new
    <2> QED BY <2>2
  <1>10. ASSUME NEW i \in 1 .. n, NEW j \in 1 .. n, i < j
         PROVE  Rank[new[i]] < Rank[new[j]]
    <2>1. \A k, l \in 1 .. n - 1 : k < l => Rank[list[k]] < Rank[list[l]]
      BY DEF Sorted
    <2>2. /\ new[i] = IF i < p THEN list[i] ELSE IF i = p THEN x ELSE list[i - 1]
          /\ new[j] = IF j < p THEN list[j] ELSE IF j = p THEN x ELSE list[j - 1]
      BY <1>1, <1>9
    <2>3. CASE j < p
      BY <1>1, <1>6, <1>10, <2>1, <2>2, <2>3
    <2>4. CASE j = p
      BY <1>1, <1>6, <1>7, <1>10, <2>2, <2>4
    <2>5. CASE p < j /\ i < p
      <3>1. /\ i \in 1 .. n - 1 /\ j - 1 \in 1 .. n - 1 /\ i < j - 1
        BY <1>1, <1>6, <1>10, <2>5
      <3> QED BY <1>6, <2>1, <2>2, <2>5, <3>1
    <2>6. CASE p < j /\ i = p
      <3>1. /\ j - 1 \in 1 .. n - 1 /\ p \in 1 .. n - 1 /\ p <= j - 1 /\ p < n
        BY <1>1, <1>6, <1>10, <2>6
      <3>2. Rank[list[p]] <= Rank[list[j - 1]]
        <4>1. p = j - 1 \/ p < j - 1
          BY <3>1
        <4> QED BY <1>1, <2>1, <3>1, <4>1
      <3>3. new[i] = x /\ new[j] = list[j - 1]
        BY <1>6, <2>2, <2>6
      <3>4. Rank[x] \in Int /\ Rank[list[p]] \in Int /\ Rank[list[j - 1]] \in Int
        BY <1>1, <3>1
      <3> QED BY <1>8, <3>1, <3>2, <3>3, <3>4
    <2>7. CASE p < j /\ p < i
      <3>1. /\ i - 1 \in 1 .. n - 1 /\ j - 1 \in 1 .. n - 1 /\ i - 1 < j - 1
        BY <1>1, <1>6, <1>10, <2>7
      <3>2. new[i] = list[i - 1] /\ new[j] = list[j - 1]
        BY <1>6, <2>2, <2>7
      <3> QED BY <2>1, <3>1, <3>2
    <2>8. j < p \/ j = p \/ p < j
      BY <1>6
    <2>9. i < p \/ i = p \/ p < i
      BY <1>6
    <2> QED BY <2>3, <2>4, <2>5, <2>6, <2>7, <2>8, <2>9
  <1>11. \E i \in 1 .. n : new[i] = new[n + 1]
    <2>1. PICK k \in 1 .. n - 1 : list[k] = list[n]
      BY DEF Sorted
    <2>2. new[n + 1] = list[n]
      BY <1>1, <1>6, <1>9
    <2>3. CASE k < p
      BY <1>1, <1>9, <2>1, <2>2, <2>3, SMTT(30)
    <2>4. CASE ~(k < p)
      <3>1. k + 1 \in 1 .. n /\ k + 1 \in 1 .. n + 1 /\ ~(k + 1 < p) /\ k + 1 # p
            /\ (k + 1) - 1 = k
        BY <1>1, <1>6, <2>4
      <3>2. new[k + 1] = list[k]
        BY <1>9, <3>1
      <3> QED BY <2>1, <2>2, <3>1, <3>2
    <2> QED BY <2>3, <2>4
  <1>12. ToSet(new) = ToSet(list) \cup {x}
    <2>1. /\ ToSet(new) = {new[j] : j \in 1 .. n + 1}
          /\ ToSet(list) = {list[j] : j \in 1 .. n}
      BY <1>1, <1>9 DEF ToSet
    <2>2. ASSUME NEW j \in 1 .. n + 1
          PROVE  new[j] \in ToSet(list) \cup {x}
      <3>1. \/ j < p /\ j \in 1 .. n
            \/ j = p
            \/ ~(j < p) /\ j # p /\ j - 1 \in 1 .. n
        BY <1>1, <1>6
      <3>2. new[j] = IF j < p THEN list[j] ELSE IF j = p THEN x ELSE list[j - 1]
        BY <1>9
      <3>3. new[j] = x \/ \E k \in 1 .. n : new[j] = list[k]
        BY <1>6, <3>1, <3>2
      <3> QED BY <2>1, <3>3
    <2>3. ASSUME NEW j \in 1 .. n
          PROVE  list[j] \in ToSet(new)
      <3>1. CASE j < p
        BY <1>1, <1>9, <2>1, <3>1
      <3>2. CASE ~(j < p)
        <4>1. j + 1 \in 1 .. n + 1 /\ ~(j + 1 < p) /\ j + 1 # p /\ (j + 1) - 1 = j
          BY <1>1, <1>6, <3>2
        <4>2. new[j + 1] = list[j]
          BY <1>9, <4>1
        <4> QED BY <2>1, <4>1, <4>2
      <3> QED BY <3>1, <3>2
    <2>4. x \in ToSet(new)
      <3>1. p \in 1 .. n + 1 /\ ~(p < p)
        BY <1>1, <1>6
      <3> QED BY <1>9, <2>1, <3>1
    <2> QED BY <2>1, <2>2, <2>3, <2>4
  <1>13. Sorted(new)
    <2>1. Len(new) - 1 = n /\ Len(new) >= 2 /\ Len(new) = n + 1
      BY <1>1, <1>9
    <2> QED BY <1>9, <1>10, <1>11, <2>1 DEF Sorted
  <1> QED BY <1>5, <1>12, <1>13

\* The first node is inserted before itself or after itself.
LEMMA FirstIsDoubled ==
  ASSUME NEW x \in Ids
  PROVE  Sorted(Insert(<<x>>, x)) /\ ToSet(Insert(<<x>>, x)) = {x}
  <1> DEFINE places == {i \in DOMAIN <<x>> : Fits(<<x>>, i, x)}
             new == Insert(<<x>>, x)
  <1>1. <<x>> \in Seq(Ids) /\ Len(<<x>>) = 1 /\ DOMAIN <<x>> = {1} /\ <<x>>[1] = x
    OBVIOUS
  <1>2. new = Append(<<x>>, x) \/ new = InsertAt(<<x>>, 1, x)
    <2>1. CASE places = {}
      BY <2>1 DEF Insert
    <2>2. CASE places # {}
      <3>1. places \in SUBSET Nat /\ places \in SUBSET {1}
        BY <1>1
      <3>2. Min(places) = 1
        <4> HIDE DEF places
        <4> QED BY <2>2, <3>1, MinProperties
      <3> QED BY <2>2, <3>2 DEF Insert
    <2> QED BY <2>1, <2>2
  <1> HIDE DEF new
  <1>3. /\ new \in Seq(Ids) /\ Len(new) = 2 /\ new[1] = x /\ new[2] = x
    <2>1. CASE new = Append(<<x>>, x)
      BY <2>1
    <2>2. CASE new = InsertAt(<<x>>, 1, x)
      <3> DEFINE one == <<x>>
                 p == 1
      <3>1. one \in Seq(Ids) /\ Len(one) = 1 /\ one[1] = x /\ p \in 1 .. Len(one) + 1 /\ p = 1
        OBVIOUS
      <3>2. new = InsertAt(one, p, x)
        BY <2>2
      <3> HIDE DEF one, p
      <3>3. /\ new \in Seq(Ids) /\ Len(new) = Len(one) + 1
            /\ \A j \in 1 .. Len(one) + 1 :
                 new[j] = IF j < p THEN one[j] ELSE IF j = p THEN x ELSE one[j - 1]
        <4>1. /\ InsertAt(one, p, x) \in Seq(Ids)
              /\ Len(InsertAt(one, p, x)) = Len(one) + 1
              /\ \A j \in 1 .. Len(one) + 1 :
                   InsertAt(one, p, x)[j] =
                     IF j < p THEN one[j] ELSE IF j = p THEN x ELSE one[j - 1]
          <5>1. one \in Seq(Ids) /\ p \in 1 .. Len(one) + 1
            BY <3>1
          <5> QED BY <5>1, InsertInList
        <4> QED BY <3>2, <4>1
      <3>4. new[1] = x /\ new[2] = one[1] /\ Len(new) = 2
        BY <3>1, <3>3
      <3> QED BY <3>1, <3>3, <3>4
    <2> QED BY <1>2, <2>1, <2>2
  <1>4. DOMAIN new = 1 .. 2 /\ 1 .. Len(new) - 1 = {1}
    BY <1>3
  <1>5. ToSet(new) = {x}
    BY <1>3, <1>4 DEF ToSet
  <1>6. Sorted(new)
    BY <1>3, <1>4 DEF Sorted
  <1> QED BY <1>5, <1>6 DEF new

LEMMA TakeNodeKeeps ==
  ASSUME IInv, NEW node \in Ids, TakeNode(node)
  PROVE  IInv'
  <1>1. /\ node \in remaining /\ remaining' = remaining \ {node}
        /\ UNCHANGED <<value, isSuccessors, heardOf>>
        /\ newList' = Insert(IF newList = <<>> THEN <<node>> ELSE newList, node)
    BY DEF TakeNode
  <1>2. node \notin ToSet(newList) /\ node \in heardOf
    BY <1>1 DEF IInv
  <1>3. Sorted(newList') /\ ToSet(newList') = ToSet(newList) \cup {node}
    <2>1. CASE newList = <<>>
      <3>1. ToSet(newList) = {}
        BY <2>1 DEF ToSet
      <3> QED BY <1>1, <2>1, <3>1, FirstIsDoubled
    <2>2. CASE newList # <<>>
      <3>1. Sorted(newList)
        BY <2>2 DEF IInv
      <3> QED BY <1>1, <1>2, <2>2, <3>1, InsertKeeps
    <2> QED BY <2>1, <2>2
  <1>4. ToSet(newList') = heardOf' \ remaining'
    BY <1>1, <1>2, <1>3 DEF IInv
  <1>5. Rank' = Rank
    BY <1>1 DEF Rank
  <1>6. newList' = <<>> \/ Sorted(newList)'
    BY <1>3, <1>5 DEF Sorted
  <1> QED BY <1>1, <1>4, <1>6 DEF IInv, ToSet

(* At every moment of the pass the list holds the nodes taken, sorted away  *)
(* from the local peer, with a repeated one at its end.                     *)
THEOREM Invariance == Spec => []IInv
  <1>1. Init => IInv
    BY DEF Init, IInv, ToSet
  <1>2. IInv /\ [Next]_vars => IInv'
    <2>1. ASSUME IInv, Next PROVE IInv'
      BY <2>1, TakeNodeKeeps DEF Next
    <2>2. ASSUME IInv, UNCHANGED vars PROVE IInv'
      <3>1. Rank' = Rank
        BY <2>2 DEF vars, Rank
      <3> QED BY <2>2, <3>1 DEF vars, IInv, Sorted, ToSet, IsInjective
    <2> QED BY <2>1, <2>2
  <1> QED BY <1>1, <1>2, PTL DEF Spec

(* ElementOfInterval is the walk clockwise, for any ids and any ring.       *)
THEOREM IntervalsAreArcs == Spec => []IntervalIsClockwise
  <1>1. IInv => IntervalIsClockwise
    <2> SUFFICES ASSUME IInv, NEW n \in remaining,
                        NEW from \in {Local} \cup ToSet(newList),
                        NEW to \in {Local} \cup ToSet(newList), NEW incl \in BOOLEAN
                 PROVE  ElementOfInterval(value[n], value[from], value[to], incl)
                          <=> \/ Clockwise(value[from], value[n], RingSize)
                                   < Clockwise(value[from], value[to], RingSize)
                              \/ from = to \/ (incl /\ n = to)
      BY DEF IntervalIsClockwise
    <2>1. n \in Ids /\ from \in Ids /\ to \in Ids
      BY Values DEF IInv
    <2>2. /\ RingSize \in Nat /\ value[n] \in 0 .. RingSize - 1
          /\ value[from] \in 0 .. RingSize - 1 /\ value[to] \in 0 .. RingSize - 1
          /\ (value[n] = value[to] <=> n = to) /\ (value[from] = value[to] <=> from = to)
      BY <2>1, Values
    <2> QED BY <2>2, Interval
  <1> QED BY <1>1, Invariance, PTL

(* The insertion loop finds the list sorted in each of its rounds.          *)
THEOREM ListIsSorted == Spec => []SortedWithSentinel
  <1>1. IInv => SortedWithSentinel
    BY DEF IInv, SortedWithSentinel, Sorted
  <1> QED BY <1>1, Invariance, PTL

\* In a sorted list, place i has i - 1 nodes before it.
LEMMA PlacesAreRanks ==
  ASSUME IInv, Sorted(newList), remaining = {}, NEW i \in 1 .. Len(newList) - 1
  PROVE  Cardinality({y \in heardOf : Rank[y] < Rank[newList[i]]}) = i - 1
  <1> DEFINE n == Len(newList)
             nearer == {newList[j] : j \in 1 .. i - 1}
  <1>1. /\ n \in Nat /\ n >= 2
        /\ \A j \in 1 .. n : newList[j] \in Ids /\ Rank[newList[j]] \in Int
        /\ heardOf = {newList[j] : j \in 1 .. n}
    BY ListType, Values, SMTT(30) DEF IInv
  <1>2. \A j, k \in 1 .. n - 1 : j < k => Rank[newList[j]] < Rank[newList[k]]
    BY DEF Sorted
  <1>3. \A j, k \in 1 .. i - 1 : newList[j] = newList[k] => j = k
    <2> SUFFICES ASSUME NEW j \in 1 .. i - 1, NEW k \in 1 .. i - 1,
                        newList[j] = newList[k], j # k
                 PROVE  FALSE
      OBVIOUS
    <2>1. j \in 1 .. n - 1 /\ k \in 1 .. n - 1 /\ (j < k \/ k < j)
      BY <1>1
    <2> QED BY <1>1, <1>2, <2>1
  <1>4. i - 1 \in Nat
    BY <1>1
  <1>5. Cardinality(nearer) = i - 1
    <2> DEFINE m == i - 1
    <2>1. /\ m \in Nat /\ \A j, k \in 1 .. m : newList[j] = newList[k] => j = k
          /\ \A j \in 1 .. m : newList[j] \in nearer
          /\ \A x \in nearer : \E j \in 1 .. m : newList[j] = x
      BY <1>3, <1>4
    <2> HIDE DEF m, nearer
    <2> QED BY <2>1, DistinctCount DEF m
  <1>6. {y \in heardOf : Rank[y] < Rank[newList[i]]} = nearer
    <2>1. ASSUME NEW y \in heardOf, Rank[y] < Rank[newList[i]]
          PROVE  y \in nearer
      <3>1. PICK j \in 1 .. n - 1 : y = newList[j]
        <4>1. PICK k \in 1 .. n : y = newList[k]
          BY <1>1
        <4>2. PICK l \in 1 .. n - 1 : newList[l] = newList[n]
          BY DEF Sorted
        <4>3. k \in 1 .. n - 1 \/ k = n
          BY <1>1
        <4> QED BY <4>1, <4>2, <4>3
      <3>2. j < i
        <4> SUFFICES ASSUME ~(j < i) PROVE FALSE
          OBVIOUS
        <4>1. j = i \/ i < j
          BY <1>1
        <4>2. i \in 1 .. n /\ j \in 1 .. n
          BY <1>1
        <4>3. Rank[newList[i]] <= Rank[newList[j]]
          BY <1>1, <1>2, <4>1, <4>2
        <4> QED BY <1>1, <2>1, <3>1, <4>2, <4>3
      <3> QED BY <1>1, <3>1, <3>2
    <2>2. ASSUME NEW j \in 1 .. i - 1
          PROVE  newList[j] \in heardOf /\ Rank[newList[j]] < Rank[newList[i]]
      <3>1. j \in 1 .. n - 1 /\ j \in 1 .. n /\ j < i
        BY <1>1
      <3> QED BY <1>1, <1>2, <3>1
    <2> QED BY <2>1, <2>2
  <1> QED BY <1>5, <1>6

(* Whatever the ids, the order in which they were heard of and the size of  *)
(* the lists, the neighbours are the nearest nodes.                         *)
THEOREM NeighborsAreTheNearest == Spec => []NeighborsAreNearest
  <1>1. IInv => NeighborsAreNearest
    <2> SUFFICES ASSUME IInv, remaining = {}
                 PROVE  Neighbors = Nearest(heardOf, Rank, CACHE_SIZE)
      BY DEF NeighborsAreNearest, Done
    <2>1. ToSet(newList) = heardOf /\ CACHE_SIZE \in Nat /\ CACHE_SIZE >= 1
      BY NeighborListAssumption DEF IInv
    <2>2. CASE newList = <<>>
      <3>1. heardOf = {}
        BY <2>1, <2>2 DEF ToSet
      <3>2. Nearest(heardOf, Rank, CACHE_SIZE) = {}
        BY <3>1 DEF Nearest
      <3>3. Len(newList) = 0
        BY <2>2
      <3>4. Min({0, CACHE_SIZE}) = 0
        <4>1. {0, CACHE_SIZE} \in SUBSET Nat /\ {0, CACHE_SIZE} # {}
          BY <2>1
        <4>2. Min({0, CACHE_SIZE}) \in {0, CACHE_SIZE} /\ Min({0, CACHE_SIZE}) <= 0
          BY <4>1, MinProperties
        <4> QED BY <2>1, <4>2
      <3>5. Neighbors = ToSet(SubSeq(newList, 1, 0))
        BY <3>3, <3>4 DEF Neighbors
      <3>6. SubSeq(newList, 1, 0) = <<>>
        BY <2>2
      <3> QED BY <3>2, <3>5, <3>6 DEF ToSet
    <2>3. CASE newList # <<>>
      <3> DEFINE n == Len(newList)
                 m == Min({n, CACHE_SIZE})
      <3>1. Sorted(newList)
        BY <2>3 DEF IInv
      <3>2. n \in Nat /\ n >= 2 /\ newList \in Seq(Ids)
        BY <3>1, ListType
      <3>3. m \in {n, CACHE_SIZE} /\ m <= n /\ m <= CACHE_SIZE
        <4>1. {n, CACHE_SIZE} \in SUBSET Nat /\ {n, CACHE_SIZE} # {}
          BY <2>1, <3>2
        <4> QED BY <4>1, MinProperties
      <3> HIDE DEF m
      <3>4. Neighbors = {newList[i] : i \in 1 .. m}
        <4>1. m \in 1 .. n
          BY <2>1, <3>2, <3>3
        <4> DEFINE cut == SubSeq(newList, 1, m)
        <4>2. Len(cut) = m /\ cut \in Seq(Ids) /\ \A i \in 1 .. m : cut[i] = newList[i]
          BY <3>2, <4>1
        <4> HIDE DEF cut
        <4>3. DOMAIN cut = 1 .. m
          BY <4>2
        <4>4. ToSet(cut) = {newList[i] : i \in 1 .. m}
          BY <4>2, <4>3 DEF ToSet
        <4> QED BY <4>4 DEF Neighbors, m, cut
      <3>5. ASSUME NEW i \in 1 .. n - 1
            PROVE  newList[i] \in Nearest(heardOf, Rank, CACHE_SIZE) <=> i <= m
        <4>1. newList[i] \in heardOf
          <5>1. i \in 1 .. n
            BY <3>2
          <5> QED BY <2>1, <3>1, <5>1, ListType
        <4>2. Cardinality({y \in heardOf : Rank[y] < Rank[newList[i]]}) = i - 1
          BY <3>1, PlacesAreRanks
        <4>3. i - 1 < CACHE_SIZE <=> i <= m
          BY <2>1, <3>2, <3>3
        <4> QED BY <4>1, <4>2, <4>3 DEF Nearest
      <3>6. \A x \in heardOf : \E i \in 1 .. n - 1 : x = newList[i]
        <4>1. heardOf = {newList[i] : i \in 1 .. n}
          BY <2>1, <3>1, ListType
        <4>2. PICK k \in 1 .. n - 1 : newList[k] = newList[n]
          BY <3>1 DEF Sorted
        <4>3. \A i \in 1 .. n : i \in 1 .. n - 1 \/ i = n
          BY <3>2
        <4> QED BY <4>1, <4>2, <4>3
      \* The last place is returned only with all the others.
      <3>7. \A i \in 1 .. m : \E k \in 1 .. n - 1 : k <= m /\ newList[i] = newList[k]
        <4> TAKE i \in 1 .. m
        <4>1. CASE i <= n - 1
          BY <2>1, <3>2, <3>3, <4>1
        <4>2. CASE ~(i <= n - 1)
          <5>1. i = n /\ m = n
            BY <2>1, <3>2, <3>3, <4>2
          <5>2. PICK k \in 1 .. n - 1 : newList[k] = newList[n]
            BY <3>1 DEF Sorted
          <5>3. k <= m
            BY <3>2, <5>1
          <5> QED BY <5>1, <5>2, <5>3
        <4> QED BY <4>1, <4>2
      <3>8. Nearest(heardOf, Rank, CACHE_SIZE) \subseteq heardOf
        BY DEF Nearest
      <3>9. ASSUME NEW x \in Nearest(heardOf, Rank, CACHE_SIZE)
            PROVE  x \in Neighbors
        <4>1. PICK i \in 1 .. n - 1 : x = newList[i]
          BY <3>6, <3>8
        <4>2. i \in 1 .. m
          BY <2>1, <3>2, <3>3, <3>5, <4>1
        <4> QED BY <3>4, <4>1, <4>2
      <3>10. ASSUME NEW x \in Neighbors
             PROVE  x \in Nearest(heardOf, Rank, CACHE_SIZE)
        <4>1. PICK k \in 1 .. n - 1 : k <= m /\ x = newList[k]
          BY <3>4, <3>7
        <4> QED BY <3>5, <4>1
      <3> QED BY <3>9, <3>10
    <2> QED BY <2>2, <2>3
  <1> QED BY <1>1, Invariance, PTL
=============================================================================
