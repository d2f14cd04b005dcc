---------------------------- MODULE JourneyProofs ----------------------------
(***************************************************************************)
(* Proofs about Journey, for any members and joiners, any connected graph  *)
(* and tables, any ttl, and any number of lost connections.                *)
(***************************************************************************)
EXTENDS Journey, ProofLemmas

\* A connection is of a member with another or with the joiner.
LinksAreOfMembers ==
  \A l \in links : \E p \in Members, q \in Members \cup {joiner} : p # q /\ l = {p, q}

\* A member has met exactly those it is connected to, and met each once.
TablesFollowLinks ==
  /\ \A p \in Members : Range(rtable[p]) = Linked(p) \cap Members /\ IsInjective(rtable[p])
  /\ \A p \in Joiners : rtable[p] = <<>>

\* What a request asks for.
Target == IF origin = joiner THEN {Increment[joiner]} ELSE Members

\* A request has paid one of its ttl for each peer that forwarded it.  Only
\* the first of the via list may be the joiner.
RequestOnItsWay ==
  message # NoMessage /\ message.kind = "request" =>
    /\ origin \in Members \cup {joiner} /\ message.at \in Members
    /\ message.via # <<>> /\ message.via[1] = origin
    /\ \A i \in 2 .. Len(message.via) : message.via[i] \in Members
    /\ message.ttl + Len(message.via) = InitialTtl + 1
    /\ \/ \E n \in Target : message.dest = <<Resource(n)>>
       \/ /\ origin = joiner /\ Len(message.via) = 1 /\ message.status # "taken"
          /\ message.dest = <<Node(message.at), Resource(Increment[joiner])>>

\* The via list of a request is a way back, while no connection is lost.
WayBack ==
  losses = 0 /\ message # NoMessage /\ message.kind = "request" =>
    /\ \A i \in 1 .. Len(message.via) - 1 : {message.via[i], message.via[i + 1]} \in links
    /\ {message.via[Len(message.via)], message.at} \in links

\* What the first relay of a joining request has found of itself.
RelayIsNotResponsible ==
  losses = 0 /\ message # NoMessage /\ message.kind = "request"
    /\ origin = joiner /\ Len(message.via) >= 2
    => ~Responsible(message.via[2], Increment[joiner])

MessageHasDest == message # NoMessage => message.dest # <<>>

IInv ==
  /\ TypeOK /\ LinksAreOfMembers /\ TablesFollowLinks
  /\ MessageHasDest /\ RequestOnItsWay /\ WayBack /\ RelayIsNotResponsible

\* An answer has as much ttl as peers before it, the last is who asked, and
\* the one before that will not take it for its own.
Returning(at, dest, ttl) ==
  /\ \A i \in DOMAIN dest : dest[i].type = "node"
  /\ dest[1].id = at /\ dest[Len(dest)].id = origin
  /\ \A i \in 1 .. Len(dest) - 1 : {dest[i].id, dest[i + 1].id} \in links
  /\ ttl >= Len(dest)
  /\ Len(dest) >= 2 => ~Responsible(dest[Len(dest) - 1].id, origin)

AnswerOnItsWay ==
  losses = 0 /\ message # NoMessage /\ message.kind = "answer" =>
    /\ message.status = "taken" => message.at = origin
    /\ message.status = "travelling" => Returning(message.at, message.dest, message.ttl)

\* A joining request in a full mesh takes one step to the next member.
JoiningOnItsWay ==
  /\ message # NoMessage /\ message.kind = "request" /\ origin = joiner
  /\ message.status # "dropped" /\ Meshed
  => \A id \in {Increment[joiner]} : NextMember(id) \in NearestMembers(id) =>
       \/ Len(message.via) = 1 /\ message.status = "travelling"
       \/ Len(message.via) <= 2 /\ message.at = NextMember(id)

-----------------------------------------------------------------------------
(* What the operators return.                                              *)

LEMMA Constants ==
  /\ Members \subseteq Peers /\ Joiners \subseteq Peers
  /\ \A j \in Joiners : j \notin Members /\ Increment[j] \in DOMAIN Value /\ Increment[j] # j
  /\ Peers \subseteq DOMAIN Value /\ \A n \in DOMAIN Value : Value[n] \in 1 .. RingSize - 1
  /\ RingSize \in Nat /\ InitialTtl \in Nat \ {0} /\ MaxLosses \in Nat /\ CACHE_SIZE \in Nat \ {0}
  BY JourneyAssumption, DistinctValues DEF JourneyAssumption, DistinctValues, Peers

\* Stripped leaves what follows the ids of p at the front, and never nothing.
LEMMA StrippedProperties ==
  ASSUME NEW T, NEW p, NEW dest \in Seq(T), dest # <<>>
  PROVE  \E i \in 1 .. Len(dest) :
           /\ dest[i] # Node(p) \/ i = Len(dest)
           /\ \A j \in 1 .. i - 1 : dest[j] = Node(p) /\ j # Len(dest)
           /\ Stripped(p, dest) \in Seq(T) /\ Stripped(p, dest) # <<>>
           /\ Len(Stripped(p, dest)) = Len(dest) - i + 1
           /\ \A k \in 1 .. Len(dest) - i + 1 : Stripped(p, dest)[k] = dest[i + k - 1]
  <1> DEFINE Ends(i) == dest[i] # Node(p) \/ i = Len(dest)
             S == {i \in DOMAIN dest : Ends(i)}
             First(i) == Ends(i) /\ \A j \in 1 .. i - 1 : ~Ends(j)
             i0 == CHOOSE i \in DOMAIN dest : First(i)
  <1>1. DOMAIN dest = 1 .. Len(dest) /\ Len(dest) \in Nat /\ Len(dest) >= 1
    OBVIOUS
  <1>2. \E i \in DOMAIN dest : First(i)
    <2>1. Len(dest) \in S /\ S \in SUBSET Nat
      BY <1>1
    <2> HIDE DEF S
    <2>2. PICK i \in S : \A j \in S : i <= j
      BY <2>1, LeastNatural
    <2>3. i \in DOMAIN dest /\ Ends(i)
      BY DEF S
    <2>4. ASSUME NEW j \in 1 .. i - 1 PROVE ~Ends(j)
      <3>1. j \in DOMAIN dest /\ ~(i <= j)
        BY <1>1, <2>3
      <3> HIDE DEF Ends
      <3> QED BY <2>2, <3>1 DEF S
    <2> QED BY <2>3, <2>4
  <1>3. i0 \in DOMAIN dest /\ First(i0)
    BY <1>2
  <1>4. Stripped(p, dest) = SubSeq(dest, i0, Len(dest))
    BY DEF Stripped
  <1>5. dest[i0] # Node(p) \/ i0 = Len(dest)
    BY <1>3
  <1>9. i0 \in 1 .. Len(dest)
    BY <1>1, <1>3
  <1>6. \A j \in 1 .. i0 - 1 : dest[j] = Node(p) /\ j # Len(dest)
    BY <1>3
  <1> HIDE DEF i0, First, Ends, S
  <1>7. /\ SubSeq(dest, i0, Len(dest)) \in Seq(T)
        /\ Len(SubSeq(dest, i0, Len(dest))) = Len(dest) - i0 + 1
        /\ \A k \in 1 .. Len(dest) - i0 + 1 : SubSeq(dest, i0, Len(dest))[k] = dest[i0 + k - 1]
    <2>1. i0 \in Int /\ Len(dest) \in Int /\ i0 <= Len(dest)
      BY <1>1, <1>9
    <2>2. \A i \in i0 .. Len(dest) : dest[i] \in T
      BY <1>1, <1>9
    <2> QED BY <2>1, <2>2, SubSeqProperties
  <1>8. Stripped(p, dest) # <<>>
    <2>1. Stripped(p, dest) \in Seq(T)
      BY <1>4, <1>7
    <2>2. Len(Stripped(p, dest)) # 0
      BY <1>1, <1>4, <1>7, <1>9
    <2> QED BY <2>1, <2>2
  <1> QED BY <1>4, <1>5, <1>6, <1>7, <1>8, <1>9

\* The walk ends at an entry of the table, unless there is none.
LEMMA ClosestIsMet ==
  ASSUME NEW p, rtable[p] \in Seq(Members)
  PROVE  /\ rtable[p] = <<>> => ClosestPrecedingNode(p) = p
         /\ rtable[p] # <<>> => ClosestPrecedingNode(p) \in Range(rtable[p])
  <1> DEFINE t == rtable[p]
             Visit(best, n) ==
               LET dist == GetDistance(Value[n], best.value)
               IN  IF dist < best.distance THEN [id |-> n, value |-> Value[n], distance |-> dist]
                   ELSE best
             start == [id |-> p, value |-> 0, distance |-> RingSize]
             IsWalk(f, m) == f = [k \in 0 .. m |-> IF k = 0 THEN start ELSE Visit(f[k - 1], t[k])]
             Good(f, m) == f[0] = start /\ \A k \in 1 .. m : f[k].id \in Range(t)
             S == {m \in Nat : m <= Len(t) => \E f : IsWalk(f, m) /\ Good(f, m)}
  <1>0. Len(t) \in Nat /\ DOMAIN t = 1 .. Len(t) /\ \A k \in 1 .. Len(t) : t[k] \in Members
    OBVIOUS
  <1>a. \A n \in Members : Visit(start, n).id = n
    <2> SUFFICES ASSUME NEW n \in Members PROVE Visit(start, n).id = n
      OBVIOUS
    <2>1. Value[n] \in 1 .. RingSize - 1 /\ RingSize \in Nat
      BY Constants
    <2>2. GetDistance(Value[n], 0) < RingSize
      BY <2>1 DEF GetDistance
    <2> QED BY <2>2
  <1>b. \A best, n : Visit(best, n).id = n \/ Visit(best, n) = best
    OBVIOUS
  <1>c. \A k \in 1 .. Len(t) : t[k] \in Range(t)
    BY <1>0 DEF Range
  <1> HIDE DEF Visit, start
  <1>1. 0 \in S
    <2> DEFINE f == [k \in 0 .. 0 |-> start]
    <2>1. IsWalk(f, 0) /\ Good(f, 0)
      OBVIOUS
    <2> HIDE DEF IsWalk, Good, f
    <2> QED BY <2>1
  <1>2. ASSUME NEW n \in Nat, n \in S PROVE n + 1 \in S
    <2> SUFFICES ASSUME n + 1 <= Len(t)
                 PROVE  \E g : IsWalk(g, n + 1) /\ Good(g, n + 1)
      <3> HIDE DEF IsWalk, Good, t
      <3> QED BY SMTT(30)
    <2>1. PICK f : IsWalk(f, n) /\ Good(f, n)
      <3> HIDE DEF IsWalk, Good
      <3> QED BY <1>0, <1>2
    <2> DEFINE last == Visit(f[n], t[n + 1])
               g == [k \in 0 .. n + 1 |-> IF k = n + 1 THEN last ELSE f[k]]
    <2>2. \A k \in 0 .. n : g[k] = f[k]
      OBVIOUS
    <2>3. g[n + 1] = last
      OBVIOUS
    <2>4. ASSUME NEW k \in 0 .. n + 1
          PROVE  g[k] = (IF k = 0 THEN start ELSE Visit(g[k - 1], t[k]))
      <3>1. CASE k = n + 1
        <4>1. k # 0 /\ k - 1 = n /\ n \in 0 .. n
          BY <3>1
        <4> HIDE DEF g
        <4> QED BY <2>2, <2>3, <3>1, <4>1
      <3>2. CASE k # n + 1
        <4>1. k \in 0 .. n /\ (k # 0 => k - 1 \in 0 .. n)
          BY <3>2
        <4>2. f[k] = IF k = 0 THEN start ELSE Visit(f[k - 1], t[k])
          BY <2>1, <4>1
        <4> HIDE DEF g
        <4> QED BY <2>1, <2>2, <4>1, <4>2
      <3> QED BY <3>1, <3>2
    <2>5. g = [k \in 0 .. n + 1 |-> g[k]]
      OBVIOUS
    <2>6. last.id \in Range(t)
      <3>1. t[n + 1] \in Range(t) /\ t[n + 1] \in Members
        BY <1>0, <1>c
      <3>2. CASE n = 0
        BY <1>a, <2>1, <3>1, <3>2
      <3>3. CASE n # 0
        <4>1. f[n].id \in Range(t)
          BY <2>1, <3>3
        <4> QED BY <1>b, <3>1, <4>1
      <3> QED BY <3>2, <3>3
    <2> HIDE DEF g, last
    <2>7. IsWalk(g, n + 1)
      BY <2>4, <2>5
    <2>8. Good(g, n + 1)
      <3>1. g[0] = start
        BY <2>1, <2>2
      <3>2. \A k \in 1 .. n + 1 : k \in 1 .. n \/ k = n + 1
        OBVIOUS
      <3>3. \A k \in 1 .. n : g[k] = f[k]
        BY <2>2
      <3>4. \A k \in 1 .. n : g[k].id \in Range(t)
        BY <2>1, <3>3
      <3>5. g[n + 1].id \in Range(t)
        BY <2>3, <2>6
      <3> HIDE DEF t, start
      <3> QED BY <3>1, <3>2, <3>4, <3>5
    <2> HIDE DEF IsWalk, Good
    <2> QED BY <2>7, <2>8
  <1>3. Len(t) \in S
    <2> HIDE DEF S, t
    <2> QED BY <1>0, <1>1, <1>2, AllNaturals
  <1>4. PICK f : IsWalk(f, Len(t)) /\ Good(f, Len(t))
    <2> HIDE DEF IsWalk, Good
    <2> QED BY <1>0, <1>3
  <1> DEFINE walk == CHOOSE w : IsWalk(w, Len(t))
  <1>5. ClosestPrecedingNode(p) = walk[Len(t)].id
    BY DEF ClosestPrecedingNode, Visit, start
  <1>6. IsWalk(walk, Len(t))
    <2> HIDE DEF IsWalk
    <2> QED BY <1>4
  <1> HIDE DEF walk
  <1>7. walk[0] = start
    <2> HIDE DEF t
    <2> QED BY <1>0, <1>6
  <1>8. \A k \in 1 .. Len(t) : walk[k] = Visit(walk[k - 1], t[k])
    <2> HIDE DEF t
    <2> QED BY <1>0, <1>6
  <1> HIDE DEF walk, IsWalk
  <1>9. CASE t = <<>>
    BY <1>5, <1>7, <1>9 DEF start
  <1>10. CASE t # <<>>
    <2> DEFINE R == {k \in Nat : k + 1 <= Len(t) => walk[k + 1].id \in Range(t)}
    <2>1. 0 \in R
      BY <1>0, <1>7, <1>8, <1>a, <1>c
    <2>2. ASSUME NEW n \in Nat, n \in R PROVE n + 1 \in R
      <3> SUFFICES ASSUME n + 2 <= Len(t) PROVE walk[n + 2].id \in Range(t)
        OBVIOUS
      <3>1. walk[n + 2] = Visit(walk[n + 1], t[n + 2]) /\ t[n + 2] \in Range(t)
        BY <1>0, <1>8, <1>c
      <3>2. walk[n + 1].id \in Range(t)
        BY <1>0, <2>2
      <3> QED BY <1>b, <3>1, <3>2
    <2>3. Len(t) - 1 \in Nat
      BY <1>10, <1>0
    <2>4. Len(t) - 1 \in R
      <3> HIDE DEF R
      <3> QED BY <2>1, <2>2, <2>3, AllNaturals
    <2> QED BY <1>0, <1>5, <1>10, <2>3, <2>4
  <1> QED BY <1>9, <1>10

LEMMA AheadIsNat ==
  ASSUME NEW p \in Peers, NEW n \in Members
  PROVE  Ahead(p)[n] \in Nat \ {0} /\ Ahead(p)[n] = Clockwise(Value[p], Value[n], RingSize)
  <1>1. Value[p] \in 1 .. RingSize - 1 /\ Value[n] \in 1 .. RingSize - 1 /\ RingSize \in Nat
    BY Constants
  <1> QED BY <1>1 DEF Ahead, Clockwise

\* A peer hands a message to a peer it is linked to, if it has a table.
LEMMA NextHopIsLinked ==
  ASSUME NEW p \in Peers, NEW id, rtable[p] \in Seq(Members), Range(rtable[p]) \subseteq Linked(p)
  PROVE  /\ NextHop(p, id) \in {id, p} \cup Members /\ NextHop(p, id) \in Peers
         /\ rtable[p] # <<>> => NextHop(p, id) \in Linked(p)
         /\ NextHop(p, id) = id \/ NextHop(p, id) = p \/ NextHop(p, id) \in Range(rtable[p])
  <1> DEFINE B == Beyond(p, id)
             Least(n) == \A m \in B : Ahead(p)[n] <= Ahead(p)[m]
             best == CHOOSE n \in B : Least(n)
  <1>1. Range(rtable[p]) \subseteq Members
    BY RangeOfSeq
  <1>2. B \subseteq Range(rtable[p])
    BY DEF Beyond, Successors, Nearest
  <1>3. Linked(p) \subseteq Peers
    BY DEF Linked
  <1>4. CASE id \in Linked(p)
    <2>1. NextHop(p, id) = id
      BY <1>4 DEF NextHop
    <2> QED BY <1>3, <1>4, <2>1
  <1>5. CASE id \notin Linked(p) /\ B # {}
    <2>1. NextHop(p, id) = best
      BY <1>5 DEF NextHop
    <2>2. \E n \in B : Least(n)
      <3> DEFINE A == {Ahead(p)[n] : n \in B}
      <3>1. \A n \in B : Ahead(p)[n] \in Nat
        BY <1>1, <1>2, AheadIsNat
      <3>2. A \in SUBSET Nat /\ A # {}
        BY <1>5, <3>1
      <3> HIDE DEF A
      <3>3. PICK x \in A : \A y \in A : x <= y
        BY <3>2, LeastNatural
      <3>4. PICK n \in B : x = Ahead(p)[n]
        BY DEF A
      <3>5. \A m \in B : Ahead(p)[m] \in A
        BY DEF A
      <3> HIDE DEF B
      <3>6. Least(n)
        BY <3>3, <3>4, <3>5
      <3> HIDE DEF Least
      <3> QED BY <3>6
    <2>3. best \in B
      <3> HIDE DEF B, Least
      <3> QED BY <2>2
    <2>4. best \in Range(rtable[p])
      <3> HIDE DEF B, best
      <3> QED BY <1>2, <2>3
    <2> HIDE DEF best
    <2>5. rtable[p] # <<>>
      <3>1. Range(<<>>) = {}
        BY DEF Range
      <3> QED BY <2>4, <3>1
    <2> QED BY <1>1, <1>3, <2>1, <2>4, <2>5
  <1>6. CASE id \notin Linked(p) /\ B = {}
    <2>1. NextHop(p, id) = ClosestPrecedingNode(p)
      BY <1>6 DEF NextHop
    <2>2. CASE rtable[p] = <<>>
      BY <2>1, <2>2, ClosestIsMet
    <2>3. CASE rtable[p] # <<>>
      <3>1. ClosestPrecedingNode(p) \in Range(rtable[p])
        BY <2>3, ClosestIsMet
      <3> QED BY <1>1, <1>3, <2>1, <3>1
    <2> QED BY <2>2, <2>3
  <1> QED BY <1>4, <1>5, <1>6

\* Who is not responsible knows someone.
LEMMA ResponsibleAlone ==
  ASSUME NEW p, NEW id, ~Responsible(p, id)
  PROVE  rtable[p] # <<>>
  BY DEF Responsible, Range

\* A table without n holds the rest once, as it did.
LEMMA WithoutProperties ==
  ASSUME NEW T, NEW table \in Seq(T), NEW n, IsInjective(table)
  PROVE  /\ Without(table, n) \in Seq(T) /\ IsInjective(Without(table, n))
         /\ Range(Without(table, n)) = Range(table) \ {n}
  <1>1. CASE n \notin Range(table)
    BY <1>1 DEF Without
  <1>2. CASE n \in Range(table)
    <2> DEFINE k == CHOOSE i \in DOMAIN table : table[i] = n
               w == RemoveAt(table, k)
    <2>0. DOMAIN table = 1 .. Len(table) /\ Len(table) \in Nat
      OBVIOUS
    <2>1. k \in 1 .. Len(table) /\ table[k] = n
      BY <1>2, <2>0 DEF Range
    <2>2. Without(table, n) = w
      BY <1>2 DEF Without
    <2> HIDE DEF k
    <2>3. /\ w \in Seq(T) /\ Len(w) = Len(table) - 1
          /\ \A j \in 1 .. Len(table) - 1 : w[j] = IF j < k THEN table[j] ELSE table[j + 1]
      BY <2>1, RemoveAtProperties
    <2> HIDE DEF w
    <2>4. DOMAIN w = 1 .. Len(table) - 1
      BY <2>3
    <2>5. \A i, j \in 1 .. Len(table) : table[i] = table[j] => i = j
      BY <2>0 DEF IsInjective
    <2>6. ASSUME NEW j \in 1 .. Len(table) - 1
          PROVE  \E i \in 1 .. Len(table) :
                   w[j] = table[i] /\ i # k /\ i = IF j < k THEN j ELSE j + 1
      <3>1. CASE j < k
        <4>1. w[j] = table[j] /\ j \in 1 .. Len(table) /\ j # k
          BY <2>0, <2>1, <2>3, <3>1
        <4> QED BY <3>1, <4>1
      <3>2. CASE ~(j < k)
        <4>1. w[j] = table[j + 1] /\ j + 1 \in 1 .. Len(table) /\ j + 1 # k
          BY <2>0, <2>1, <2>3, <3>2
        <4> QED BY <3>2, <4>1
      <3> QED BY <3>1, <3>2
    <2>7. IsInjective(w)
      <3> SUFFICES ASSUME NEW i \in 1 .. Len(table) - 1, NEW j \in 1 .. Len(table) - 1, w[i] = w[j]
                   PROVE  i = j
        BY <2>4 DEF IsInjective
      <3>1. PICK a \in 1 .. Len(table) : w[i] = table[a] /\ a # k /\ a = IF i < k THEN i ELSE i + 1
        BY <2>6
      <3>2. PICK b \in 1 .. Len(table) : w[j] = table[b] /\ b # k /\ b = IF j < k THEN j ELSE j + 1
        BY <2>6
      <3>3. a = b
        BY <2>5, <3>1, <3>2
      <3> QED BY <2>1, <3>1, <3>2, <3>3
    <2>8. Range(w) \subseteq Range(table) \ {n}
      <3> SUFFICES ASSUME NEW j \in 1 .. Len(table) - 1
                   PROVE  w[j] \in Range(table) \ {n}
        BY <2>4 DEF Range
      <3>1. PICK i \in 1 .. Len(table) : w[j] = table[i] /\ i # k
        BY <2>6
      <3>2. table[i] # n
        BY <2>1, <2>5, <3>1
      <3> QED BY <2>0, <3>1, <3>2 DEF Range
    <2>9. Range(table) \ {n} \subseteq Range(w)
      <3> SUFFICES ASSUME NEW i \in 1 .. Len(table), table[i] # n
                   PROVE  table[i] \in Range(w)
        BY <2>0 DEF Range
      <3>1. i # k
        BY <2>1
      <3>2. CASE i < k
        <4>1. i \in 1 .. Len(table) - 1 /\ w[i] = table[i]
          BY <2>0, <2>1, <2>3, <3>2
        <4> QED BY <2>4, <4>1 DEF Range
      <3>3. CASE i > k
        <4>1. i - 1 \in 1 .. Len(table) - 1 /\ w[i - 1] = table[i]
          <5>1. i - 1 \in 1 .. Len(table) - 1 /\ ~(i - 1 < k) /\ (i - 1) + 1 = i
            BY <2>0, <2>1, <3>3
          <5> QED BY <2>3, <5>1
        <4> QED BY <2>4, <4>1 DEF Range
      <3> QED BY <2>1, <3>1, <3>2, <3>3
    <2> QED BY <2>2, <2>3, <2>7, <2>8, <2>9
  <1> QED BY <1>1, <1>2

\* A sequence of all the members of a finite set has them all, each once.
LEMMA SequencesOfASet ==
  ASSUME NEW S, IsFiniteSet(S), NEW s \in SetToSeqs(S)
  PROVE  s \in Seq(S) /\ Range(s) = S /\ IsInjective(s)
  <1> DEFINE n == Cardinality(S)
             D == 1 .. n
  <1>1. n \in Nat
    BY FS_CardinalityType
  <1>2. s \in [D -> S] /\ \A i, j \in D : i # j => s[i] # s[j]
    BY DEF SetToSeqs
  <1>3. IsFiniteSet(D) /\ Cardinality(D) = n
    BY <1>1, PlacesCount
  <1>4. s \in Injection(D, S)
    BY <1>2 DEF Injection, IsInjective
  <1>5. s \in Surjection(D, S)
    BY <1>3, <1>4, FS_Injection
  <1>6. Range(s) = S
    BY <1>2, <1>5 DEF Surjection, Range
  <1>7. IsInjective(s)
    BY <1>2 DEF IsInjective
  <1>8. s \in Seq(S)
    BY <1>1, <1>2
  <1> QED BY <1>6, <1>7, <1>8

-----------------------------------------------------------------------------
(* The links and the tables.                                               *)

LEMMA InitTables ==
  ASSUME Init
  PROVE  /\ links \subseteq {{p, q} : p, q \in Peers} /\ rtable \in [Peers -> Seq(Members)]
         /\ LinksAreOfMembers /\ TablesFollowLinks
  <1>0. PICK graph \in Graphs :
          \E orders \in Orders(graph), boot \in Members :
            /\ links = graph \cup {{joiner, boot}}
            /\ rtable = [p \in Peers |-> IF p \in Members THEN orders[p] ELSE <<>>]
    BY DEF Init
  <1>1. PICK orders \in Orders(graph), boot \in Members :
          /\ links = graph \cup {{joiner, boot}}
          /\ rtable = [p \in Peers |-> IF p \in Members THEN orders[p] ELSE <<>>]
    BY <1>0
  <1>2. joiner \in Joiners /\ joiner \notin Members /\ joiner \in Peers
    BY Constants DEF Init
  <1>3. \A l \in graph : \E p, q \in Members : p # q /\ l = {p, q}
    <2>1. graph \subseteq Pairs(Members)
      BY DEF Graphs
    <2> QED BY <2>1 DEF Pairs
  <1>4. ASSUME NEW p \in Members
        PROVE  /\ orders[p] \in Seq(Members) /\ IsInjective(orders[p])
               /\ Range(orders[p]) = Linked(p) \cap Members
    <2>1. Met(graph, p) \subseteq Members /\ IsFiniteSet(Met(graph, p))
      <3>1. Met(graph, p) \in SUBSET Members
        BY DEF Met
      <3>2. IsFiniteSet(Members)
        BY JourneyAssumption DEF JourneyAssumption
      <3> QED BY <3>1, <3>2, FS_Subset
    <2>2. orders[p] \in SetToSeqs(Met(graph, p))
      BY DEF Orders
    <2> DEFINE o == orders[p]
               M == Met(graph, p)
    <2> HIDE DEF o, M
    <2>3. o \in Seq(M) /\ Range(o) = M /\ IsInjective(o)
      BY <2>1, <2>2, SequencesOfASet DEF o, M
    <2>4. o \in Seq(Members)
      <3>1. M \subseteq Members
        BY <2>1 DEF M
      <3> QED BY <2>3, <3>1, SeqMonotonic
    <2>5. M = Linked(p) \cap Members
      <3>1. ASSUME NEW q \in Members PROVE {p, q} \in graph <=> {p, q} \in links /\ q # p
        <4>1. {p, q} # {joiner, boot}
          BY <1>2
        <4>2. {p, q} \in graph => q # p
          BY <1>3
        <4> QED BY <1>1, <4>1, <4>2
      <3> QED BY <3>1, Constants DEF M, Met, Linked
    <2> QED BY <2>3, <2>4, <2>5 DEF o
  <1>5. links \subseteq {{p, q} : p, q \in Peers}
    BY <1>1, <1>2, <1>3, Constants
  <1>6. LinksAreOfMembers
    <2> SUFFICES ASSUME NEW l \in links
                 PROVE  \E p \in Members, q \in Members \cup {joiner} : p # q /\ l = {p, q}
      BY DEF LinksAreOfMembers
    <2>1. CASE l \in graph
      BY <1>3, <2>1
    <2>2. CASE l = {joiner, boot}
      <3>1. joiner # boot /\ l = {boot, joiner}
        BY <1>2, <2>2
      <3> QED BY <3>1
    <2> QED BY <1>1, <2>1, <2>2
  <1>7. ASSUME NEW p \in Peers PROVE rtable[p] \in Seq(Members)
    BY <1>1, <1>4, EmptySeq
  <1>8. rtable \in [Peers -> Seq(Members)]
    BY <1>1, <1>7
  <1>9. TablesFollowLinks
    <2>1. \A p \in Members : rtable[p] = orders[p]
      BY <1>1, Constants
    <2>2. \A p \in Joiners : rtable[p] = <<>>
      BY <1>1, Constants
    <2> QED BY <1>4, <2>1, <2>2 DEF TablesFollowLinks
  <1> QED BY <1>5, <1>6, <1>8, <1>9

LEMMA LoseTables ==
  ASSUME TypeOK, LinksAreOfMembers, TablesFollowLinks,
         NEW p \in Peers, NEW q \in Peers, LoseConnection(p, q)
  PROVE  /\ links' \subseteq {{m, n} : m, n \in Peers} /\ rtable' \in [Peers -> Seq(Members)]
         /\ LinksAreOfMembers' /\ TablesFollowLinks' /\ joiner' = joiner
         /\ losses' \in 1 .. MaxLosses /\ losses' # 0
  <1>1. /\ {p, q} \in links /\ links' = links \ {{p, q}} /\ joiner' = joiner
        /\ rtable' = [rtable EXCEPT ![p] = Without(@, q), ![q] = Without(@, p)]
        /\ losses < MaxLosses /\ losses' = losses + 1
    BY DEF LoseConnection
  <1>2. losses' \in 1 .. MaxLosses /\ losses' # 0
    BY <1>1, Constants DEF TypeOK
  <1>3. p # q
    <2>1. PICK m \in Members, n \in Members \cup {joiner} : m # n /\ {p, q} = {m, n}
      BY <1>1 DEF LinksAreOfMembers
    <2> QED BY <2>1
  <1>4. \A r \in Peers : rtable[r] \in Seq(Members) /\ IsInjective(rtable[r])
    <2>1. IsInjective(<<>>)
      BY DEF IsInjective
    <2> QED BY <2>1 DEF TypeOK, TablesFollowLinks, Peers
  <1>5. \A r \in Peers : rtable'[r] = IF r = p THEN Without(rtable[p], q)
                                      ELSE IF r = q THEN Without(rtable[q], p) ELSE rtable[r]
    BY <1>1, <1>3 DEF TypeOK
  <1>6. ASSUME NEW r \in Peers, NEW s
        PROVE  /\ Without(rtable[r], s) \in Seq(Members) /\ IsInjective(Without(rtable[r], s))
               /\ Range(Without(rtable[r], s)) = Range(rtable[r]) \ {s}
    BY <1>4, WithoutProperties
  <1>7. \A r \in Peers : rtable'[r] \in Seq(Members)
    BY <1>4, <1>5, <1>6
  <1>8. rtable' \in [Peers -> Seq(Members)]
    <2> DEFINE a == Without(rtable[p], q)
               f == [rtable EXCEPT ![p] = a]
               b == Without(rtable[q], p)
    <2>4. rtable = [r \in Peers |-> rtable[r]]
      BY DEF TypeOK
    <2>2. f = [r \in Peers |-> f[r]] /\ f[q] = rtable[q]
      <3> HIDE DEF a
      <3> QED BY <1>3, <2>4
    <2>3. rtable' = [f EXCEPT ![q] = b]
      BY <1>1, <1>3, <2>2
    <2> HIDE DEF f, b
    <2>1. rtable' = [r \in Peers |-> rtable'[r]]
      BY <2>2, <2>3
    <2> QED BY <1>7, <2>1
  <1>9. links' \subseteq {{m, n} : m, n \in Peers}
    BY <1>1 DEF TypeOK
  <1>10. LinksAreOfMembers'
    BY <1>1 DEF LinksAreOfMembers
  <1>11. ASSUME NEW r \in Members
         PROVE  Range(rtable'[r]) = Linked(r)' \cap Members /\ IsInjective(rtable'[r])
    <2>0. r \in Peers /\ Range(rtable[r]) = Linked(r) \cap Members
      BY Constants DEF TablesFollowLinks
    <2>1. Linked(r)' = {n \in Peers : {r, n} \in links' /\ n # r}
      BY DEF Linked
    <2>2. Linked(r) = {n \in Peers : {r, n} \in links /\ n # r}
      BY DEF Linked
    <2>3. CASE r = p
      <3>1. Linked(r)' = Linked(r) \ {q}
        BY <1>1, <2>1, <2>2, <2>3
      <3>2. rtable'[r] = Without(rtable[r], q)
        BY <1>5, <2>0, <2>3
      <3>3. Range(rtable'[r]) = (Linked(r) \cap Members) \ {q} /\ IsInjective(rtable'[r])
        BY <1>6, <2>0, <3>2
      <3> QED BY <3>1, <3>3
    <2>4. CASE r = q
      <3>1. Linked(r)' = Linked(r) \ {p}
        BY <1>1, <2>1, <2>2, <2>4
      <3>2. rtable'[r] = Without(rtable[r], p)
        BY <1>3, <1>5, <2>0, <2>4
      <3>3. Range(rtable'[r]) = (Linked(r) \cap Members) \ {p} /\ IsInjective(rtable'[r])
        BY <1>6, <2>0, <3>2
      <3> QED BY <3>1, <3>3
    <2>5. CASE r # p /\ r # q
      <3>1. Linked(r)' = Linked(r)
        BY <1>1, <2>1, <2>2, <2>5
      <3> QED BY <1>4, <1>5, <2>0, <2>5, <3>1
    <2> QED BY <2>3, <2>4, <2>5
  <1>12. ASSUME NEW r \in Joiners PROVE rtable'[r] = <<>>
    <2>1. r \in Peers /\ rtable[r] = <<>> /\ \A n : Without(<<>>, n) = <<>>
      BY Constants DEF TablesFollowLinks, Without, Range
    <2> QED BY <1>5, <2>1
  <1>13. TablesFollowLinks'
    BY <1>11, <1>12 DEF TablesFollowLinks
  <1> QED BY <1>1, <1>2, <1>8, <1>9, <1>10, <1>13

-----------------------------------------------------------------------------
(* The message.                                                            *)

Entry == [type : {"node", "resource"}, id : DOMAIN Value]

LEMMA MessageFields ==
  ASSUME TypeOK, message # NoMessage
  PROVE  /\ message \in Message /\ message.kind \in {"request", "answer"}
         /\ message.status \in {"travelling", "taken", "dropped"}
         /\ message.at \in Peers /\ message.dest \in Seq(Entry)
         /\ message.ttl \in 1 .. InitialTtl /\ message.via \in Seq(Peers)
  BY DEF TypeOK, Message, Entry

LEMMA TravelsIsAMessage ==
  ASSUME NEW p, Travels(p)
  PROVE  message # NoMessage /\ message.status = "travelling" /\ message.at = p
  BY DEF Travels, NoMessage

LEMMA DestType ==
  ASSUME TypeOK, MessageHasDest, message # NoMessage, NEW p
  PROVE  Dest(p) \in Seq(Entry) /\ Dest(p) # <<>> /\ Dest(p)[1] \in Entry
  <1>1. message.dest \in Seq(Entry) /\ message.dest # <<>>
    BY MessageFields DEF MessageHasDest
  <1>2. Dest(p) \in Seq(Entry) /\ Dest(p) # <<>>
    BY <1>1, StrippedProperties DEF Dest
  <1> HIDE DEF Entry
  <1> QED BY <1>2

\* Whoever has a request finds one resource to look for.
LEMMA DestOfRequest ==
  ASSUME TypeOK, MessageHasDest, RequestOnItsWay, message # NoMessage, message.kind = "request",
         NEW p, p = message.at
  PROVE  \E n \in Target : Dest(p) = <<Resource(n)>>
  <1> DEFINE dest == message.dest
  <1>1. dest \in Seq(Entry) /\ dest # <<>>
    BY MessageFields DEF MessageHasDest
  <1>2. Dest(p) = Stripped(p, dest)
    BY DEF Dest
  <1>3. PICK i \in 1 .. Len(dest) :
          /\ dest[i] # Node(p) \/ i = Len(dest)
          /\ \A j \in 1 .. i - 1 : dest[j] = Node(p) /\ j # Len(dest)
          /\ Stripped(p, dest) \in Seq(Entry) /\ Stripped(p, dest) # <<>>
          /\ Len(Stripped(p, dest)) = Len(dest) - i + 1
          /\ \A k \in 1 .. Len(dest) - i + 1 : Stripped(p, dest)[k] = dest[i + k - 1]
    <2> HIDE DEF Entry, dest
    <2> QED BY <1>1, StrippedProperties
  <1> DEFINE st == Stripped(p, dest)
  <1>4. ASSUME NEW n, dest = <<Resource(n)>> PROVE st = <<Resource(n)>>
    <2>1. Len(dest) = 1 /\ dest[1] = Resource(n)
      BY <1>4
    <2> HIDE DEF dest
    <2>2. Len(st) = 1 /\ st[1] = Resource(n)
      BY <1>3, <2>1
    <2> HIDE DEF st, Entry
    <2> QED BY <1>3, <2>2 DEF st
  <1>5. ASSUME NEW n, dest = <<Node(p), Resource(n)>> PROVE st = <<Resource(n)>>
    <2>1. Len(dest) = 2 /\ dest[1] = Node(p) /\ dest[2] = Resource(n)
      BY <1>5
    <2> HIDE DEF dest
    <2>2. i = 2
      BY <1>3, <2>1
    <2>3. Len(st) = 1 /\ st[1] = Resource(n)
      BY <1>3, <2>1, <2>2
    <2> HIDE DEF st, Entry
    <2> QED BY <1>3, <2>3 DEF st
  <1>6. \/ \E n \in Target : dest = <<Resource(n)>>
        \/ dest = <<Node(p), Resource(Increment[joiner])>> /\ Increment[joiner] \in Target
    BY DEF RequestOnItsWay, Target
  <1> QED BY <1>2, <1>4, <1>5, <1>6

LEMMA TakeOrDrop ==
  ASSUME IInv, NEW p \in Peers, Take(p) \/ Drop(p)
  PROVE  /\ TypeOK' /\ MessageHasDest' /\ RequestOnItsWay' /\ WayBack' /\ RelayIsNotResponsible'
         /\ LinksAreOfMembers' /\ TablesFollowLinks'
  <1>0. /\ TypeOK /\ MessageHasDest /\ RequestOnItsWay /\ WayBack /\ RelayIsNotResponsible
        /\ LinksAreOfMembers /\ TablesFollowLinks
    BY DEF IInv
  <1>1. Travels(p) /\ UNCHANGED <<tables, origin>>
    BY DEF Take, Drop
  <1>2. PICK s \in {"taken", "dropped"} :
          message' = [message EXCEPT !.dest = Dest(p), !.status = s]
    BY DEF Take, Drop
  <1>3. message # NoMessage /\ message.at = p
    BY <1>1, TravelsIsAMessage
  <1>4. message \in Message
    BY <1>0, <1>3, MessageFields
  <1>5. Dest(p) \in Seq(Entry) /\ Dest(p) # <<>>
    BY <1>0, <1>3, DestType
  <1>6. links' = links /\ rtable' = rtable /\ joiner' = joiner /\ losses' = losses /\ origin' = origin
    BY <1>1 DEF tables
  <1>7. /\ message'.kind = message.kind /\ message'.at = message.at /\ message'.via = message.via
        /\ message'.ttl = message.ttl /\ message'.dest = Dest(p) /\ message'.status = s
    BY <1>2, <1>4 DEF Message
  <1>8. message' \in Message /\ message' # NoMessage
    BY <1>2, <1>4, <1>5 DEF Message, Entry, NoMessage
  <1>9. TypeOK'
    BY <1>0, <1>6, <1>8 DEF TypeOK
  <1>10. MessageHasDest'
    BY <1>5, <1>7 DEF MessageHasDest
  <1>11. RequestOnItsWay'
    <2> SUFFICES ASSUME message.kind = "request" PROVE RequestOnItsWay'
      BY <1>7 DEF RequestOnItsWay
    <2>1. \E n \in Target : Dest(p) = <<Resource(n)>>
      BY <1>0, <1>3, DestOfRequest
    <2>2. Target' = Target
      BY <1>6 DEF Target
    <2> QED BY <1>0, <1>3, <1>6, <1>7, <2>1, <2>2 DEF RequestOnItsWay
  <1>12. WayBack'
    BY <1>0, <1>3, <1>6, <1>7 DEF WayBack
  <1>13. RelayIsNotResponsible'
    BY <1>0, <1>3, <1>6, <1>7 DEF RelayIsNotResponsible, Responsible
  <1>14. LinksAreOfMembers'
    BY <1>0, <1>6 DEF LinksAreOfMembers
  <1>15. TablesFollowLinks'
    BY <1>0, <1>6 DEF TablesFollowLinks, Linked
  <1> QED BY <1>9, <1>10, <1>11, <1>12, <1>13, <1>14, <1>15

LEMMA Forward ==
  ASSUME IInv, NEW p \in Peers, ForwardMessage(p)
  PROVE  /\ TypeOK' /\ MessageHasDest' /\ RequestOnItsWay' /\ WayBack' /\ RelayIsNotResponsible'
         /\ LinksAreOfMembers' /\ TablesFollowLinks'
  <1>0. /\ TypeOK /\ MessageHasDest /\ RequestOnItsWay /\ WayBack /\ RelayIsNotResponsible
        /\ LinksAreOfMembers /\ TablesFollowLinks
    BY DEF IInv
  <1> DEFINE hop == NextHop(p, Dest(p)[1].id)
  <1>1. /\ Travels(p) /\ ~ForLocal(p) /\ UNCHANGED <<tables, origin>>
        /\ message' = [ToForward(p, message) EXCEPT !.dest = Dest(p), !.at = hop]
    BY DEF ForwardMessage
  <1>3. message # NoMessage /\ message.at = p /\ message.status = "travelling"
    BY <1>1, TravelsIsAMessage
  <1>4. message \in Message /\ message.ttl \in 1 .. InitialTtl /\ message.via \in Seq(Peers)
    BY <1>0, <1>3, MessageFields
  <1>5. Dest(p) \in Seq(Entry) /\ Dest(p) # <<>> /\ Dest(p)[1] \in Entry
    BY <1>0, <1>3, DestType
  <1>6. links' = links /\ rtable' = rtable /\ joiner' = joiner /\ losses' = losses /\ origin' = origin
    BY <1>1 DEF tables
  <1>a. rtable[p] \in Seq(Members) /\ Range(rtable[p]) \subseteq Linked(p)
    <2>1. p \in Members => Range(rtable[p]) = Linked(p) \cap Members
      BY <1>0 DEF TablesFollowLinks
    <2>2. p \in Joiners => rtable[p] = <<>>
      BY <1>0 DEF TablesFollowLinks
    <2>3. Range(<<>>) = {}
      BY DEF Range
    <2> QED BY <1>0, <2>1, <2>2, <2>3 DEF TypeOK, Peers
  <1>b. /\ hop \in {Dest(p)[1].id, p} \cup Members /\ hop \in Peers
        /\ rtable[p] # <<>> => hop \in Linked(p)
    BY <1>a, NextHopIsLinked
  <1> HIDE DEF hop
  <1>c. message.ttl - 1 \in 1 .. InitialTtl
    <2>1. message.ttl # 1
      BY <1>1 DEF ForLocal
    <2> QED BY <1>4, <2>1, Constants
  <1>d. /\ Append(message.via, p) \in Seq(Peers) /\ Len(Append(message.via, p)) = Len(message.via) + 1
        /\ \A i \in 1 .. Len(message.via) : Append(message.via, p)[i] = message.via[i]
        /\ Append(message.via, p)[Len(message.via) + 1] = p /\ Append(message.via, p) # <<>>
    BY <1>4, AppendProperties
  <1>7. /\ message'.kind = message.kind /\ message'.at = hop /\ message'.via = Append(message.via, p)
        /\ message'.ttl = message.ttl - 1 /\ message'.dest = Dest(p)
        /\ message'.status = "travelling"
    BY <1>1, <1>3, <1>4 DEF Message, ToForward
  <1>8. message' \in Message /\ message' # NoMessage
    <2>1. ToForward(p, message) \in Message
      BY <1>4, <1>c, <1>d DEF Message, ToForward
    <2> QED BY <1>1, <1>5, <1>7, <1>b, <2>1 DEF Message, Entry, NoMessage
  <1>9. TypeOK'
    BY <1>0, <1>6, <1>8 DEF TypeOK
  <1>10. MessageHasDest'
    BY <1>5, <1>7 DEF MessageHasDest
  <1>14. LinksAreOfMembers'
    BY <1>0, <1>6 DEF LinksAreOfMembers
  <1>15. TablesFollowLinks'
    BY <1>0, <1>6 DEF TablesFollowLinks, Linked
  <1>16. CASE message.kind # "request"
    <2>1. RequestOnItsWay' /\ WayBack' /\ RelayIsNotResponsible'
      BY <1>7, <1>16 DEF RequestOnItsWay, WayBack, RelayIsNotResponsible
    <2> QED BY <1>9, <1>10, <1>14, <1>15, <2>1
  <1>17. CASE message.kind = "request"
    <2> DEFINE via == message.via
               len == Len(via)
    <2>0. len \in Nat /\ len >= 1
      BY <1>0, <1>3, <1>4, <1>17 DEF RequestOnItsWay
    <2>1. PICK n \in Target : Dest(p) = <<Resource(n)>>
      BY <1>0, <1>3, <1>17, DestOfRequest
    <2>2. Dest(p)[1].id = n /\ Len(Dest(p)) = 1
      BY <2>1 DEF Resource
    <2>3. ~Responsible(p, n)
      BY <1>1, <2>2 DEF ForLocal
    <2>4. hop \in Linked(p)
      BY <1>b, <2>3, ResponsibleAlone
    <2>5. p \in Members
      BY <1>0, <1>3, <1>17 DEF RequestOnItsWay
    <2>6. {p, hop} \in links /\ hop # p
      BY <2>4 DEF Linked
    <2>7. n # joiner
      BY <1>0, Constants DEF Target, TypeOK
    <2>8. hop \in Members
      <3>1. hop # joiner
        BY <1>0, <1>b, <2>2, <2>5, <2>7, Constants DEF TypeOK
      <3>2. PICK a \in Members, b \in Members \cup {joiner} : {p, hop} = {a, b}
        BY <1>0, <2>6 DEF LinksAreOfMembers
      <3> QED BY <2>5, <3>1, <3>2
    <2>9. RequestOnItsWay'
      <3>1. Target' = Target
        BY <1>6 DEF Target
      <3>2. /\ origin \in Members \cup {joiner} /\ via[1] = origin
            /\ \A i \in 2 .. len : via[i] \in Members
            /\ message.ttl + len = InitialTtl + 1
        BY <1>0, <1>3, <1>17 DEF RequestOnItsWay
      <3>3. Append(via, p)[1] = origin
        BY <1>d, <2>0, <3>2
      <3>4. ASSUME NEW i \in 2 .. len + 1 PROVE Append(via, p)[i] \in Members
        <4>1. CASE i = len + 1
          BY <1>d, <2>5, <4>1
        <4>2. CASE i # len + 1
          <5>1. i \in 2 .. len /\ i \in 1 .. len
            BY <2>0, <4>2
          <5> QED BY <1>d, <3>2, <5>1
        <4> QED BY <4>1, <4>2
      <3>5. (message.ttl - 1) + (len + 1) = InitialTtl + 1
        BY <1>4, <2>0, <3>2
      <3> HIDE DEF via
      <3>6. /\ message'.via # <<>> /\ message'.via[1] = origin' /\ Len(message'.via) = len + 1
            /\ \A i \in 2 .. Len(message'.via) : message'.via[i] \in Members
            /\ message'.ttl + Len(message'.via) = InitialTtl + 1
        BY <1>6, <1>7, <1>d, <3>3, <3>4, <3>5 DEF via
      <3> QED BY <1>6, <1>7, <2>1, <2>8, <3>1, <3>2, <3>6 DEF RequestOnItsWay
    <2>10. WayBack'
      <3> SUFFICES ASSUME losses = 0
                   PROVE  /\ \A i \in 1 .. Len(message'.via) - 1 :
                               {message'.via[i], message'.via[i + 1]} \in links
                          /\ {message'.via[Len(message'.via)], message'.at} \in links
        BY <1>6 DEF WayBack
      <3>1. /\ \A i \in 1 .. len - 1 : {via[i], via[i + 1]} \in links
            /\ {via[len], p} \in links
        BY <1>0, <1>3, <1>17 DEF WayBack
      <3>2. ASSUME NEW i \in 1 .. len
            PROVE  {Append(via, p)[i], Append(via, p)[i + 1]} \in links
        <4>1. Append(via, p)[i] = via[i]
          BY <1>d
        <4>2. CASE i = len
          BY <1>d, <3>1, <4>1, <4>2
        <4>3. CASE i # len
          <5>1. i \in 1 .. len - 1 /\ i + 1 \in 1 .. len
            BY <2>0, <4>3
          <5>2. Append(via, p)[i + 1] = via[i + 1]
            BY <1>d, <5>1
          <5> QED BY <3>1, <4>1, <5>1, <5>2
        <4> QED BY <4>2, <4>3
      <3> HIDE DEF via
      <3>3. (len + 1) - 1 = len
        BY <2>0
      <3> QED BY <1>7, <1>d, <2>6, <3>2, <3>3 DEF via
    <2>11. RelayIsNotResponsible'
      <3> SUFFICES ASSUME losses = 0, origin = joiner
                   PROVE  ~Responsible(Append(via, p)[2], Increment[joiner])
        BY <1>6, <1>7 DEF RelayIsNotResponsible, Responsible
      <3>1. CASE len = 1
        <4>1. Append(via, p)[2] = p
          BY <1>d, <3>1
        <4>2. n = Increment[joiner]
          BY DEF Target
        <4> QED BY <2>3, <4>1, <4>2
      <3>2. CASE len # 1
        <4>1. len >= 2 /\ 2 \in 1 .. len
          <5> HIDE DEF len
          <5> QED BY <2>0, <3>2
        <4>2. Append(via, p)[2] = via[2]
          BY <1>d, <4>1
        <4> QED BY <1>0, <1>3, <1>17, <4>1, <4>2 DEF RelayIsNotResponsible
      <3> QED BY <3>1, <3>2
    <2> QED BY <1>9, <1>10, <1>14, <1>15, <2>9, <2>10, <2>11
  <1> QED BY <1>16, <1>17

\* The via list read backwards is the list of the nodes on the way back.
LEMMA AnswerList ==
  ASSUME NEW via \in Seq(Peers)
  PROVE  LET d == [i \in DOMAIN via |-> Node(Reverse(via)[i])]
         IN  /\ d \in Seq(Entry) /\ Len(d) = Len(via)
             /\ \A i \in 1 .. Len(via) : d[i] = Node(via[Len(via) - i + 1])
  <1> DEFINE d == [i \in DOMAIN via |-> Node(Reverse(via)[i])]
  <1>1. DOMAIN via = 1 .. Len(via) /\ Len(via) \in Nat
    OBVIOUS
  <1>2. ASSUME NEW i \in 1 .. Len(via)
        PROVE  d[i] = Node(via[Len(via) - i + 1]) /\ d[i] \in Entry
    <2>1. Reverse(via)[i] = via[Len(via) - i + 1]
      BY DEF Reverse
    <2>2. Len(via) - i + 1 \in 1 .. Len(via)
      BY <1>1
    <2>3. via[Len(via) - i + 1] \in Peers
      BY <2>2
    <2> QED BY <1>1, <2>1, <2>3, Constants DEF Node, Entry
  <1>3. d \in [DOMAIN via -> Entry]
    <2> HIDE DEF Entry
    <2> QED BY <1>1, <1>2
  <1> HIDE DEF d, Entry
  <1>4. d \in Seq(Entry) /\ Len(d) = Len(via)
    BY <1>3, PlaceByPlace
  <1> QED BY <1>2, <1>4 DEF d

LEMMA Answer ==
  ASSUME IInv, NEW p \in Peers, SendAnswer(p)
  PROVE  /\ TypeOK' /\ MessageHasDest' /\ RequestOnItsWay' /\ WayBack' /\ RelayIsNotResponsible'
         /\ LinksAreOfMembers' /\ TablesFollowLinks'
  <1>0. TypeOK /\ RequestOnItsWay /\ LinksAreOfMembers /\ TablesFollowLinks
    BY DEF IInv
  <1> DEFINE answer == NewResponseMessage(p, message)
             d == [i \in DOMAIN message.via |-> Node(Reverse(message.via)[i])]
             hop == NextHop(p, answer.dest[1].id)
  <1>1. /\ message.kind = "request" /\ message.at = p /\ UNCHANGED <<tables, origin>>
        /\ message' = [answer EXCEPT !.status = "travelling", !.at = hop]
    BY DEF SendAnswer
  <1>3. message # NoMessage
    BY <1>1 DEF NoMessage
  <1>4. message \in Message /\ message.via \in Seq(Peers)
    BY <1>0, <1>3, MessageFields
  <1>5. d \in Seq(Entry) /\ Len(d) = Len(message.via)
    BY <1>4, AnswerList
  <1>6. links' = links /\ rtable' = rtable /\ joiner' = joiner /\ losses' = losses /\ origin' = origin
    BY <1>1 DEF tables
  <1>a. rtable[p] \in Seq(Members) /\ Range(rtable[p]) \subseteq Linked(p)
    <2>1. p \in Members => Range(rtable[p]) = Linked(p) \cap Members
      BY <1>0 DEF TablesFollowLinks
    <2>2. p \in Joiners => rtable[p] = <<>>
      BY <1>0 DEF TablesFollowLinks
    <2>3. Range(<<>>) = {}
      BY DEF Range
    <2> QED BY <1>0, <2>1, <2>2, <2>3 DEF TypeOK, Peers
  <1>b. hop \in Peers
    BY <1>a, NextHopIsLinked
  <1>c. message.via # <<>>
    BY <1>0, <1>1, <1>3 DEF RequestOnItsWay
  <1> HIDE DEF hop, d
  <1>d. d # <<>>
    BY <1>4, <1>5, <1>c
  <1>7. message'.kind = "answer" /\ message'.dest = d
    BY <1>1, <1>4 DEF NewResponseMessage, Message, d
  <1>8. message' \in Message /\ message' # NoMessage
    <2>1. <<p>> \in Seq(Peers) /\ InitialTtl \in 1 .. InitialTtl
      BY Constants
    <2>2. answer \in Message
      BY <1>4, <1>5, <2>1 DEF Message, NewResponseMessage, d, Entry
    <2> HIDE DEF answer
    <2> QED BY <1>1, <1>7, <1>b, <2>2 DEF Message, NoMessage
  <1>9. TypeOK'
    BY <1>0, <1>6, <1>8 DEF TypeOK
  <1>10. MessageHasDest'
    BY <1>7, <1>d DEF MessageHasDest
  <1>11. RequestOnItsWay' /\ WayBack' /\ RelayIsNotResponsible'
    BY <1>7 DEF RequestOnItsWay, WayBack, RelayIsNotResponsible
  <1>14. LinksAreOfMembers'
    BY <1>0, <1>6 DEF LinksAreOfMembers
  <1>15. TablesFollowLinks'
    BY <1>0, <1>6 DEF TablesFollowLinks, Linked
  <1> QED BY <1>9, <1>10, <1>11, <1>14, <1>15

LEMMA Lose ==
  ASSUME IInv, NEW p \in Peers, NEW q \in Peers, LoseConnection(p, q)
  PROVE  /\ TypeOK' /\ MessageHasDest' /\ RequestOnItsWay' /\ WayBack' /\ RelayIsNotResponsible'
         /\ LinksAreOfMembers' /\ TablesFollowLinks'
  <1>0. TypeOK /\ MessageHasDest /\ RequestOnItsWay /\ LinksAreOfMembers /\ TablesFollowLinks
    BY DEF IInv
  <1>1. /\ links' \subseteq {{m, n} : m, n \in Peers} /\ rtable' \in [Peers -> Seq(Members)]
        /\ LinksAreOfMembers' /\ TablesFollowLinks' /\ joiner' = joiner
        /\ losses' \in 1 .. MaxLosses /\ losses' # 0
    BY <1>0, LoseTables
  <1>2. origin' = origin
    BY DEF LoseConnection
  <1>3. \/ message' = message
        \/ /\ message # NoMessage /\ message.status = "travelling"
           /\ message' = [message EXCEPT !.status = "dropped"]
    BY DEF LoseConnection
  <1>4. WayBack' /\ RelayIsNotResponsible'
    BY <1>1 DEF WayBack, RelayIsNotResponsible
  <1>5. TypeOK'
    <2>1. message' \in Message \cup {NoMessage}
      <3>1. CASE message' = message
        BY <1>0, <3>1 DEF TypeOK
      <3>2. CASE message # NoMessage /\ message' = [message EXCEPT !.status = "dropped"]
        <4>1. message \in Message
          BY <1>0, <3>2, MessageFields
        <4> QED BY <3>2, <4>1 DEF Message
      <3> QED BY <1>3, <3>1, <3>2
    <2> QED BY <1>0, <1>1, <1>2, <2>1 DEF TypeOK
  <1>6. CASE message = NoMessage
    <2>1. message' = message
      BY <1>3, <1>6
    <2> QED BY <1>1, <1>4, <1>5, <1>6, <2>1 DEF MessageHasDest, RequestOnItsWay
  <1>7. CASE message # NoMessage
    <2>1. /\ message'.kind = message.kind /\ message'.at = message.at /\ message'.via = message.via
          /\ message'.ttl = message.ttl /\ message'.dest = message.dest
          /\ message'.status = message.status \/ message'.status = "dropped"
      <3>1. message \in Message
        BY <1>0, <1>7, MessageFields
      <3> QED BY <1>3, <3>1 DEF Message
    <2>2. Target' = Target
      BY <1>1, <1>2 DEF Target
    <2>3. MessageHasDest'
      BY <1>0, <1>7, <2>1 DEF MessageHasDest
    <2>4. RequestOnItsWay'
      BY <1>0, <1>1, <1>2, <1>7, <2>1, <2>2 DEF RequestOnItsWay
    <2> QED BY <1>1, <1>4, <1>5, <2>3, <2>4
  <1> QED BY <1>6, <1>7

LEMMA Begin ==
  ASSUME IInv, JoiningAttach \/ \E p, n \in Members : NeighborAttach(p, n)
  PROVE  /\ TypeOK' /\ MessageHasDest' /\ RequestOnItsWay' /\ WayBack' /\ RelayIsNotResponsible'
         /\ LinksAreOfMembers' /\ TablesFollowLinks'
  <1>0. TypeOK /\ LinksAreOfMembers /\ TablesFollowLinks
    BY DEF IInv
  <1>1. joiner \in Joiners /\ joiner \notin Members /\ joiner \in Peers
        /\ Increment[joiner] \in DOMAIN Value
    BY <1>0, Constants DEF TypeOK
  <1> DEFINE J(p, hop, dest) == /\ p = joiner /\ hop \in Linked(p)
                                /\ dest = <<Node(hop), Resource(Increment[joiner])>>
             N(p, hop, dest) == /\ p \in Members /\ hop \in Linked(p) \cap Members
                                /\ \E n \in Members : dest = <<Resource(n)>>
  <1>2. PICK p, hop, dest : Request(p, hop, dest) /\ (J(p, hop, dest) \/ N(p, hop, dest))
    <2>1. CASE JoiningAttach
      <3>1. PICK boot \in Linked(joiner) :
              Request(joiner, boot, <<Node(boot), Resource(Increment[joiner])>>)
        BY <2>1 DEF JoiningAttach
      <3>2. J(joiner, boot, <<Node(boot), Resource(Increment[joiner])>>)
        OBVIOUS
      <3> HIDE DEF J, N
      <3> QED BY <3>1, <3>2
    <2>2. CASE \E p, n \in Members : NeighborAttach(p, n)
      <3>1. PICK p \in Members, n \in Members : NeighborAttach(p, n)
        BY <2>2
      <3>2. PICK carrier \in Linked(p) \cap Members : Request(p, carrier, <<Resource(n)>>)
        BY <3>1 DEF NeighborAttach
      <3>3. N(p, carrier, <<Resource(n)>>)
        OBVIOUS
      <3> HIDE DEF J, N
      <3> QED BY <3>2, <3>3
    <2> QED BY <2>1, <2>2
  <1>3. /\ message' = [kind |-> "request", status |-> "travelling", at |-> hop,
                       dest |-> dest, ttl |-> InitialTtl, via |-> <<p>>]
        /\ origin' = p /\ UNCHANGED tables
    BY <1>2 DEF Request
  <1>4. links' = links /\ rtable' = rtable /\ joiner' = joiner /\ losses' = losses
    BY <1>3 DEF tables
  <1>5. /\ message'.kind = "request" /\ message'.at = hop /\ message'.dest = dest
        /\ message'.ttl = InitialTtl /\ message'.via = <<p>> /\ message'.status = "travelling"
    BY <1>3
  <1>6. hop \in Members /\ {p, hop} \in links /\ p \in Members \cup {joiner} /\ p \in Peers
    <2>1. CASE J(p, hop, dest)
      <3>1. {p, hop} \in links /\ hop # p
        BY <2>1 DEF Linked
      <3>2. PICK a \in Members, b \in Members \cup {joiner} : {p, hop} = {a, b}
        BY <1>0, <3>1 DEF LinksAreOfMembers
      <3> QED BY <1>1, <2>1, <3>1, <3>2
    <2>2. CASE N(p, hop, dest)
      BY <2>2, Constants DEF Linked
    <2> QED BY <1>2, <2>1, <2>2
  <1>7. dest \in Seq(Entry) /\ dest # <<>>
    <2>1. CASE J(p, hop, dest)
      <3>1. Node(hop) \in Entry /\ Resource(Increment[joiner]) \in Entry
        BY <1>1, <1>6, Constants DEF Node, Resource, Entry
      <3> HIDE DEF Entry
      <3> QED BY <2>1, <3>1
    <2>2. CASE N(p, hop, dest)
      <3>1. \A n \in Members : Resource(n) \in Entry
        BY Constants DEF Resource, Entry
      <3> HIDE DEF Entry
      <3> QED BY <2>2, <3>1
    <2> QED BY <1>2, <2>1, <2>2
  <1>8. message' \in Message
    <2>1. <<p>> \in Seq(Peers) /\ InitialTtl \in 1 .. InitialTtl /\ hop \in Peers
      BY <1>6, Constants
    <2> QED BY <1>3, <1>7, <2>1 DEF Message, Entry
  <1>9. TypeOK'
    BY <1>0, <1>3, <1>4, <1>6, <1>8 DEF TypeOK
  <1>10. MessageHasDest'
    BY <1>5, <1>7 DEF MessageHasDest
  <1>a. <<p>> # <<>> /\ Len(<<p>>) = 1 /\ <<p>>[1] = p
    OBVIOUS
  <1>11. RequestOnItsWay'
    <2>1. CASE J(p, hop, dest)
      BY <1>3, <1>4, <1>5, <1>6, <1>a, <2>1, Constants DEF RequestOnItsWay
    <2>2. CASE N(p, hop, dest)
      <3>1. Target' = Members
        BY <1>1, <1>3, <1>4, <2>2 DEF Target
      <3> QED BY <1>3, <1>4, <1>5, <1>6, <1>a, <2>2, <3>1, Constants DEF RequestOnItsWay
    <2> QED BY <1>2, <2>1, <2>2
  <1>12. WayBack'
    BY <1>4, <1>5, <1>6, <1>a DEF WayBack
  <1>13. RelayIsNotResponsible'
    BY <1>5, <1>a DEF RelayIsNotResponsible
  <1>14. LinksAreOfMembers'
    BY <1>0, <1>4 DEF LinksAreOfMembers
  <1>15. TablesFollowLinks'
    BY <1>0, <1>4 DEF TablesFollowLinks, Linked
  <1> QED BY <1>9, <1>10, <1>11, <1>12, <1>13, <1>14, <1>15

\* Every message that is under way, whatever it is and whatever has been
\* lost, is where its lists say, and what a request has paid of its ttl is
\* what its via list has grown by.
THEOREM Invariance == Spec => []IInv
  <1>1. Init => IInv
    <2> SUFFICES ASSUME Init PROVE IInv
      OBVIOUS
    <2>1. /\ links \subseteq {{p, q} : p, q \in Peers} /\ rtable \in [Peers -> Seq(Members)]
          /\ LinksAreOfMembers /\ TablesFollowLinks
      BY InitTables
    <2>2. /\ joiner \in Joiners /\ origin = joiner /\ message = NoMessage /\ losses = 0
      BY DEF Init
    <2>3. TypeOK
      BY <2>1, <2>2, Constants DEF TypeOK
    <2>4. MessageHasDest /\ RequestOnItsWay /\ WayBack /\ RelayIsNotResponsible
      BY <2>2 DEF MessageHasDest, RequestOnItsWay, WayBack, RelayIsNotResponsible
    <2> QED BY <2>1, <2>3, <2>4 DEF IInv
  <1>2. IInv /\ [Next]_vars => IInv'
    <2> SUFFICES ASSUME IInv, [Next]_vars PROVE IInv'
      OBVIOUS
    <2>1. CASE JoiningAttach \/ \E p, n \in Members : NeighborAttach(p, n)
      BY <2>1, Begin DEF IInv
    <2>2. ASSUME NEW p \in Peers, NEW q \in Peers, LoseConnection(p, q) PROVE IInv'
      BY <2>2, Lose DEF IInv
    <2>3. ASSUME NEW p \in Peers, Take(p) \/ Drop(p) PROVE IInv'
      BY <2>3, TakeOrDrop DEF IInv
    <2>4. ASSUME NEW p \in Peers, ForwardMessage(p) PROVE IInv'
      BY <2>4, Forward DEF IInv
    <2>5. ASSUME NEW p \in Peers, SendAnswer(p) PROVE IInv'
      BY <2>5, Answer DEF IInv
    <2>6. CASE UNCHANGED vars
      <3>1. /\ links' = links /\ rtable' = rtable /\ joiner' = joiner /\ losses' = losses
            /\ message' = message /\ origin' = origin
        BY <2>6 DEF vars
      <3>2. TypeOK' /\ LinksAreOfMembers'
        BY <3>1 DEF IInv, TypeOK, LinksAreOfMembers
      <3>3. TablesFollowLinks'
        BY <3>1 DEF IInv, TablesFollowLinks, Linked
      <3>4. MessageHasDest' /\ RequestOnItsWay' /\ WayBack'
        BY <3>1 DEF IInv, MessageHasDest, RequestOnItsWay, Target, WayBack
      <3>5. RelayIsNotResponsible'
        BY <3>1 DEF IInv, RelayIsNotResponsible, Responsible
      <3> QED BY <3>2, <3>3, <3>4, <3>5 DEF IInv
    <2> QED BY <2>1, <2>2, <2>3, <2>4, <2>5, <2>6 DEF Next, Step
  <1> QED BY <1>1, <1>2, PTL DEF Spec

\* The six variables keep their types.
THEOREM TypeCorrect == Spec => []TypeOK
  <1>1. IInv => TypeOK
    BY DEF IInv
  <1> QED BY <1>1, Invariance, PTL

-----------------------------------------------------------------------------
(* The answer.                                                             *)

\* The peers that wait for the answer next to the sender are not taken for it.
LEMMA NotForTheSender ==
  ASSUME IInv, NothingBetween, losses = 0, message # NoMessage, message.kind = "request",
         Len(message.via) >= 2
  PROVE  ~Responsible(message.via[2], origin)
  <1> DEFINE p == message.via[2]
  <1>0. /\ TypeOK /\ LinksAreOfMembers /\ TablesFollowLinks /\ RequestOnItsWay /\ WayBack
        /\ RelayIsNotResponsible
    BY DEF IInv
  <1>1. message.via \in Seq(Peers) /\ Len(message.via) \in Nat
    BY <1>0, MessageFields
  <1>2. /\ p \in Members /\ origin \in Members \cup {joiner} /\ message.via[1] = origin
    BY <1>0, <1>1 DEF RequestOnItsWay
  <1>3. {origin, p} \in links
    <2>1. 1 \in 1 .. Len(message.via) - 1 /\ 1 + 1 = 2
      BY <1>1
    <2> QED BY <1>0, <1>2, <2>1 DEF WayBack
  <1> HIDE DEF p
  <1>4. Range(rtable[p]) = Linked(p) \cap Members
    BY <1>0, <1>2 DEF TablesFollowLinks
  <1>5. \A n \in Peers : Value[n] \in Nat
    BY Constants
  <1>6. CASE origin \in Members
    <2>1. PICK a \in Members, b \in Members \cup {joiner} : a # b /\ {origin, p} = {a, b}
      BY <1>0, <1>3 DEF LinksAreOfMembers
    <2>2. origin # p
      BY <2>1
    <2>3. origin \in Range(rtable[p])
      <3>1. {p, origin} = {origin, p}
        OBVIOUS
      <3> QED BY <1>3, <1>4, <1>6, <2>2, <3>1, Constants DEF Linked
    <2>4. Value[origin] # Value[p]
      BY <1>2, <1>6, <2>2, Constants, DistinctValues DEF DistinctValues
    <2>5. ~(GetDistance(Value[origin], Value[origin]) >= GetDistance(Value[origin], Value[p]))
      BY <1>2, <1>5, <1>6, <2>4, Constants DEF GetDistance
    <2> QED BY <2>3, <2>5 DEF Responsible, p
  <1>7. CASE origin = joiner
    <2>1. ~Responsible(p, Increment[joiner])
      BY <1>0, <1>7 DEF RelayIsNotResponsible, p
    <2>2. PICK n \in Range(rtable[p]) :
            ~(GetDistance(Value[n], Value[Increment[joiner]])
                >= GetDistance(Value[Increment[joiner]], Value[p]))
      BY <2>1 DEF Responsible
    <2>3. n \in Members /\ joiner \in Joiners
      BY <1>0, <1>4 DEF TypeOK
    <2>4. ~(GetDistance(Value[n], Value[joiner]) >= GetDistance(Value[joiner], Value[p]))
      BY <1>2, <2>2, <2>3 DEF NothingBetween
    <2> QED BY <1>7, <2>4 DEF Responsible, p
  <1> QED BY <1>2, <1>6, <1>7

LEMMA AnswerSetsOut ==
  ASSUME IInv, NothingBetween, losses = 0, NEW p \in Peers, SendAnswer(p)
  PROVE  Returning(message'.at, message'.dest, message'.ttl)
  <1>0. TypeOK /\ RequestOnItsWay /\ WayBack /\ LinksAreOfMembers
    BY DEF IInv
  <1> DEFINE answer == NewResponseMessage(p, message)
             d == [i \in DOMAIN message.via |-> Node(Reverse(message.via)[i])]
             via == message.via
             len == Len(message.via)
  <1>1. /\ message.kind = "request" /\ message.at = p
        /\ message' = [answer EXCEPT !.status = "travelling", !.at = NextHop(p, answer.dest[1].id)]
    BY DEF SendAnswer
  <1>2. message # NoMessage
    BY <1>1 DEF NoMessage
  <1>3. message \in Message /\ via \in Seq(Peers) /\ message.ttl \in 1 .. InitialTtl
    BY <1>0, <1>2, MessageFields
  <1>4. Len(d) = len /\ d \in Seq(Entry) /\ \A i \in 1 .. len : d[i] = Node(via[len - i + 1])
    BY <1>3, AnswerList
  <1>5. /\ via # <<>> /\ via[1] = origin /\ message.ttl + len = InitialTtl + 1
    BY <1>0, <1>1, <1>2 DEF RequestOnItsWay
  <1>6. len \in Nat /\ len >= 1
    BY <1>3, <1>5
  <1>7. /\ \A i \in 1 .. len - 1 : {via[i], via[i + 1]} \in links
        /\ {via[len], p} \in links
    BY <1>0, <1>1, <1>2 DEF WayBack
  <1>8. message'.dest = d /\ message'.ttl = InitialTtl /\ message'.at = NextHop(p, d[1].id)
    BY <1>1, <1>3 DEF NewResponseMessage, Message, d
  <1> HIDE DEF d, via, len
  <1>9. \A i \in 1 .. len : d[i].type = "node" /\ d[i].id = via[len - i + 1]
    BY <1>4 DEF Node
  <1>10. d[1].id = via[len] /\ d[len].id = via[1]
    <2>1. 1 \in 1 .. len /\ len \in 1 .. len /\ len - 1 + 1 = len /\ len - len + 1 = 1
      BY <1>6
    <2> QED BY <1>9, <2>1
  <1>11. NextHop(p, via[len]) = via[len]
    <2>1. PICK a \in Members, b \in Members \cup {joiner} : a # b /\ {via[len], p} = {a, b}
      BY <1>0, <1>7 DEF LinksAreOfMembers
    <2>2. via[len] # p
      BY <2>1
    <2>3. via[len] \in Peers /\ {p, via[len]} = {via[len], p}
      <3>1. len \in 1 .. len
        BY <1>6
      <3> QED BY <1>3, <3>1 DEF len, via
    <2> QED BY <1>7, <2>2, <2>3 DEF NextHop, Linked
  <1>12. ASSUME NEW i \in 1 .. len - 1 PROVE {d[i].id, d[i + 1].id} \in links
    <2>1. i \in 1 .. len /\ i + 1 \in 1 .. len /\ len - i \in 1 .. len - 1
          /\ len - (i + 1) + 1 = len - i
      BY <1>6
    <2>2. d[i].id = via[(len - i) + 1] /\ d[i + 1].id = via[len - i]
      BY <1>9, <2>1
    <2> QED BY <1>7, <2>1, <2>2
  <1>13. InitialTtl >= len
    BY <1>3, <1>5, <1>6, Constants
  <1>14. ASSUME len >= 2 PROVE ~Responsible(d[len - 1].id, origin)
    <2>1. len - 1 \in 1 .. len /\ len - (len - 1) + 1 = 2
      BY <1>6, <1>14
    <2>2. d[len - 1].id = via[2]
      BY <1>9, <2>1
    <2> QED BY <1>1, <1>2, <1>14, <2>2, NotForTheSender DEF via, len
  <1>15. Len(d) = len /\ DOMAIN d = 1 .. len
    BY <1>4
  <1> QED BY <1>5, <1>8, <1>9, <1>10, <1>11, <1>12, <1>13, <1>14, <1>15 DEF Returning

LEMMA AnswerAtARelay ==
  ASSUME IInv, losses = 0, NEW p \in Peers, Travels(p),
         Returning(message.at, message.dest, message.ttl)
  PROVE  /\ Len(message.dest) = 1 => p = origin /\ ForLocal(p)
         /\ Len(message.dest) # 1 =>
              /\ ~ForLocal(p) /\ Len(message.dest) >= 2
              /\ Len(Dest(p)) = Len(message.dest) - 1
              /\ \A k \in 1 .. Len(message.dest) - 1 : Dest(p)[k] = message.dest[k + 1]
  <1>0. TypeOK /\ LinksAreOfMembers /\ MessageHasDest /\ TablesFollowLinks
    BY DEF IInv
  <1> DEFINE dest == message.dest
             st == Stripped(p, dest)
  <1>1. message # NoMessage /\ message.at = p
    BY TravelsIsAMessage
  <1>2. dest \in Seq(Entry) /\ dest # <<>> /\ message.ttl \in 1 .. InitialTtl
    BY <1>0, <1>1, MessageFields DEF MessageHasDest
  <1>3. Dest(p) = st
    BY DEF Dest
  <1>4. PICK i \in 1 .. Len(dest) :
          /\ dest[i] # Node(p) \/ i = Len(dest)
          /\ \A j \in 1 .. i - 1 : dest[j] = Node(p) /\ j # Len(dest)
          /\ st \in Seq(Entry) /\ st # <<>>
          /\ Len(st) = Len(dest) - i + 1
          /\ \A k \in 1 .. Len(dest) - i + 1 : st[k] = dest[i + k - 1]
    <2> HIDE DEF Entry, dest
    <2> QED BY <1>2, StrippedProperties
  <1> HIDE DEF st
  <1>5. Len(dest) \in Nat /\ Len(dest) >= 1 /\ DOMAIN dest = 1 .. Len(dest)
    BY <1>2
  <1>6. \A k \in 1 .. Len(dest) : dest[k] = Node(dest[k].id)
    <2>1. \A k \in 1 .. Len(dest) : dest[k] \in Entry /\ dest[k].type = "node"
      BY <1>2, <1>5 DEF Returning
    <2> QED BY <2>1 DEF Entry, Node
  <1>7. dest[1].id = p /\ dest[Len(dest)].id = origin
    BY <1>1 DEF Returning
  <1>8. CASE Len(dest) = 1
    <2>1. i = 1 /\ Len(st) = 1 /\ st[1] = dest[1]
      BY <1>4, <1>8
    <2>2. p = origin
      BY <1>7, <1>8
    <2>3. Responsible(p, p)
      <3>1. \A n \in Range(rtable[p]) : Value[n] \in Nat
        <4>1. rtable[p] \in Seq(Members)
          BY <1>0 DEF TypeOK
        <4> QED BY <4>1, RangeOfSeq, Constants
      <3>2. Value[p] \in Nat
        BY Constants
      <3> QED BY <3>1, <3>2 DEF Responsible, GetDistance
    <2> QED BY <1>3, <1>7, <1>8, <2>1, <2>2, <2>3 DEF ForLocal
  <1>9. CASE Len(dest) # 1
    <2>0. Len(dest) >= 2 /\ 1 \in 1 .. Len(dest) - 1 /\ 2 \in 1 .. Len(dest)
      <3> HIDE DEF dest
      <3> QED BY <1>5, <1>9
    <2>1. {dest[1].id, dest[2].id} \in links
      <3>1. 1 + 1 = 2
        OBVIOUS
      <3> QED BY <2>0, <3>1 DEF Returning
    <2>2. PICK a \in Members, b \in Members \cup {joiner} :
            a # b /\ {dest[1].id, dest[2].id} = {a, b}
      BY <1>0, <2>1 DEF LinksAreOfMembers
    <2>3. dest[2] # Node(p)
      <3> HIDE DEF dest
      <3>1. dest[2].id # p
        BY <1>7, <2>2
      <3> QED BY <3>1 DEF Node
    <2>4. dest[1] = Node(p)
      BY <1>5, <1>6, <1>7
    <2>5. i = 2
      <3>1. i # 1
        BY <1>4, <1>9, <2>4
      <3>2. ~(2 \in 1 .. i - 1)
        BY <1>4, <2>3
      <3> QED BY <1>5, <3>1, <3>2
    <2>6. Len(st) = Len(dest) - 1 /\ \A k \in 1 .. Len(dest) - 1 : st[k] = dest[k + 1]
      BY <1>4, <1>5, <2>5
    <2>7. message.ttl >= 2
      BY <1>2, <1>5, <2>0 DEF Returning
    <2>8. ~ForLocal(p)
      <3> SUFFICES ASSUME Responsible(p, st[1].id), Len(st) = 1 PROVE FALSE
        BY <1>3, <2>7 DEF ForLocal
      <3>1. Len(dest) = 2
        <4> DEFINE n == Len(dest)
                   m == Len(st)
        <4>1. n \in Nat /\ m = n - 1 /\ m = 1
          BY <1>5, <2>6
        <4> HIDE DEF n, m
        <4>2. n = 2
          BY <4>1
        <4> QED BY <4>2 DEF n
      <3>2. st[1].id = origin
        BY <1>7, <2>6, <3>1
      <3>3. dest[Len(dest) - 1].id = p
        BY <1>7, <3>1
      <3>4. ~Responsible(p, origin)
        BY <3>1, <3>3 DEF Returning
      <3> QED BY <3>2, <3>4
    <2> QED BY <1>3, <1>9, <2>0, <2>6, <2>8
  <1> QED BY <1>8, <1>9

LEMMA AnswerIsForwarded ==
  ASSUME IInv, losses = 0, NEW p \in Peers, ForwardMessage(p),
         Returning(message.at, message.dest, message.ttl)
  PROVE  Returning(message'.at, message'.dest, message'.ttl)
  <1>0. TypeOK /\ LinksAreOfMembers /\ MessageHasDest
    BY DEF IInv
  <1> DEFINE dest == message.dest
             n == Len(message.dest)
             d == Dest(p)
  <1>1. /\ Travels(p) /\ ~ForLocal(p)
        /\ message' = [ToForward(p, message) EXCEPT !.dest = Dest(p), !.at = NextHop(p, d[1].id)]
    BY DEF ForwardMessage
  <1>2. message # NoMessage
    BY <1>1, TravelsIsAMessage
  <1>3. message \in Message /\ dest \in Seq(Entry) /\ message.ttl \in 1 .. InitialTtl
    BY <1>0, <1>2, MessageFields
  <1>4. n >= 2 /\ Len(d) = n - 1 /\ \A k \in 1 .. n - 1 : d[k] = dest[k + 1]
    BY <1>1, AnswerAtARelay
  <1>5. n \in Nat /\ d \in Seq(Entry)
    BY <1>0, <1>2, <1>3, DestType
  <1>6. message'.dest = d /\ message'.at = NextHop(p, d[1].id) /\ message'.ttl = message.ttl - 1
    BY <1>1, <1>3 DEF Message, ToForward
  <1>7. /\ \A i \in 1 .. n : dest[i].type = "node"
        /\ dest[1].id = p /\ dest[n].id = origin
        /\ \A i \in 1 .. n - 1 : {dest[i].id, dest[i + 1].id} \in links
        /\ message.ttl >= n
        /\ ~Responsible(dest[n - 1].id, origin)
    <2>1. message.at = p
      BY <1>1, TravelsIsAMessage
    <2>2. DOMAIN dest = 1 .. n
      BY <1>3
    <2> QED BY <1>4, <2>1, <2>2 DEF Returning
  <1> HIDE DEF d, n, dest
  <1>8. d[1] = dest[2] /\ d[n - 1] = dest[n]
    <2>1. 1 \in 1 .. n - 1 /\ n - 1 \in 1 .. n - 1 /\ 1 + 1 = 2 /\ (n - 1) + 1 = n
      BY <1>4, <1>5
    <2> QED BY <1>4, <2>1
  <1>9. NextHop(p, d[1].id) = d[1].id
    <2>1. {p, d[1].id} \in links
      <3>1. 1 \in 1 .. n - 1 /\ 1 + 1 = 2
        BY <1>4, <1>5
      <3> QED BY <1>7, <1>8, <3>1
    <2>2. PICK a \in Members, b \in Members \cup {joiner} : a # b /\ {p, d[1].id} = {a, b}
      BY <1>0, <2>1 DEF LinksAreOfMembers
    <2>3. d[1].id \in Peers /\ d[1].id # p
      <3>1. Members \cup {joiner} \subseteq Peers
        BY <1>0, Constants DEF TypeOK
      <3>2. d[1].id \in {a, b}
        BY <2>2
      <3> QED BY <2>2, <3>1, <3>2
    <2> QED BY <2>1, <2>3 DEF NextHop, Linked
  <1>10. \A i \in 1 .. n - 1 : d[i].type = "node"
    BY <1>4, <1>5, <1>7
  <1>11. ASSUME NEW i \in 1 .. (n - 1) - 1 PROVE {d[i].id, d[i + 1].id} \in links
    <2>1. i \in 1 .. n - 1 /\ i + 1 \in 1 .. n - 1
      BY <1>5
    <2> QED BY <1>4, <1>7, <2>1
  <1>12. message.ttl - 1 >= n - 1
    BY <1>3, <1>5, <1>7
  <1>13. ASSUME n - 1 >= 2 PROVE ~Responsible(d[(n - 1) - 1].id, origin)
    <2>1. (n - 1) - 1 \in 1 .. n - 1 /\ ((n - 1) - 1) + 1 = n - 1
      BY <1>5, <1>13
    <2>2. d[(n - 1) - 1] = dest[n - 1]
      BY <1>4, <2>1
    <2> QED BY <1>7, <2>2
  <1>14. DOMAIN d = 1 .. n - 1 /\ Len(d) = n - 1
    BY <1>4, <1>5
  <1> QED BY <1>6, <1>7, <1>8, <1>9, <1>10, <1>11, <1>12, <1>13, <1>14 DEF Returning

LEMMA AnswerStep ==
  ASSUME IInv, AnswerOnItsWay, NothingBetween, [Next]_vars
  PROVE  AnswerOnItsWay'
  <1> SUFFICES ASSUME losses' = 0, (message # NoMessage)', message'.kind = "answer"
               PROVE  /\ message'.status = "taken" => message'.at = origin'
                      /\ message'.status = "travelling" =>
                           Returning(message.at, message.dest, message.ttl)'
    BY DEF AnswerOnItsWay
  <1>0. TypeOK
    BY DEF IInv
  <1>1. CASE JoiningAttach \/ \E p, n \in Members : NeighborAttach(p, n)
    <2>1. message'.kind = "request"
      BY <1>1 DEF JoiningAttach, NeighborAttach, Request
    <2> QED BY <2>1
  <1>2. ASSUME NEW p \in Peers, NEW q \in Peers, LoseConnection(p, q) PROVE FALSE
    BY <1>0, <1>2, LoseTables DEF IInv
  <1>3. ASSUME NEW p \in Peers, Take(p) \/ Drop(p)
        PROVE  /\ message'.status = "taken" => message'.at = origin'
               /\ message'.status = "travelling" =>
                    Returning(message.at, message.dest, message.ttl)'
    <2>1. Travels(p) /\ losses' = losses /\ origin' = origin
      BY <1>3 DEF Take, Drop, tables
    <2>2. message # NoMessage /\ message.at = p /\ message.status = "travelling"
      BY <2>1, TravelsIsAMessage
    <2>3. message \in Message
      BY <1>0, <2>2, MessageFields
    <2>4. PICK s \in {"taken", "dropped"} :
            /\ message' = [message EXCEPT !.dest = Dest(p), !.status = s]
            /\ s = "taken" => Take(p)
      BY <1>3 DEF Take, Drop
    <2>5. /\ message'.kind = message.kind /\ message'.at = message.at /\ message'.status = s
      BY <2>3, <2>4 DEF Message
    <2>6. Returning(message.at, message.dest, message.ttl)
      BY <2>1, <2>2, <2>5 DEF AnswerOnItsWay
    <2>7. ASSUME s = "taken" PROVE p = origin
      <3>1. ForLocal(p)
        BY <2>4, <2>7 DEF Take
      <3> QED BY <2>1, <2>6, <3>1, AnswerAtARelay
    <2> QED BY <2>1, <2>2, <2>5, <2>7
  <1>4. ASSUME NEW p \in Peers, ForwardMessage(p)
        PROVE  /\ message'.status = "taken" => message'.at = origin'
               /\ message'.status = "travelling" =>
                    Returning(message.at, message.dest, message.ttl)'
    <2>1. Travels(p) /\ losses' = losses /\ origin' = origin /\ links' = links /\ rtable' = rtable
      BY <1>4 DEF ForwardMessage, tables
    <2>2. message # NoMessage /\ message.at = p /\ message.status = "travelling"
      BY <2>1, TravelsIsAMessage
    <2>3. message \in Message
      BY <1>0, <2>2, MessageFields
    <2>4. message'.kind = message.kind /\ message'.status = "travelling"
      BY <1>4, <2>2, <2>3 DEF ForwardMessage, ToForward, Message
    <2>5. Returning(message.at, message.dest, message.ttl)
      BY <2>1, <2>2, <2>4 DEF AnswerOnItsWay
    <2>6. Returning(message'.at, message'.dest, message'.ttl)
      BY <1>4, <2>1, <2>5, AnswerIsForwarded
    <2>7. Returning(message.at, message.dest, message.ttl)'
      BY <2>1, <2>6 DEF Returning, Responsible
    <2> QED BY <2>4, <2>7
  <1>5. ASSUME NEW p \in Peers, SendAnswer(p)
        PROVE  /\ message'.status = "taken" => message'.at = origin'
               /\ message'.status = "travelling" =>
                    Returning(message.at, message.dest, message.ttl)'
    <2>1. losses' = losses /\ origin' = origin /\ links' = links /\ rtable' = rtable
          /\ message.kind = "request"
      BY <1>5 DEF SendAnswer, tables
    <2>2. message \in Message
      BY <1>0, <2>1 DEF TypeOK, NoMessage
    <2>3. message'.status = "travelling"
      BY <1>5, <2>2 DEF SendAnswer, NewResponseMessage, Message
    <2>4. Returning(message'.at, message'.dest, message'.ttl)
      BY <1>5, <2>1, AnswerSetsOut
    <2>5. Returning(message.at, message.dest, message.ttl)'
      BY <2>1, <2>4 DEF Returning, Responsible
    <2> QED BY <2>3, <2>5
  <1>6. CASE UNCHANGED vars
    <2>1. /\ links' = links /\ rtable' = rtable /\ losses' = losses
          /\ message' = message /\ origin' = origin
      BY <1>6 DEF vars
    <2>2. message # NoMessage
      BY <2>1
    <2> QED BY <2>1, <2>2 DEF AnswerOnItsWay, Returning, Responsible
  <1> QED BY <1>1, <1>2, <1>3, <1>4, <1>5, <1>6 DEF Next, Step

\* While no connection is lost an answer is taken by who asked, in any
\* connected overlay in which no two members are on two sides of a joiner
\* and nearer to each other's half-way point than the joiner's id is to the
\* next (AnswerRetracesRequest).
THEOREM AnswersReturn ==
  ASSUME NothingBetween
  PROVE  Spec => []AnswerRetracesRequest
  <1>1. Init => AnswerOnItsWay
    BY DEF Init, AnswerOnItsWay
  <1>2. IInv /\ AnswerOnItsWay /\ [Next]_vars => AnswerOnItsWay'
    BY AnswerStep
  <1>3. IInv /\ AnswerOnItsWay => AnswerRetracesRequest
    <2> SUFFICES ASSUME IInv, AnswerOnItsWay, message.status = "taken", message.kind = "answer"
                 PROVE  message.at = origin \/ losses > 0
      BY DEF AnswerRetracesRequest
    <2>1. message # NoMessage
      BY DEF NoMessage
    <2>2. losses \in Nat
      BY Constants DEF IInv, TypeOK
    <2> QED BY <2>1, <2>2 DEF AnswerOnItsWay
  <1> QED BY <1>1, <1>2, <1>3, Invariance, PTL DEF Spec

-----------------------------------------------------------------------------
(* The joining request.                                                    *)

EnoughForAHop == CACHE_SIZE >= Cardinality(Members) - 1 /\ InitialTtl >= 2

\* A clockwise way that passes v is the sum of its two parts.
LEMMA ClockwiseOverV ==
  ASSUME NEW R \in Nat, NEW v \in 1 .. R - 1, NEW x \in 1 .. R - 1, NEW y \in 1 .. R - 1,
         v # x, v # y, x # y
  PROVE  /\ ElementOfInterval(v, x, y, FALSE)
              => Clockwise(x, y, R) = Clockwise(x, v, R) + Clockwise(v, y, R)
         /\ Clockwise(v, y, R) <= Clockwise(v, x, R) => ElementOfInterval(v, x, y, FALSE)
  BY DEF Clockwise, ElementOfInterval

LEMMA ClockwiseIsDistinct ==
  ASSUME NEW R \in Nat, NEW v \in 1 .. R - 1, NEW x \in 1 .. R - 1, NEW y \in 1 .. R - 1,
         Clockwise(v, x, R) = Clockwise(v, y, R)
  PROVE  x = y
  BY DEF Clockwise

LEMMA NextMemberProperties ==
  ASSUME NEW id \in DOMAIN Value, Members # {}
  PROVE  /\ NextMember(id) \in Members
         /\ \A q \in Members : Clockwise(Value[id], Value[NextMember(id)], RingSize)
                                 <= Clockwise(Value[id], Value[q], RingSize)
  <1> DEFINE C(p) == Clockwise(Value[id], Value[p], RingSize)
             Least(p) == \A q \in Members : C(p) <= C(q)
             S == {C(p) : p \in Members}
  <1>1. \A p \in Members : C(p) \in Nat
    BY Constants DEF Clockwise
  <1>2. S \in SUBSET Nat /\ S # {}
    <2> HIDE DEF C
    <2> QED BY <1>1
  <1>3. PICK x \in S : \A y \in S : x <= y
    <2> HIDE DEF S
    <2> QED BY <1>2, LeastNatural
  <1>4. \E p \in Members : Least(p)
    <2> HIDE DEF C
    <2> QED BY <1>3
  <1>5. NextMember(id) = CHOOSE p \in Members : Least(p)
    BY DEF NextMember
  <1>6. NextMember(id) \in Members /\ Least(NextMember(id))
    <2> HIDE DEF Least
    <2> QED BY <1>4, <1>5
  <1> QED BY <1>6

\* In a full mesh with large caches everyone else is in the successor list.
LEMMA AllAreSuccessors ==
  ASSUME EnoughForAHop, NEW p \in Members, Range(rtable[p]) = Members \ {p}
  PROVE  Successors(p) = Members \ {p}
  <1> DEFINE S == Members \ {p}
             Before(x) == {y \in S : Ahead(p)[y] < Ahead(p)[x]}
  <1>1. IsFiniteSet(Members)
    BY JourneyAssumption DEF JourneyAssumption
  <1>2. IsFiniteSet(S) /\ Cardinality(S) = Cardinality(Members) - 1
    <2>1. IsFiniteSet(S) /\ Cardinality(S) = IF p \in Members THEN Cardinality(Members) - 1
                                              ELSE Cardinality(Members)
      BY <1>1, FS_RemoveElement
    <2> QED BY <2>1
  <1>3. ASSUME NEW x \in S PROVE Cardinality(Before(x)) < CACHE_SIZE
    <2>1. Before(x) \in SUBSET S /\ x \notin Before(x)
      <3>1. Ahead(p)[x] \in Nat
        BY AheadIsNat, Constants
      <3> QED BY <3>1
    <2> HIDE DEF Before, S
    <2>2. /\ IsFiniteSet(Before(x)) /\ Cardinality(Before(x)) <= Cardinality(S)
          /\ Cardinality(S) = Cardinality(Before(x)) => S = Before(x)
      BY <1>2, <2>1, FS_Subset
    <2>3. Cardinality(Before(x)) \in Nat /\ Cardinality(S) \in Nat /\ CACHE_SIZE \in Nat
          /\ Cardinality(Members) \in Nat
      BY <1>1, <1>2, <2>2, FS_CardinalityType, Constants
    <2>4. Cardinality(S) # Cardinality(Before(x))
      BY <2>1, <2>2
    <2> QED BY <1>2, <2>2, <2>3, <2>4 DEF EnoughForAHop
  <1>4. Successors(p) = {x \in S : Cardinality(Before(x)) < CACHE_SIZE}
    BY DEF Successors, Nearest
  <1> HIDE DEF Before
  <1> QED BY <1>3, <1>4

\* The hop from a member that is not the nearest is to the next one.
LEMMA HopToTheNext ==
  ASSUME EnoughForAHop, NEW p \in Members, NEW id \in DOMAIN Value, id \notin Linked(p),
         Range(rtable[p]) = Members \ {p}, Members \ {p} \subseteq Linked(p),
         NextMember(id) # p, id # p
  PROVE  NextHop(p, id) = NextMember(id)
  <1> DEFINE s == NextMember(id)
             B == Beyond(p, id)
             v == Value[id]
             x == Value[p]
             y == Value[s]
             R == RingSize
             Least(n) == \A m \in B : Ahead(p)[n] <= Ahead(p)[m]
  <1>1. s \in Members /\ \A q \in Members : Clockwise(v, y, R) <= Clockwise(v, Value[q], R)
    BY NextMemberProperties
  <1>2. Successors(p) = Members \ {p}
    BY AllAreSuccessors
  <1>3. B = {n \in Members \ {p} : ElementOfInterval(v, x, Value[n], FALSE)}
    BY <1>2 DEF Beyond
  <1> HIDE DEF s, B
  <1>4. \A n \in Members : n \in Peers /\ n \in DOMAIN Value
    BY Constants
  <1>5. /\ R \in Nat /\ v \in 1 .. R - 1 /\ \A n \in Members : Value[n] \in 1 .. R - 1
    BY <1>4, Constants
  <1>6. s # p /\ s # id
    BY <1>1 DEF s
  <1>7. \A n \in Members \ {p} : id # n /\ Value[n] # v /\ Value[n] # x /\ v # x
    BY <1>4, DistinctValues DEF DistinctValues
  <1>8. s \in B
    <2>1. ElementOfInterval(v, x, y, FALSE)
      <3>1. v # x /\ v # y /\ x # y /\ x \in 1 .. R - 1 /\ y \in 1 .. R - 1
        BY <1>1, <1>5, <1>6, <1>7
      <3>2. Clockwise(v, y, R) <= Clockwise(v, x, R)
        BY <1>1
      <3> HIDE DEF v, x, y, R
      <3> QED BY <1>5, <3>1, <3>2, ClockwiseOverV
    <2> QED BY <1>1, <1>3, <1>6, <2>1
  <1>9. ASSUME NEW n \in B, n # s PROVE Ahead(p)[s] < Ahead(p)[n]
    <2> DEFINE z == Value[n]
    <2>1. n \in Members \ {p} /\ s \in Members \ {p} /\ p \in Peers
      BY <1>1, <1>3, <1>4, <1>6
    <2>2. /\ Ahead(p)[s] = Clockwise(x, y, R) /\ Ahead(p)[n] = Clockwise(x, z, R)
      BY <2>1, AheadIsNat
    <2>3. Clockwise(v, y, R) <= Clockwise(v, z, R)
      BY <1>1, <2>1
    <2>4. y # z
      BY <1>4, <1>9, <2>1, DistinctValues DEF DistinctValues
    <2>5. /\ v # x /\ v # y /\ x # y /\ v # z /\ x # z
          /\ x \in 1 .. R - 1 /\ y \in 1 .. R - 1 /\ z \in 1 .. R - 1
      BY <1>5, <1>7, <2>1
    <2>6. ElementOfInterval(v, x, y, FALSE) /\ ElementOfInterval(v, x, z, FALSE)
      BY <1>3, <1>8, <1>9
    <2> HIDE DEF v, x, y, z, R
    <2>7. Clockwise(v, y, R) # Clockwise(v, z, R)
      BY <1>5, <2>4, <2>5, ClockwiseIsDistinct
    <2>8. /\ Clockwise(x, y, R) = Clockwise(x, v, R) + Clockwise(v, y, R)
          /\ Clockwise(x, z, R) = Clockwise(x, v, R) + Clockwise(v, z, R)
      BY <1>5, <2>5, <2>6, ClockwiseOverV
    <2>9. /\ Clockwise(x, v, R) \in Int /\ Clockwise(v, y, R) \in Int /\ Clockwise(v, z, R) \in Int
      BY <1>5, <2>5 DEF Clockwise
    <2> QED BY <2>2, <2>3, <2>7, <2>8, <2>9
  <1>10. NextHop(p, id) = CHOOSE n \in B : Least(n)
    BY <1>8 DEF NextHop, B
  <1>11. \A n \in B : Ahead(p)[n] \in Nat
    BY <1>3, <1>4, AheadIsNat
  <1>12. Least(s)
    <2> SUFFICES ASSUME NEW m \in B PROVE Ahead(p)[s] <= Ahead(p)[m]
      OBVIOUS
    <2>1. Ahead(p)[s] \in Nat /\ Ahead(p)[m] \in Nat
      BY <1>8, <1>11
    <2>2. m = s \/ Ahead(p)[s] < Ahead(p)[m]
      BY <1>9
    <2> QED BY <2>1, <2>2
  <1>13. \A n \in B : Least(n) => n = s
    BY <1>8, <1>9, <1>11
  <1> HIDE DEF Least
  <1> QED BY <1>8, <1>10, <1>12, <1>13 DEF s

\* The nearest member is the only one that finds itself responsible.
LEMMA NearestIsResponsible ==
  ASSUME NEW p \in Members, NEW id \in DOMAIN Value, Range(rtable[p]) = Members \ {p}
  PROVE  p \in NearestMembers(id) <=> Responsible(p, id)
  <1>1. \A n \in Members : Value[n] \in Nat
    BY Constants
  <1>2. Value[id] \in Nat
    BY Constants
  <1>3. \A n \in Members : GetDistance(Value[n], Value[id]) = GetDistance(Value[id], Value[n])
                           /\ GetDistance(Value[n], Value[id]) \in Nat
    BY <1>1, <1>2 DEF GetDistance
  <1>4. Responsible(p, id) <=> \A n \in Members \ {p} :
          GetDistance(Value[n], Value[id]) >= GetDistance(Value[id], Value[p])
    BY DEF Responsible
  <1>5. p \in NearestMembers(id) <=> \A n \in Members :
          GetDistance(Value[p], Value[id]) <= GetDistance(Value[n], Value[id])
    BY DEF NearestMembers
  <1> QED BY <1>3, <1>4, <1>5

LEMMA MeshedTables ==
  ASSUME IInv, Meshed, NEW p \in Members
  PROVE  Range(rtable[p]) = Members \ {p} /\ Members \ {p} \subseteq Linked(p)
  <1>1. Range(rtable[p]) = Linked(p) \cap Members
    BY DEF IInv, TablesFollowLinks
  <1>2. ASSUME NEW q \in Members \ {p} PROVE q \in Linked(p)
    <2>1. {p, q} \in Pairs(Members)
      BY DEF Pairs
    <2> QED BY <2>1, Constants DEF Meshed, Linked
  <1>3. p \notin Linked(p)
    BY DEF Linked
  <1> QED BY <1>1, <1>2, <1>3

\* What a joiner asks for is nobody's id if the next member is the nearest.
LEMMA TargetIsNoMember ==
  ASSUME IInv, NEW id, id = Increment[joiner], NextMember(id) \in NearestMembers(id),
         NEW p \in Members, p # NextMember(id)
  PROVE  id # p /\ id \notin Linked(p) /\ id \in DOMAIN Value
  <1> DEFINE s == NextMember(id)
  <1>0. TypeOK /\ LinksAreOfMembers
    BY DEF IInv
  <1>1. joiner \in Joiners /\ id \in DOMAIN Value /\ id # joiner
    BY <1>0, Constants DEF TypeOK
  <1>2. /\ s \in Members
        /\ \A q \in Members : Clockwise(Value[id], Value[s], RingSize)
                                <= Clockwise(Value[id], Value[q], RingSize)
    BY <1>1, NextMemberProperties
  <1> HIDE DEF s
  <1>3. id \notin Members
    <2> SUFFICES ASSUME id \in Members PROVE FALSE
      OBVIOUS
    <2>1. Value[id] \in 1 .. RingSize - 1 /\ Value[s] \in 1 .. RingSize - 1
          /\ Value[p] \in 1 .. RingSize - 1 /\ RingSize \in Nat
          /\ s \in DOMAIN Value /\ p \in DOMAIN Value
      BY <1>1, <1>2, Constants
    <2>2. GetDistance(Value[s], Value[id]) <= GetDistance(Value[id], Value[id])
      BY <1>2 DEF NearestMembers, s
    <2>3. Value[s] = Value[id]
      BY <2>1, <2>2 DEF GetDistance
    <2>4. s = id
      BY <1>1, <2>1, <2>3, DistinctValues DEF DistinctValues
    <2>5. Value[p] # Value[id]
      BY <1>1, <2>1, <2>4, DistinctValues DEF DistinctValues, s
    <2>6. Clockwise(Value[id], Value[s], RingSize) <= Clockwise(Value[id], Value[p], RingSize)
      BY <1>2
    <2> QED BY <2>1, <2>3, <2>5, <2>6 DEF Clockwise
  <1>4. id \notin Linked(p)
    <2> SUFFICES ASSUME {p, id} \in links PROVE FALSE
      BY DEF Linked
    <2>1. PICK a \in Members, b \in Members \cup {joiner} : {p, id} = {a, b}
      BY <1>0 DEF LinksAreOfMembers
    <2> QED BY <1>1, <1>3, <2>1
  <1> QED BY <1>1, <1>3, <1>4

LEMMA JoiningStep ==
  ASSUME IInv, JoiningOnItsWay, EnoughForAHop, NoneHalfway, [Next]_vars
  PROVE  JoiningOnItsWay'
  <1> DEFINE OnItsWay(id, m) == \/ Len(m.via) = 1 /\ m.status = "travelling"
                                \/ Len(m.via) <= 2 /\ m.at = NextMember(id)
  <1> SUFFICES ASSUME message' # NoMessage, message'.kind = "request", origin' = joiner',
                      message'.status # "dropped", Meshed',
                      NEW id, id = Increment[joiner'], NextMember(id) \in NearestMembers(id)
               PROVE  OnItsWay(id, message')
    BY DEF JoiningOnItsWay
  <1> HIDE DEF OnItsWay
  <1>0. TypeOK /\ MessageHasDest /\ RequestOnItsWay /\ LinksAreOfMembers
    BY DEF IInv
  <1>1. CASE JoiningAttach \/ \E p, n \in Members : NeighborAttach(p, n)
    <2>1. message'.status = "travelling" /\ Len(message'.via) = 1
      <3>1. PICK p, hop, dest : Request(p, hop, dest)
        BY <1>1 DEF JoiningAttach, NeighborAttach
      <3> QED BY <3>1 DEF Request
    <2> QED BY <2>1 DEF OnItsWay
  <1>a. ASSUME message # NoMessage, message.kind = "request", origin = joiner, joiner' = joiner,
               message.status # "dropped", Meshed
        PROVE  OnItsWay(id, message)
    BY <1>a DEF JoiningOnItsWay, OnItsWay
  <1>2. ASSUME NEW p \in Peers, NEW q \in Peers, LoseConnection(p, q) PROVE OnItsWay(id, message')
    <2>1. links' \subseteq links /\ joiner' = joiner /\ origin' = origin
      BY <1>2 DEF LoseConnection
    <2>2. message' = message
      <3> SUFFICES ASSUME message # NoMessage, message' = [message EXCEPT !.status = "dropped"]
                   PROVE  FALSE
        BY <1>2 DEF LoseConnection
      <3>1. message \in Message
        BY <1>0, MessageFields
      <3> QED BY <3>1 DEF Message
    <2>3. Meshed
      BY <2>1 DEF Meshed
    <2> QED BY <1>a, <2>1, <2>2, <2>3
  <1>b. ASSUME NEW p \in Peers, Travels(p), message.kind = "request", joiner' = joiner,
               origin = joiner, Meshed
        PROVE  /\ p \in Members /\ Dest(p) = <<Resource(id)>> /\ OnItsWay(id, message)
               /\ message.at = p /\ message \in Message /\ message.via \in Seq(Peers)
               /\ ForLocal(p) /\ Len(message.via) = 1 => p = NextMember(id)
               /\ p = NextMember(id) => ForLocal(p)
    <2>1. message # NoMessage /\ message.at = p /\ message.status = "travelling"
      BY <1>b, TravelsIsAMessage
    <2>2. p \in Members
      BY <1>0, <1>b, <2>1 DEF RequestOnItsWay
    <2>3. \E n \in Target : Dest(p) = <<Resource(n)>>
      BY <1>0, <1>b, <2>1, DestOfRequest
    <2>4. Target = {id}
      BY <1>b DEF Target
    <2>5. Dest(p) = <<Resource(id)>>
      BY <2>3, <2>4
    <2>6. Dest(p)[1].id = id /\ Len(Dest(p)) = 1
      BY <2>5 DEF Resource
    <2>7. OnItsWay(id, message)
      BY <1>a, <1>b, <2>1
    <2>8. message \in Message /\ message.via \in Seq(Peers) /\ message.ttl \in 1 .. InitialTtl
      BY <1>0, <2>1, MessageFields
    <2>9. Range(rtable[p]) = Members \ {p}
      BY <1>b, <2>2, MeshedTables
    <2>10. joiner \in Joiners /\ id \in DOMAIN Value
      BY <1>0, <1>b, Constants DEF TypeOK
    <2>11. p \in NearestMembers(id) <=> Responsible(p, id)
      BY <2>2, <2>9, <2>10, NearestIsResponsible
    <2>12. ASSUME ForLocal(p), Len(message.via) = 1 PROVE p = NextMember(id)
      <3>1. message.ttl + Len(message.via) = InitialTtl + 1
        BY <1>0, <1>b, <2>1 DEF RequestOnItsWay
      <3>2. message.ttl # 1
        BY <2>8, <2>12, <3>1, Constants DEF EnoughForAHop
      <3>3. p \in NearestMembers(id)
        BY <2>6, <2>11, <2>12, <3>2 DEF ForLocal
      <3>4. NextMember(id) \in Members
        BY DEF NearestMembers
      <3>5. /\ GetDistance(Value[p], Value[id]) <= GetDistance(Value[NextMember(id)], Value[id])
            /\ GetDistance(Value[NextMember(id)], Value[id]) <= GetDistance(Value[p], Value[id])
        BY <2>2, <3>3, <3>4 DEF NearestMembers
      <3>6. /\ Value[p] \in Int /\ Value[id] \in Int /\ Value[NextMember(id)] \in Int
        BY <2>2, <2>10, <3>4, Constants
      <3>7. GetDistance(Value[p], Value[id]) = GetDistance(Value[NextMember(id)], Value[id])
        BY <3>5, <3>6 DEF GetDistance
      <3> QED BY <1>b, <2>2, <2>10, <3>4, <3>7 DEF NoneHalfway
    <2>13. ASSUME p = NextMember(id) PROVE ForLocal(p)
      BY <2>6, <2>11, <2>13 DEF ForLocal
    <2> QED BY <2>1, <2>2, <2>5, <2>7, <2>8, <2>12, <2>13
  <1>3. ASSUME NEW p \in Peers, Take(p) \/ Drop(p) PROVE OnItsWay(id, message')
    <2>1. Travels(p) /\ links' = links /\ joiner' = joiner /\ origin' = origin
      BY <1>3 DEF Take, Drop, tables
    <2>2. message # NoMessage /\ message.at = p /\ message.status = "travelling"
      BY <2>1, TravelsIsAMessage
    <2>3. message \in Message
      BY <1>0, <2>2, MessageFields
    <2>4. Take(p)
      <3> SUFFICES ASSUME Drop(p) PROVE FALSE
        BY <1>3
      <3>1. message' = [message EXCEPT !.dest = Dest(p), !.status = "dropped"]
        BY DEF Drop
      <3> QED BY <2>3, <3>1 DEF Message
    <2>5. ForLocal(p) /\ message' = [message EXCEPT !.dest = Dest(p), !.status = "taken"]
      BY <2>4 DEF Take
    <2>6. /\ message'.kind = message.kind /\ message'.at = p /\ message'.via = message.via
      BY <2>2, <2>3, <2>5 DEF Message
    <2>7. Meshed
      BY <2>1 DEF Meshed
    <2>8. OnItsWay(id, message) /\ (Len(message.via) = 1 => p = NextMember(id))
      BY <1>b, <2>1, <2>5, <2>6, <2>7
    <2>9. Len(message.via) = 1 => Len(message.via) <= 2 /\ p = NextMember(id)
      BY <2>8
    <2>10. Len(message.via) <= 2 /\ p = NextMember(id)
      BY <2>2, <2>8, <2>9 DEF OnItsWay
    <2> QED BY <2>6, <2>10 DEF OnItsWay
  <1>4. ASSUME NEW p \in Peers, ForwardMessage(p) PROVE OnItsWay(id, message')
    <2> DEFINE hop == NextHop(p, Dest(p)[1].id)
    <2>1. /\ Travels(p) /\ ~ForLocal(p)
          /\ links' = links /\ joiner' = joiner /\ origin' = origin
          /\ message' = [ToForward(p, message) EXCEPT !.dest = Dest(p), !.at = hop]
      BY <1>4 DEF ForwardMessage, tables
    <2>2. message # NoMessage /\ message.at = p /\ message.status = "travelling"
      BY <2>1, TravelsIsAMessage
    <2>3. message \in Message
      BY <1>0, <2>2, MessageFields
    <2>4. message'.kind = message.kind /\ message'.at = hop /\ message'.via = Append(message.via, p)
      BY <2>1, <2>3 DEF Message, ToForward
    <2>5. Meshed
      BY <2>1 DEF Meshed
    <2>6. /\ p \in Members /\ Dest(p) = <<Resource(id)>> /\ OnItsWay(id, message)
          /\ message.via \in Seq(Peers) /\ p # NextMember(id)
      BY <1>b, <2>1, <2>4, <2>5
    <2>7. Len(message.via) = 1
      BY <2>2, <2>6 DEF OnItsWay
    <2>8. Len(message'.via) = 2
      BY <2>4, <2>6, <2>7
    <2>9. hop = NextHop(p, id)
      BY <2>6 DEF Resource
    <2>10. id # p /\ id \notin Linked(p) /\ id \in DOMAIN Value
      BY <2>1, <2>6, TargetIsNoMember
    <2>11. Range(rtable[p]) = Members \ {p} /\ Members \ {p} \subseteq Linked(p)
      BY <2>5, <2>6, MeshedTables
    <2>12. NextHop(p, id) = NextMember(id)
      BY <2>6, <2>10, <2>11, HopToTheNext
    <2> HIDE DEF hop
    <2> QED BY <2>4, <2>8, <2>9, <2>12 DEF OnItsWay
  <1>5. ASSUME NEW p \in Peers, SendAnswer(p) PROVE FALSE
    <2>1. message \in Message
      BY <1>0, <1>5 DEF SendAnswer, TypeOK, NoMessage
    <2>2. message'.kind = "answer"
      BY <1>5, <2>1 DEF SendAnswer, NewResponseMessage, Message
    <2> QED BY <2>2
  <1>6. CASE UNCHANGED vars
    <2>1. links' = links /\ joiner' = joiner /\ message' = message /\ origin' = origin
      BY <1>6 DEF vars
    <2>2. Meshed
      BY <2>1 DEF Meshed
    <2> QED BY <1>a, <2>1, <2>2
  <1> QED BY <1>1, <1>2, <1>3, <1>4, <1>5, <1>6 DEF Next, Step

\* A joining request reaches the member that comes next clockwise by at most
\* one relay, when every member knows all others, caches that many and the
\* next member is the only nearest one (SuccessorIsFound).
THEOREM JoinerFindsItsSuccessor ==
  ASSUME EnoughForAHop, NoneHalfway
  PROVE  Spec => []SuccessorIsFound
  <1>1. Init => JoiningOnItsWay
    BY DEF Init, JoiningOnItsWay
  <1>2. IInv /\ JoiningOnItsWay /\ [Next]_vars => JoiningOnItsWay'
    BY JoiningStep
  <1>3. JoiningOnItsWay => SuccessorIsFound
    <2> SUFFICES ASSUME JoiningOnItsWay, NEW id, id = Increment[joiner], RequestTaken,
                        origin = joiner, Meshed, NextMember(id) \in NearestMembers(id)
                 PROVE  message.at = NextMember(id) /\ Len(message.via) <= 2
      BY DEF SuccessorIsFound
    <2>1. message # NoMessage
      BY DEF NoMessage, RequestTaken
    <2> QED BY <2>1 DEF JoiningOnItsWay, RequestTaken
  <1> QED BY <1>1, <1>2, <1>3, Invariance, PTL DEF Spec
=============================================================================
