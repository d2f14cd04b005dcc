---------------------------- MODULE BootstrapProofs ----------------------------
(***************************************************************************)
(* Proofs about Bootstrap, for any peers, overlays, files and command      *)
(* lines, any ids of hexadecimal digits, and any number of attempts, of    *)
(* cached peers and of lives.                                              *)
(***************************************************************************)
EXTENDS Bootstrap, ProofLemmas

Digit == 0 .. 15

\* Without a process nothing is connected and nothing is tried.
NothingWithoutProcess == ~up => list = <<>> /\ connections = {}

\* What the cache has in memory is what is saved for the overlay.
CacheIsSaved == up => cache = file[overlay]

\* What is about to be unlinked is what this start was to erase.
ErasingIsAsked == erasing \in {NoName, erase}

\* The peer has joined through the first connection, and through no other.
JoinsOnce ==
  IF isConnected
  THEN up /\ Len(attaches) = 1 /\ attaches[1].resource = AddNodeID(nodeID)
  ELSE attaches = <<>> /\ \A i \in DOMAIN list : phase[i] # "connected"

\* The connections of a first attempt that have not been told to close.
Kept(phases, tests, closing) ==
  {i \in DOMAIN phases \ closing : phases[i] = "connected" /\ tests[i] = 1}

OneIsKept == \A i, j \in Kept(phase, test, told) : i = j

IInv ==
  /\ TypeOK /\ NothingWithoutProcess /\ CacheIsSaved /\ ErasingIsAsked
  /\ JoinsOnce /\ OneIsKept /\ ListBelongsToTheOverlay

-----------------------------------------------------------------------------
(* The id after one's own.                                                 *)

LEMMA AddNodeIDProperties ==
  ASSUME NEW id \in Seq(Digit)
  PROVE  /\ AddNodeID(id) \in Seq(Digit) /\ Len(AddNodeID(id)) = Len(id)
         /\ DOMAIN AddNodeID(id) = DOMAIN id
  <1>1. \A i \in DOMAIN id : id[i] \in Digit
    OBVIOUS
  <1>2. \A d \in Digit : (d + 1) % 16 \in Digit
    BY DEF Digit
  <1>3. AddNodeID(id) \in [DOMAIN id -> Digit]
    BY <1>1, <1>2 DEF AddNodeID
  <1> QED BY <1>3, PlaceByPlace

\* A digit counts in the number as its place says.
LEMMA NumberByPlaces ==
  ASSUME NEW id \in Seq(Digit)
  PROVE  \E upTo \in [0 .. Len(id) -> Nat] :
           /\ upTo[0] = 0
           /\ \A k \in 1 .. Len(id) : upTo[k] = 16 * upTo[k - 1] + id[k]
           /\ NumberOf(id) = upTo[Len(id)]
  <1> DEFINE IsUpTo(f, n) == f = [k \in 0 .. n |-> IF k = 0 THEN 0 ELSE 16 * f[k - 1] + id[k]]
             S == {n \in Nat : n <= Len(id) =>
                     \E f : IsUpTo(f, n) /\ \A k \in 0 .. n : f[k] \in Nat}
  <1>0. Len(id) \in Nat /\ \A k \in 1 .. Len(id) : id[k] \in Nat
    BY DEF Digit
  <1>1. 0 \in S
    <2> DEFINE f == [k \in 0 .. 0 |-> 0]
    <2>1. IsUpTo(f, 0) /\ \A k \in 0 .. 0 : f[k] \in Nat
      OBVIOUS
    <2> HIDE DEF IsUpTo, f
    <2> QED BY <2>1
  <1>2. ASSUME NEW n \in Nat, n \in S PROVE n + 1 \in S
    <2> SUFFICES ASSUME n + 1 <= Len(id)
                 PROVE  \E g : IsUpTo(g, n + 1) /\ \A k \in 0 .. n + 1 : g[k] \in Nat
      BY SMTT(30)
    <2>1. PICK f : IsUpTo(f, n) /\ \A k \in 0 .. n : f[k] \in Nat
      BY <1>0, <1>2
    <2> DEFINE g == [k \in 0 .. n + 1 |-> IF k = n + 1 THEN 16 * f[n] + id[n + 1] ELSE f[k]]
    <2>2. \A k \in 0 .. n : g[k] = f[k]
      OBVIOUS
    <2>3. g[n + 1] = 16 * f[n] + id[n + 1] /\ g[n + 1] \in Nat
      BY <1>0, <2>1
    <2>4. ASSUME NEW k \in 0 .. n + 1
          PROVE  g[k] = (IF k = 0 THEN 0 ELSE 16 * g[k - 1] + id[k]) /\ g[k] \in Nat
      <3>1. CASE k = n + 1
        <4>1. k # 0 /\ k - 1 = n /\ n \in 0 .. n
          BY <3>1
        <4> HIDE DEF g
        <4> QED BY <2>2, <2>3, <3>1, <4>1
      <3>2. CASE k # n + 1
        <4>1. k \in 0 .. n /\ (k # 0 => k - 1 \in 0 .. n)
          BY <3>2
        <4>2. f[k] = IF k = 0 THEN 0 ELSE 16 * f[k - 1] + id[k]
          BY <2>1, <4>1
        <4> HIDE DEF g
        <4> QED BY <2>1, <2>2, <4>1, <4>2
      <3> QED BY <3>1, <3>2
    <2>5. g = [k \in 0 .. n + 1 |-> g[k]]
      OBVIOUS
    <2> HIDE DEF g
    <2>6. IsUpTo(g, n + 1)
      BY <2>4, <2>5
    <2> HIDE DEF IsUpTo
    <2> QED BY <2>4, <2>6
  <1>3. Len(id) \in S
    <2> HIDE DEF S
    <2> QED BY <1>0, <1>1, <1>2, AllNaturals
  <1>4. \E f : IsUpTo(f, Len(id))
    BY <1>0, <1>3
  <1> DEFINE upTo == CHOOSE f : IsUpTo(f, Len(id))
  <1>5. NumberOf(id) = upTo[Len(id)]
    BY DEF NumberOf
  <1>6. IsUpTo(upTo, Len(id))
    BY <1>4
  <1> HIDE DEF upTo
  <1>7. /\ upTo[0] = 0 /\ DOMAIN upTo = 0 .. Len(id)
        /\ \A k \in 1 .. Len(id) : upTo[k] = 16 * upTo[k - 1] + id[k]
    BY <1>0, <1>6
  <1> DEFINE T == {n \in Nat : n <= Len(id) => upTo[n] \in Nat}
  <1>8. 0 \in T
    BY <1>7
  <1>9. ASSUME NEW n \in Nat, n \in T PROVE n + 1 \in T
    <2> SUFFICES ASSUME n + 1 <= Len(id) PROVE upTo[n + 1] \in Nat
      OBVIOUS
    <2>1. n + 1 \in 1 .. Len(id) /\ (n + 1) - 1 = n /\ upTo[n] \in Nat
      BY <1>0, <1>9
    <2> QED BY <1>0, <1>7, <2>1
  <1>10. \A n \in Nat : n \in T
    <2> HIDE DEF T
    <2> QED BY <1>8, <1>9, AllNaturals
  <1>11. upTo \in [0 .. Len(id) -> Nat]
    <2>1. upTo = [k \in 0 .. Len(id) |-> upTo[k]]
      BY <1>6
    <2>2. \A k \in 0 .. Len(id) : upTo[k] \in Nat
      BY <1>0, <1>10
    <2> QED BY <2>1, <2>2
  <1> QED BY <1>5, <1>7, <1>11

\* addNodeID writes the next number: the carry stops at the first digit from
\* the right that is not f, and an id of all f's is followed by 0.
LEMMA NextNumberIsWritten ==
  ASSUME NEW id \in Seq(Digit)
  PROVE  NumberOf(AddNodeID(id)) = NextNumber(id)
  <1> DEFINE n == Len(id)
             next == AddNodeID(id)
             Wrap(k) == \A j \in k + 1 .. n : id[j] = 15
             High(k) == \A j \in 1 .. k : id[j] = 15
  <1>1. n \in Nat /\ DOMAIN id = 1 .. n /\ \A k \in 1 .. n : id[k] \in Digit
    OBVIOUS
  <1>2. next \in Seq(Digit) /\ Len(next) = n
    BY AddNodeIDProperties
  <1>3. \A d \in Digit : /\ (d + 1) % 16 = IF d = 15 THEN 0 ELSE d + 1
                         /\ (d + 1) % 16 = 0 <=> d = 15
    BY DEF Digit
  <1>4. ASSUME NEW k \in 1 .. n
        PROVE  next[k] = IF ~Wrap(k) THEN id[k] ELSE IF id[k] = 15 THEN 0 ELSE id[k] + 1
    BY <1>1, <1>3 DEF AddNodeID
  <1>5. PICK own \in [0 .. n -> Nat] :
          /\ own[0] = 0 /\ NumberOf(id) = own[n]
          /\ \A k \in 1 .. n : own[k] = 16 * own[k - 1] + id[k]
    BY NumberByPlaces
  <1>6. PICK its \in [0 .. n -> Nat] :
          /\ its[0] = 0 /\ NumberOf(next) = its[n]
          /\ \A k \in 1 .. n : its[k] = 16 * its[k - 1] + next[k]
    <2> HIDE DEF next, n
    <2> QED BY <1>2, NumberByPlaces
  <1> HIDE DEF next
  <1> DEFINE Claim(k) == its[k] = IF ~Wrap(k) THEN own[k] ELSE IF High(k) THEN 0 ELSE own[k] + 1
             S == {k \in Nat : k <= n => Claim(k)}
  <1>7. 0 \in S
    BY <1>5, <1>6
  <1>8. ASSUME NEW k \in Nat, k \in S PROVE k + 1 \in S
    <2> SUFFICES ASSUME k + 1 <= n PROVE Claim(k + 1)
      OBVIOUS
    <2>1. k + 1 \in 1 .. n /\ (k + 1) - 1 = k /\ k \in 0 .. n /\ Claim(k)
      BY <1>1, <1>8
    <2>2. Wrap(k) <=> Wrap(k + 1) /\ id[k + 1] = 15
      <3>1. \A j \in k + 1 .. n : j = k + 1 \/ j \in (k + 1) + 1 .. n
        BY <1>1, <2>1
      <3>2. \A j \in (k + 1) + 1 .. n : j \in k + 1 .. n
        BY <1>1
      <3>3. k + 1 \in k + 1 .. n
        BY <1>1, <2>1
      <3> QED BY <3>1, <3>2, <3>3
    <2>3. High(k + 1) <=> High(k) /\ id[k + 1] = 15
      <3>1. \A j \in 1 .. k + 1 : j = k + 1 \/ j \in 1 .. k
        OBVIOUS
      <3>2. \A j \in 1 .. k : j \in 1 .. k + 1
        OBVIOUS
      <3>3. k + 1 \in 1 .. k + 1
        OBVIOUS
      <3> QED BY <3>1, <3>2, <3>3
    <2>4. /\ own[k + 1] = 16 * own[k] + id[k + 1] /\ own[k] \in Nat
          /\ its[k + 1] = 16 * its[k] + next[k + 1] /\ its[k] \in Nat
      BY <1>5, <1>6, <2>1
    <2>5. next[k + 1] = IF ~Wrap(k + 1) THEN id[k + 1]
                        ELSE IF id[k + 1] = 15 THEN 0 ELSE id[k + 1] + 1
      BY <1>4, <2>1
    <2>6. id[k + 1] \in Nat
      BY <1>1, <2>1, SMTT(30) DEF Digit
    <2> HIDE DEF Wrap, High
    <2> QED BY <2>1, <2>2, <2>3, <2>4, <2>5, <2>6
  <1>9. Claim(n)
    <2>1. n \in S
      <3> HIDE DEF S, n
      <3> QED BY <1>1, <1>7, <1>8, AllNaturals
    <2> QED BY <1>1, <2>1
  <1>10. Wrap(n) /\ (High(n) <=> \A i \in DOMAIN id : id[i] = 15)
    BY <1>1
  <1> HIDE DEF Wrap, High, n
  <1> QED BY <1>5, <1>6, <1>9, <1>10 DEF NextNumber, next


LEMMA LocalIdsAreIds ==
  /\ \A id \in LocalIds : id \in Seq(Digit) /\ id # <<>>
  /\ NoId \notin LocalIds
  <1>1. ASSUME NEW d \in Digests PROVE SubSeq(d, 1, IdLength) \in Seq(Digit) \ {<<>>}
    <2>1. d \in Seq(Digit) /\ 1 <= IdLength /\ IdLength <= Len(d) /\ IdLength \in Nat
      BY IdAssumption DEF Digit
    <2>2. SubSeq(d, 1, IdLength) \in Seq(Digit) /\ Len(SubSeq(d, 1, IdLength)) = IdLength
      BY <2>1
    <2>3. SubSeq(d, 1, IdLength) # <<>>
      BY <2>1, <2>2
    <2> QED BY <2>2, <2>3
  <1>2. GivenIds \subseteq Seq(Digit) \ {<<>>}
    BY IdAssumption DEF Digit
  <1> QED BY <1>1, <1>2 DEF LocalIds, NewIds, NoId

-----------------------------------------------------------------------------
(* What a start enters.                                                    *)

Overlays == Elements(Nodes, Names)

LEMMA BootstrapTypes ==
  /\ \A xml \in Files : xml \in Seq(Overlays)
  /\ \A args \in CommandLines : /\ args.overlayName \in Names \cup {NoName}
                                /\ args.erase \in BOOLEAN /\ args.cache \in BOOLEAN
  /\ NoName \notin Names /\ Flaky \subseteq Nodes
  /\ MaxAttempts \in Nat /\ MaxAttempts >= 1 /\ MaxPeers \in Nat /\ MaxLives \in Nat
  BY BootstrapAssumption DEF Overlays, Arguments

\* The last element of a name that there is.
LEMMA NamedIsThere ==
  ASSUME NEW xml \in Seq(Overlays), NEW name, \E k \in DOMAIN xml : xml[k].name = name
  PROVE  \E k \in DOMAIN xml : Named(xml, name) = xml[k]
  <1> DEFINE n == Len(xml)
             S == {m \in Nat : m <= n /\ \E k \in DOMAIN xml : k = n - m /\ xml[k].name = name}
  <1>1. n \in Nat /\ DOMAIN xml = 1 .. n
    OBVIOUS
  <1>2. S \in SUBSET Nat /\ S # {}
    <2>1. PICK k \in DOMAIN xml : xml[k].name = name
      OBVIOUS
    <2>2. n - k \in Nat /\ n - k <= n /\ n - (n - k) = k
      BY <1>1
    <2> QED BY <2>1, <2>2
  <1>3. PICK m \in S : \A y \in S : m <= y
    <2> HIDE DEF S
    <2> QED BY <1>2, LeastNatural
  <1>4. n - m \in DOMAIN xml /\ xml[n - m].name = name
    BY <1>1, <1>3
  <1>5. ASSUME NEW j \in (n - m) + 1 .. n PROVE xml[j].name # name
    <2> SUFFICES ASSUME xml[j].name = name PROVE FALSE
      OBVIOUS
    <2>1. m \in Nat
      BY <1>3
    <2>2. n - j \in Nat /\ n - j <= n /\ n - (n - j) = j /\ j \in DOMAIN xml /\ ~(m <= n - j)
      BY <1>1, <1>4, <2>1
    <2>3. n - j \in S
      BY <2>2
    <2> QED BY <1>3, <2>2, <2>3
  <1> QED BY <1>4, <1>5 DEF Named

LEMMA OverlayIsThere ==
  ASSUME NEW xml \in Files, NEW args \in CommandLines, Selects(xml, args)
  PROVE  \E k \in DOMAIN xml : Overlay(xml, args) = xml[k]
  <1>1. xml \in Seq(Overlays)
    BY BootstrapTypes
  <1>2. IsFiniteSet(DOMAIN xml)
    BY <1>1, PlacesCount
  <1>3. IsFiniteSet(Configurations(xml)) /\ Configurations(xml) # {}
    BY <1>2, FS_Subset DEF Configurations, Selects
  <1>4. Cardinality(Configurations(xml)) \in Nat /\ Cardinality(Configurations(xml)) # 0
    BY <1>3, FS_CardinalityType, FS_EmptySet
  <1>5. 1 \in DOMAIN xml
    BY <1>1, <1>3 DEF Configurations
  <1>6. CASE Cardinality(Configurations(xml)) = 1
    BY <1>5, <1>6 DEF Overlay
  <1>7. CASE Cardinality(Configurations(xml)) # 1 /\ args.overlayName # NoName
    <2>1. Cardinality(Configurations(xml)) > 1
      BY <1>4, <1>7
    <2>2. \E k \in DOMAIN xml : xml[k].name = args.overlayName
      BY <1>7, <2>1 DEF Selects
    <2>3. Overlay(xml, args) = Named(xml, args.overlayName)
      BY <1>7 DEF Overlay
    <2> QED BY <1>1, <2>2, <2>3, NamedIsThere
  <1>8. CASE Cardinality(Configurations(xml)) # 1 /\ args.overlayName = NoName
    BY <1>5, <1>8 DEF Overlay, Indexed
  <1> QED BY <1>6, <1>7, <1>8

\* The overlay of a start that succeeds has a name, and its list is made of
\* entries.
LEMMA Entered ==
  ASSUME NEW xml \in Files, NEW source, NEW args \in CommandLines,
         Starts(xml, source, args)
  PROVE  LET o == Overlay(xml, args)
         IN  /\ \E k \in DOMAIN xml : o = xml[k]
             /\ o.name \in Names /\ o.whole /\ o.permitted # "absent"
             /\ BootstrapNodes(o) \in Seq(Entries)
  <1> DEFINE o == Overlay(xml, args)
  <1>1. PICK k \in DOMAIN xml : o = xml[k]
    BY OverlayIsThere DEF Starts
  <1>2. o \in Overlays
    BY <1>1, BootstrapTypes
  <1>3. o.name # NoName /\ o.whole /\ o.permitted # "absent"
    BY DEF Starts, Valid
  <1>4. o.name \in Names
    BY <1>2, <1>3 DEF Overlays, Elements
  <1> HIDE DEF o
  <1> DEFINE Listed == [address : Nodes, port : {NoName, "listening", "ephemeral"}]
  <1>5. o.nodes \in Seq(Listed)
    BY <1>2 DEF Overlays, Elements
  <1>6. BootstrapNodes(o) \in [DOMAIN o.nodes -> Entries]
    <2>1. ASSUME NEW i \in DOMAIN o.nodes PROVE o.nodes[i] \in Listed
      <3> HIDE DEF Listed
      <3> QED BY <1>5
    <2>2. \A l \in Listed : /\ l.address \in Nodes
                            /\ (IF l.port = NoName THEN DefaultPort ELSE l.port)
                                 \in {"listening", "ephemeral"}
      BY DEF DefaultPort
    <2> QED BY <2>1, <2>2 DEF BootstrapNodes, Entries
  <1>7. BootstrapNodes(o) \in Seq(Entries)
    <2> HIDE DEF Listed
    <2> QED BY <1>5, <1>6, PlaceByPlace
  <1> QED BY <1>1, <1>3, <1>4, <1>7 DEF o

-----------------------------------------------------------------------------
(* What an action finds and leaves.                                        *)

AttachRequests == [to : Nodes, resource : Seq(Digit)]

\* The part of the type that is about the attempts of one life.
LocalTypeOK ==
  /\ list \in Seq(Entries)
  /\ test \in [DOMAIN list -> 1 .. MaxAttempts]
  /\ phase \in [DOMAIN list -> Phases] /\ told \subseteq DOMAIN list
  /\ isConnected \in BOOLEAN /\ attaches \in Seq(AttachRequests)
  /\ connections \subseteq Nodes /\ refused \in [Flaky -> 0 .. MaxAttempts - 1]

\* That about the identities.
IdentityTypeOK ==
  /\ overlay \in Names \cup {NoName} /\ nodeID \in LocalIds \cup {NoId}
  /\ saved \in [Names -> LocalIds \cup {NoId}]
  /\ up \in BOOLEAN /\ erase \in Names \cup {NoName} /\ erasing \in Names \cup {NoName}
  /\ up => nodeID # NoId /\ overlay # NoName
  /\ lives \in 0 .. MaxLives

CacheTypeOK ==
  /\ cache \in Seq(Entries) /\ file \in [Names -> Seq(Entries)]
  /\ \A o \in Names : Len(file[o]) <= MaxPeers

LEMMA TypeParts == TypeOK <=> LocalTypeOK /\ IdentityTypeOK /\ CacheTypeOK
  BY DEF TypeOK, LocalTypeOK, IdentityTypeOK, CacheTypeOK, AttachRequests, Digit

\* A running process has an overlay and an id.
LEMMA WhileUp ==
  ASSUME IInv, up
  PROVE  /\ overlay \in Names /\ nodeID \in LocalIds /\ nodeID \in Seq(Digit)
         /\ cache = file[overlay] /\ file[overlay] \in Seq(Entries)
         /\ cache \in Seq(Entries) /\ Len(cache) \in Nat /\ Len(cache) <= MaxPeers
  <1>1. IdentityTypeOK /\ CacheTypeOK /\ CacheIsSaved
    BY TypeParts DEF IInv
  <1>2. overlay \in Names /\ nodeID \in LocalIds
    BY <1>1 DEF IdentityTypeOK
  <1>3. nodeID \in Seq(Digit)
    BY <1>2, LocalIdsAreIds
  <1>4. cache = file[overlay] /\ file[overlay] \in Seq(Entries) /\ Len(file[overlay]) <= MaxPeers
    BY <1>1, <1>2 DEF CacheTypeOK, CacheIsSaved
  <1> QED BY <1>2, <1>3, <1>4

\* The list does not change while a process runs, so that it stays that of
\* the overlay if the saved cache only grows.
LEMMA ListStays ==
  ASSUME IInv, UNCHANGED <<list, overlay, up>>,
         up => \A j \in DOMAIN file[overlay] :
                 j \in DOMAIN file'[overlay] /\ file'[overlay][j] = file[overlay][j]
  PROVE  ListBelongsToTheOverlay'
  <1> SUFFICES ASSUME up PROVE ListBelongsToTheOverlay'
    BY DEF ListBelongsToTheOverlay
  <1> DEFINE Belongs(xml, k, f) ==
               LET peers == BootstrapNodes(xml[k])
               IN  /\ xml[k].name = overlay /\ xml[k].whole /\ xml[k].permitted # "absent"
                   /\ IsPrefix(peers, list)
                   /\ \A i \in Len(peers) + 1 .. Len(list) :
                        \E j \in DOMAIN f : f[j] = list[i]
  <1>1. PICK xml \in Files : \E k \in DOMAIN xml : Belongs(xml, k, file[overlay])
    BY DEF IInv, ListBelongsToTheOverlay
  <1>2. PICK k \in DOMAIN xml : Belongs(xml, k, file[overlay])
    BY <1>1
  <1>3. Belongs(xml, k, file'[overlay])
    BY <1>2
  <1> QED BY <1>3 DEF ListBelongsToTheOverlay

\* What addPeer saves begins with what was saved.
LEMMA AddPeerGrows ==
  ASSUME IInv, up, NEW entry \in Entries, AddPeer(entry)
  PROVE  /\ CacheTypeOK' /\ cache' = file'[overlay]
         /\ \A j \in DOMAIN file[overlay] :
              j \in DOMAIN file'[overlay] /\ file'[overlay][j] = file[overlay][j]
         /\ \A o \in Names : IsPrefix(file[o], file'[o])
  <1>1. overlay \in Names /\ cache = file[overlay] /\ cache \in Seq(Entries)
        /\ Len(cache) \in Nat /\ Len(cache) <= MaxPeers /\ CacheTypeOK
    BY WhileUp, TypeParts DEF IInv
  <1>2. /\ cache' \in Seq(Entries) /\ Len(cache') <= MaxPeers
        /\ \A j \in DOMAIN cache : j \in DOMAIN cache' /\ cache'[j] = cache[j]
        /\ IsPrefix(cache, cache')
    <2>1. CASE Len(cache) >= MaxPeers
      <3>1. cache' = cache
        BY <2>1 DEF AddPeer
      <3> QED BY <1>1, <3>1 DEF IsPrefix
    <2>2. CASE ~(Len(cache) >= MaxPeers)
      <3>1. cache' = Append(cache, entry)
        BY <2>2 DEF AddPeer
      <3>2. /\ cache' \in Seq(Entries) /\ Len(cache') = Len(cache) + 1
            /\ \A j \in 1 .. Len(cache) : cache'[j] = cache[j]
        BY <1>1, <3>1
      <3>3. SubSeq(cache, 1, Len(cache)) = SubSeq(cache', 1, Len(cache))
        BY <1>1, <3>2
      <3> QED BY <1>1, <2>2, <3>2, <3>3, BootstrapTypes, SMTT(30) DEF IsPrefix
    <2> QED BY <2>1, <2>2
  <1>3. file' = [file EXCEPT ![overlay] = cache']
    BY DEF AddPeer
  <1>4. \A o \in Names : file'[o] = IF o = overlay THEN cache' ELSE file[o]
    BY <1>1, <1>3 DEF CacheTypeOK
  <1>5. CacheTypeOK'
    BY <1>1, <1>2, <1>3, <1>4 DEF CacheTypeOK
  <1>6. \A o \in Names : IsPrefix(file[o], file[o])
    BY <1>1 DEF CacheTypeOK, IsPrefix
  <1> QED BY <1>1, <1>2, <1>4, <1>5, <1>6

LEMMA AddConnectionGrows ==
  ASSUME IInv, up, NEW node \in Nodes, NEW port \in {"listening", "ephemeral", "none"},
         AddConnection(node, port)
  PROVE  /\ CacheTypeOK' /\ cache' = file'[overlay] /\ connections' \subseteq Nodes
         /\ \A j \in DOMAIN file[overlay] :
              j \in DOMAIN file'[overlay] /\ file'[overlay][j] = file[overlay][j]
         /\ \A o \in Names : IsPrefix(file[o], file'[o])
  <1>1. CacheTypeOK /\ LocalTypeOK
    BY TypeParts DEF IInv
  <1>2. connections' \subseteq Nodes
    BY <1>1 DEF AddConnection, LocalTypeOK
  <1>3. CASE UNCHANGED <<cache, file>>
    <2>1. \A o \in Names : IsPrefix(file[o], file[o])
      BY <1>1 DEF CacheTypeOK, IsPrefix
    <2> QED BY <1>1, <1>2, <1>3, <2>1, WhileUp DEF CacheTypeOK
  <1>4. CASE port # "none" /\ AddPeer([node |-> node, port |-> port])
    <2>1. [node |-> node, port |-> port] \in Entries
      BY <1>4 DEF Entries
    <2> QED BY <1>2, <1>4, <2>1, AddPeerGrows
  <1> QED BY <1>3, <1>4 DEF AddConnection

\* What a step does to the identities and to the saved caches.
KeepsIdentities ==
  \A o \in Names :
    /\ saved[o] # NoId
    /\ \/ saved'[o] # saved[o]
       \/ overlay' = o /\ up' /\ lives' # lives /\ nodeID' # saved[o]
    => o \in {erase, erase'}

KeepsCaches == \A o \in Names : IsPrefix(file[o], file'[o])

Safe == IInv' /\ KeepsIdentities /\ KeepsCaches

\* A step that only concerns the connections, the cache and its file.
LEMMA TableStepIsSafe ==
  ASSUME IInv, up,
         UNCHANGED <<identity, list, test, phase, told, isConnected, attaches, refused>>,
         connections' \subseteq Nodes, CacheTypeOK', cache' = file'[overlay],
         \A j \in DOMAIN file[overlay] :
           j \in DOMAIN file'[overlay] /\ file'[overlay][j] = file[overlay][j],
         KeepsCaches
  PROVE  Safe
  <1>1. LocalTypeOK /\ IdentityTypeOK
    BY TypeParts DEF IInv
  <1>2. LocalTypeOK' /\ IdentityTypeOK'
    BY <1>1 DEF LocalTypeOK, IdentityTypeOK, identity
  <1>3. TypeOK'
    BY <1>2, TypeParts DEF TypeOK, LocalTypeOK, IdentityTypeOK, CacheTypeOK, AttachRequests, Digit
  <1>4. NothingWithoutProcess' /\ CacheIsSaved' /\ ErasingIsAsked'
    BY DEF IInv, NothingWithoutProcess, CacheIsSaved, ErasingIsAsked, identity
  <1>5. JoinsOnce' /\ OneIsKept'
    BY DEF IInv, JoinsOnce, OneIsKept, Kept, identity
  <1>6. ListBelongsToTheOverlay'
    BY ListStays DEF identity
  <1>7. KeepsIdentities
    BY DEF KeepsIdentities, identity
  <1> QED BY <1>3, <1>4, <1>5, <1>6, <1>7 DEF Safe, IInv

LEMMA AcceptIsSafe ==
  ASSUME IInv, NEW node \in Nodes, Accept(node)
  PROVE  Safe
  <1>1. PICK port \in {"ephemeral", "none"} : AddConnection(node, port)
    BY DEF Accept
  <1>2. up /\ UNCHANGED <<identity, list, test, phase, told, isConnected, attaches, refused>>
    BY DEF Accept
  <1>3. port \in {"listening", "ephemeral", "none"}
    OBVIOUS
  <1> QED BY <1>1, <1>2, <1>3, AddConnectionGrows, TableStepIsSafe DEF KeepsCaches

LEMMA ReceivePingIsSafe ==
  ASSUME IInv, NEW node \in Nodes, ReceivePing(node)
  PROVE  Safe
  <1>1. up
    BY DEF IInv, NothingWithoutProcess, ReceivePing
  <1>2. [node |-> node, port |-> "listening"] \in Entries
    BY DEF Entries
  <1>3. AddPeer([node |-> node, port |-> "listening"]) /\ UNCHANGED <<identity, local>>
    BY DEF ReceivePing
  <1>4. connections' \subseteq Nodes
    BY <1>3 DEF IInv, TypeOK, local
  <1>5. UNCHANGED <<identity, list, test, phase, told, isConnected, attaches, refused>>
    BY <1>3 DEF local
  <1> QED BY <1>1, <1>2, <1>3, <1>4, <1>5, AddPeerGrows, TableStepIsSafe DEF KeepsCaches

\* A step that leaves the cache alone.
LEMMA CacheStays ==
  ASSUME IInv, UNCHANGED <<cache, file>>
  PROVE  CacheTypeOK' /\ KeepsCaches
  <1>1. CacheTypeOK
    BY TypeParts DEF IInv
  <1>2. \A o \in Names : IsPrefix(file[o], file[o])
    BY <1>1 DEF CacheTypeOK, IsPrefix
  <1> QED BY <1>1, <1>2 DEF CacheTypeOK, KeepsCaches

LEMMA RemoveConnectionIsSafe ==
  ASSUME IInv, NEW node \in Nodes, RemoveConnection(node)
  PROVE  Safe
  <1>1. up /\ connections' \subseteq Nodes
    BY DEF IInv, NothingWithoutProcess, RemoveConnection, TypeOK
  <1>2. /\ UNCHANGED <<identity, list, test, phase, told, isConnected, attaches, refused>>
        /\ UNCHANGED <<cache, file>>
    BY DEF RemoveConnection
  <1>3. cache' = file'[overlay]
    BY <1>1, <1>2, WhileUp
  <1> QED BY <1>1, <1>2, <1>3, CacheStays, TableStepIsSafe

LEMMA UnlinkedIsSafe ==
  ASSUME IInv, Unlinked
  PROVE  Safe
  <1>1. /\ erasing \in Names /\ erasing = erase /\ NoId \in LocalIds \cup {NoId}
        /\ saved' = [saved EXCEPT ![erasing] = NoId] /\ erasing' = NoName
        /\ UNCHANGED <<overlay, nodeID, up, erase, lives, local, cache, file>>
    BY DEF IInv, TypeOK, ErasingIsAsked, Unlinked
  <1>2. LocalTypeOK /\ IdentityTypeOK
    BY TypeParts DEF IInv
  <1>3. LocalTypeOK'
    BY <1>1, <1>2 DEF LocalTypeOK, local
  <1>4. IdentityTypeOK' /\ KeepsIdentities
    BY <1>1, <1>2 DEF IdentityTypeOK, KeepsIdentities
  <1>5. CacheTypeOK' /\ KeepsCaches
    BY <1>1, CacheStays
  <1>6. TypeOK'
    BY <1>3, <1>4, <1>5 DEF TypeOK, LocalTypeOK, IdentityTypeOK, CacheTypeOK, AttachRequests, Digit
  <1>7. NothingWithoutProcess' /\ CacheIsSaved' /\ ErasingIsAsked'
    BY <1>1 DEF IInv, NothingWithoutProcess, CacheIsSaved, ErasingIsAsked, local
  <1>8. JoinsOnce' /\ OneIsKept'
    BY <1>1 DEF IInv, JoinsOnce, OneIsKept, Kept, local
  <1>9. ListBelongsToTheOverlay'
    BY <1>1, ListStays DEF local
  <1> QED BY <1>4, <1>5, <1>6, <1>7, <1>8, <1>9 DEF Safe, IInv

-----------------------------------------------------------------------------
(* Attempts                                                                *)

\* The first connection joins, and it is the only one kept of those made at
\* a first attempt.
LEMMA ConnectedIsSafe ==
  ASSUME IInv, NEW i \in DOMAIN list, Connected(i)
  PROVE  Safe
  <1>1. LocalTypeOK /\ IdentityTypeOK
    BY TypeParts DEF IInv
  <1>2. up
    BY DEF IInv, NothingWithoutProcess
  <1>3. /\ phase[i] = "connecting" /\ phase' = [phase EXCEPT ![i] = "connected"]
        /\ AddConnection(list[i].node, "listening") /\ CallBack(i)
        /\ UNCHANGED <<identity, list, test, refused>>
    BY DEF Connected
  <1>4. list[i].node \in Nodes /\ i \in DOMAIN phase /\ i \in DOMAIN test
    <2>1. list[i] \in Entries /\ i \in DOMAIN phase /\ i \in DOMAIN test
      BY <1>1 DEF LocalTypeOK
    <2> QED BY <2>1 DEF Entries
  <1>5. /\ CacheTypeOK' /\ cache' = file'[overlay] /\ connections' \subseteq Nodes
        /\ \A j \in DOMAIN file[overlay] :
             j \in DOMAIN file'[overlay] /\ file'[overlay][j] = file[overlay][j]
        /\ KeepsCaches
    BY <1>2, <1>3, <1>4, AddConnectionGrows DEF KeepsCaches
  <1> DEFINE request == [to |-> list[i].node, resource |-> AddNodeID(nodeID)]
  <1>6. request \in AttachRequests
    BY <1>2, <1>4, WhileUp, AddNodeIDProperties DEF AttachRequests
  <1>7. /\ isConnected' = TRUE
        /\ IF isConnected
           THEN told' = (IF test[i] = 1 THEN told \cup {i} ELSE told) /\ attaches' = attaches
           ELSE attaches' = Append(attaches, request) /\ told' = told
    BY <1>3 DEF CallBack
  <1>8. /\ Len(attaches') = 1 /\ attaches'[1].resource = AddNodeID(nodeID)
        /\ attaches' \in Seq(AttachRequests) /\ told' \subseteq DOMAIN list
    <2>1. CASE isConnected
      BY <1>1, <1>7, <2>1 DEF LocalTypeOK, IInv, JoinsOnce
    <2>2. CASE ~isConnected
      <3>1. attaches = <<>> /\ attaches' = Append(attaches, request) /\ told' = told
        BY <1>7, <2>2 DEF IInv, JoinsOnce
      <3>2. request.resource = AddNodeID(nodeID)
        OBVIOUS
      <3> HIDE DEF request
      <3>3. attaches' = <<request>>
        BY <3>1
      <3> QED BY <1>1, <1>6, <3>1, <3>2, <3>3 DEF LocalTypeOK
    <2> QED BY <2>1, <2>2
  <1>9. phase' \in [DOMAIN list -> Phases]
    BY <1>1, <1>3 DEF LocalTypeOK, Phases
  <1>10. LocalTypeOK'
    BY <1>1, <1>3, <1>5, <1>7, <1>8, <1>9 DEF LocalTypeOK
  <1>11. IdentityTypeOK' /\ KeepsIdentities
    BY <1>1, <1>3 DEF IdentityTypeOK, KeepsIdentities, identity
  <1>12. TypeOK'
    BY <1>5, <1>10, <1>11
    DEF TypeOK, LocalTypeOK, IdentityTypeOK, CacheTypeOK, AttachRequests, Digit
  <1>13. NothingWithoutProcess' /\ CacheIsSaved' /\ ErasingIsAsked'
    BY <1>2, <1>3, <1>5 DEF IInv, NothingWithoutProcess, CacheIsSaved, ErasingIsAsked, identity
  <1>14. JoinsOnce'
    BY <1>2, <1>3, <1>7, <1>8 DEF JoinsOnce, identity
  <1>15. OneIsKept'
    <2> DEFINE before == Kept(phase, test, told)
               after == Kept(phase', test, told')
    <2>1. \A j \in after : j = i \/ j \in before
      BY <1>1, <1>3, <1>4, <1>7 DEF Kept, LocalTypeOK
    <2>2. isConnected => i \notin after
      BY <1>7 DEF Kept
    <2>3. ~isConnected => before = {}
      BY <1>1 DEF IInv, JoinsOnce, Kept, LocalTypeOK
    <2>4. \A j, k \in before : j = k
      BY DEF IInv, OneIsKept
    <2> HIDE DEF before, after
    <2>5. \A j, k \in after : j = k
      BY <2>1, <2>2, <2>3, <2>4
    <2> QED BY <1>3, <2>5 DEF OneIsKept, after
  <1>16. ListBelongsToTheOverlay'
    BY <1>3, <1>5, ListStays DEF identity
  <1> QED BY <1>5, <1>11, <1>12, <1>13, <1>14, <1>15, <1>16 DEF Safe, IInv

\* An attempt that ends or begins and connects nothing.
LEMMA UnconnectedStepIsSafe ==
  ASSUME IInv, NEW i \in DOMAIN list, NEW p \in Phases \ {"connected"},
         phase' = [phase EXCEPT ![i] = p], test' \in [DOMAIN list -> 1 .. MaxAttempts],
         \A j \in DOMAIN list : test'[j] = 1 => test[j] = 1,
         refused' \in [Flaky -> 0 .. MaxAttempts - 1],
         UNCHANGED <<identity, list, told, isConnected, attaches, connections, cache, file>>
  PROVE  Safe
  <1>1. LocalTypeOK /\ IdentityTypeOK
    BY TypeParts DEF IInv
  <1>2. LocalTypeOK'
    BY <1>1 DEF LocalTypeOK
  <1>3. IdentityTypeOK' /\ KeepsIdentities
    BY <1>1 DEF IdentityTypeOK, KeepsIdentities, identity
  <1>4. CacheTypeOK' /\ KeepsCaches
    BY CacheStays
  <1>5. TypeOK'
    BY <1>2, <1>3, <1>4 DEF TypeOK, LocalTypeOK, IdentityTypeOK, CacheTypeOK, AttachRequests, Digit
  <1>6. NothingWithoutProcess' /\ CacheIsSaved' /\ ErasingIsAsked'
    BY DEF IInv, NothingWithoutProcess, CacheIsSaved, ErasingIsAsked, identity
  <1>7. \A j \in DOMAIN list : phase'[j] = "connected" => phase[j] = "connected"
    BY <1>1 DEF LocalTypeOK
  <1>8. JoinsOnce'
    BY <1>1, <1>7 DEF IInv, JoinsOnce, identity
  <1>9. OneIsKept'
    <2>1. \A j \in Kept(phase', test', told') : j \in Kept(phase, test, told)
      BY <1>1, <1>2, <1>7 DEF Kept, LocalTypeOK
    <2> QED BY <2>1 DEF IInv, OneIsKept
  <1>10. ListBelongsToTheOverlay'
    BY ListStays DEF identity
  <1> QED BY <1>3, <1>4, <1>5, <1>6, <1>8, <1>9, <1>10 DEF Safe, IInv

LEMMA FailedIsSafe ==
  ASSUME IInv, NEW i \in DOMAIN list, Failed(i)
  PROVE  Safe
  <1>1. LocalTypeOK
    BY TypeParts DEF IInv
  <1>2. /\ Refuses(i) /\ OnError(i)
        /\ UNCHANGED <<identity, list, told, isConnected, attaches, connections, cache, file>>
    BY DEF Failed
  <1>3. refused' \in [Flaky -> 0 .. MaxAttempts - 1]
    <2>1. CASE UNCHANGED refused
      BY <1>1, <2>1 DEF LocalTypeOK
    <2>2. ASSUME NEW n \in Flaky, refused[n] < MaxAttempts - 1,
                 refused' = [refused EXCEPT ![n] = @ + 1]
          PROVE  refused' \in [Flaky -> 0 .. MaxAttempts - 1]
      <3>1. refused[n] + 1 \in 0 .. MaxAttempts - 1
        BY <1>1, <2>2, BootstrapTypes DEF LocalTypeOK
      <3> QED BY <1>1, <2>2, <3>1 DEF LocalTypeOK
    <2> QED BY <1>2, <2>1, <2>2 DEF Refuses
  <1>4. CASE ~isConnected /\ test[i] < MaxAttempts
    <2>1. test' = [test EXCEPT ![i] = @ + 1] /\ phase' = [phase EXCEPT ![i] = "waiting"]
      BY <1>2, <1>4 DEF OnError
    <2>2. test[i] + 1 \in 1 .. MaxAttempts /\ test[i] + 1 # 1
      BY <1>1, <1>4, BootstrapTypes DEF LocalTypeOK
    <2>3. /\ test' \in [DOMAIN list -> 1 .. MaxAttempts]
          /\ \A j \in DOMAIN list : test'[j] = 1 => test[j] = 1
      BY <1>1, <2>1, <2>2 DEF LocalTypeOK
    <2>4. "waiting" \in Phases \ {"connected"}
      BY DEF Phases
    <2> QED BY <1>2, <1>3, <2>1, <2>3, <2>4, UnconnectedStepIsSafe
  <1>5. CASE ~(~isConnected /\ test[i] < MaxAttempts)
    <2>1. phase' = [phase EXCEPT ![i] = "gaveUp"] /\ UNCHANGED test
      BY <1>2, <1>5 DEF OnError
    <2>2. /\ test' \in [DOMAIN list -> 1 .. MaxAttempts]
          /\ \A j \in DOMAIN list : test'[j] = 1 => test[j] = 1
      BY <1>1, <2>1 DEF LocalTypeOK
    <2>3. "gaveUp" \in Phases \ {"connected"}
      BY DEF Phases
    <2> QED BY <1>2, <1>3, <2>1, <2>2, <2>3, UnconnectedStepIsSafe
  <1> QED BY <1>4, <1>5

LEMMA RetryIsSafe ==
  ASSUME IInv, NEW i \in DOMAIN list, Retry(i)
  PROVE  Safe
  <1>1. LocalTypeOK
    BY TypeParts DEF IInv
  <1>2. /\ phase' = [phase EXCEPT ![i] = "connecting"] /\ UNCHANGED <<test, refused>>
        /\ UNCHANGED <<identity, list, told, isConnected, attaches, connections, cache, file>>
    BY DEF Retry
  <1>3. /\ test' \in [DOMAIN list -> 1 .. MaxAttempts]
        /\ \A j \in DOMAIN list : test'[j] = 1 => test[j] = 1
        /\ refused' \in [Flaky -> 0 .. MaxAttempts - 1]
    BY <1>1, <1>2 DEF LocalTypeOK
  <1>4. "connecting" \in Phases \ {"connected"}
    BY DEF Phases
  <1> QED BY <1>2, <1>3, <1>4, UnconnectedStepIsSafe

-----------------------------------------------------------------------------
(* Starts                                                                  *)

\* The list of a process that starts: nothing is connected yet.
LEMMA ConnectBegins ==
  ASSUME NEW peers \in Seq(Entries), Connect(peers)
  PROVE  LocalTypeOK' /\ JoinsOnce' /\ OneIsKept' /\ connections' = {} /\ list' = peers
  <1>1. /\ list' = peers
        /\ test' = [i \in DOMAIN peers |-> 1]
        /\ phase' = [i \in DOMAIN peers |-> "connecting"]
        /\ told' = {} /\ isConnected' = FALSE /\ attaches' = <<>> /\ connections' = {}
        /\ refused' = [n \in Flaky |-> 0]
    BY DEF Connect
  <1>2. 1 \in 1 .. MaxAttempts /\ 0 \in 0 .. MaxAttempts - 1
    BY BootstrapTypes
  <1>3. LocalTypeOK'
    <2>1. test' \in [DOMAIN list' -> 1 .. MaxAttempts] /\ phase' \in [DOMAIN list' -> Phases]
      BY <1>1, <1>2 DEF Phases
    <2>2. attaches' \in Seq(AttachRequests) /\ refused' \in [Flaky -> 0 .. MaxAttempts - 1]
      BY <1>1, <1>2
    <2> QED BY <1>1, <2>1, <2>2 DEF LocalTypeOK
  <1>4. JoinsOnce'
    BY <1>1 DEF JoinsOnce
  <1>5. OneIsKept'
    BY <1>1 DEF OneIsKept, Kept
  <1> QED BY <1>1, <1>3, <1>4, <1>5

LEMMA IsPrefixConcat ==
  ASSUME NEW T, NEW s \in Seq(T), NEW t \in Seq(T)
  PROVE  /\ IsPrefix(s, s) /\ IsPrefix(s, s \o t) /\ s \o t \in Seq(T)
         /\ \A i \in Len(s) + 1 .. Len(s \o t) : \E j \in DOMAIN t : t[j] = (s \o t)[i]
  <1>1. /\ s \o t \in Seq(T) /\ Len(s \o t) = Len(s) + Len(t)
        /\ \A i \in 1 .. Len(s) + Len(t) :
             (s \o t)[i] = IF i <= Len(s) THEN s[i] ELSE t[i - Len(s)]
    BY ConcatProperties
  <1>2. Len(s) \in Nat /\ Len(t) \in Nat /\ DOMAIN t = 1 .. Len(t)
    OBVIOUS
  <1> DEFINE st == s \o t
  <1> HIDE DEF st
  <1>3. SubSeq(s, 1, Len(s)) = SubSeq(st, 1, Len(s))
    BY <1>1, <1>2 DEF st
  <1>4. ASSUME NEW i \in Len(s) + 1 .. Len(st) PROVE \E j \in DOMAIN t : t[j] = st[i]
    <2>1. /\ i \in 1 .. Len(s) + Len(t) /\ ~(i <= Len(s))
          /\ i - Len(s) \in DOMAIN t
      BY <1>1, <1>2 DEF st
    <2> QED BY <1>1, <2>1 DEF st
  <1> QED BY <1>1, <1>2, <1>3, <1>4 DEF IsPrefix, st

\* The identity that a start finds or makes; only one that it was to erase is
\* lost.
LEMMA ParseConfigKeeps ==
  ASSUME IdentityTypeOK, NEW o \in Names, NEW t \in Names \cup {NoName}, NEW comesUp \in BOOLEAN,
         ParseConfig(o, t, comesUp)
  PROVE  /\ nodeID' \in LocalIds \cup {NoId} /\ saved' \in [Names -> LocalIds \cup {NoId}]
         /\ up' \in BOOLEAN /\ (up' => nodeID' # NoId) /\ erasing' \in {NoName, t}
         /\ \A n \in Names : /\ saved[n] # NoId
                             /\ saved'[n] # saved[n] \/ (n = o /\ up' /\ nodeID' # saved[n])
                             => n = t
  <1>1. nodeID \in LocalIds \cup {NoId} /\ saved \in [Names -> LocalIds \cup {NoId}]
    BY DEF IdentityTypeOK
  <1>2. NoId \notin LocalIds
    BY LocalIdsAreIds
  <1>3. CASE /\ saved[o] # NoId
             /\ nodeID' = saved[o] /\ up' = comesUp /\ erasing' = t /\ UNCHANGED saved
    BY <1>1, <1>3
  <1>4. CASE /\ saved[o] = NoId \/ t = o
             /\ nodeID' \in LocalIds /\ saved' = [saved EXCEPT ![o] = nodeID'] /\ up' = comesUp
             /\ erasing' = IF t = o THEN NoName ELSE t
    BY <1>1, <1>2, <1>4
  <1>5. CASE /\ saved[o] # NoId /\ t = o
             /\ saved' = [saved EXCEPT ![o] = NoId] /\ up' = FALSE
             /\ erasing' = NoName /\ UNCHANGED nodeID
    BY <1>1, <1>5
  <1> QED BY <1>3, <1>4, <1>5 DEF ParseConfig

LEMMA StartIsSafe ==
  ASSUME IInv, NEW xml \in Files, NEW source \in Origins, NEW args \in CommandLines,
         Start(xml, source, args)
  PROVE  Safe
  <1> DEFINE o == Overlay(xml, args)
             t == Erases(xml, args)
             peers == BootstrapNodes(o)
             mine == IF up' THEN InitBootstrap(peers, o.name, args) ELSE <<>>
  <1>1. IdentityTypeOK /\ CacheTypeOK
    BY TypeParts DEF IInv
  <1>2. /\ lives < MaxLives /\ lives' = lives + 1 /\ Starts(xml, source, args)
        /\ overlay' = o.name /\ erase' = (IF args.erase THEN args.overlayName ELSE NoName)
        /\ ParseConfig(o.name, t, ComesUp(args)) /\ LoadCache(o.name) /\ Connect(mine)
    BY DEF Start, StartServices
  <1>3. /\ \E k \in DOMAIN xml : o = xml[k]
        /\ o.name \in Names /\ o.whole /\ o.permitted # "absent" /\ peers \in Seq(Entries)
    BY <1>2, Entered
  <1>4. t \in Names \cup {NoName} /\ ComesUp(args) \in BOOLEAN /\ erase' = t
    BY <1>2, BootstrapTypes DEF Erases, ComesUp
  <1>5. cache' = file[o.name] /\ file' = file /\ file[o.name] \in Seq(Entries)
    BY <1>1, <1>2, <1>3 DEF LoadCache, CacheTypeOK
  <1> HIDE DEF o, t, peers
  <1>6. /\ nodeID' \in LocalIds \cup {NoId} /\ saved' \in [Names -> LocalIds \cup {NoId}]
        /\ up' \in BOOLEAN /\ (up' => nodeID' # NoId) /\ erasing' \in {NoName, t}
        /\ \A n \in Names : /\ saved[n] # NoId
                            /\ \/ saved'[n] # saved[n]
                               \/ n = o.name /\ up' /\ nodeID' # saved[n]
                            => n = t
    BY <1>1, <1>2, <1>3, <1>4, ParseConfigKeeps
  <1>7. IdentityTypeOK'
    <2>1. lives' \in 0 .. MaxLives
      BY <1>1, <1>2, BootstrapTypes DEF IdentityTypeOK
    <2>2. overlay' \in Names \cup {NoName} /\ overlay' # NoName
      BY <1>2, <1>3, BootstrapTypes
    <2> QED BY <1>4, <1>6, <2>1, <2>2 DEF IdentityTypeOK
  <1>8. CacheTypeOK' /\ KeepsCaches
    <2>1. \A n \in Names : IsPrefix(file[n], file[n])
      BY <1>1 DEF CacheTypeOK, IsPrefix
    <2> QED BY <1>1, <1>5, <2>1 DEF CacheTypeOK, KeepsCaches
  <1>9. mine \in Seq(Entries)
    BY <1>3, <1>5, IsPrefixConcat DEF InitBootstrap
  <1>10. LocalTypeOK' /\ JoinsOnce' /\ OneIsKept' /\ connections' = {} /\ list' = mine
    <2> HIDE DEF mine
    <2> QED BY <1>2, <1>9, ConnectBegins
  <1>11. TypeOK'
    BY <1>7, <1>8, <1>10
    DEF TypeOK, LocalTypeOK, IdentityTypeOK, CacheTypeOK, AttachRequests, Digit
  <1>12. NothingWithoutProcess' /\ CacheIsSaved' /\ ErasingIsAsked'
    BY <1>2, <1>4, <1>5, <1>6, <1>10
    DEF NothingWithoutProcess, CacheIsSaved, ErasingIsAsked
  <1>13. ListBelongsToTheOverlay'
    <2> SUFFICES ASSUME up' PROVE ListBelongsToTheOverlay'
      BY DEF ListBelongsToTheOverlay
    <2>1. list' = peers \/ list' = peers \o file[o.name]
      BY <1>10 DEF InitBootstrap
    <2>2. /\ IsPrefix(peers, list')
          /\ \A i \in Len(peers) + 1 .. Len(list') :
               \E j \in DOMAIN file[o.name] : file[o.name][j] = list'[i]
      <3>1. \A i \in Len(peers) + 1 .. Len(peers) : FALSE
        BY <1>3
      <3>2. CASE list' = peers
        BY <1>3, <3>1, <3>2, IsPrefixConcat
      <3>3. CASE list' = peers \o file[o.name]
        <4> DEFINE saveds == file[o.name]
        <4>1. saveds \in Seq(Entries)
          BY <1>5
        <4> HIDE DEF saveds
        <4>2. /\ IsPrefix(peers, peers \o saveds)
              /\ \A i \in Len(peers) + 1 .. Len(peers \o saveds) :
                   \E j \in DOMAIN saveds : saveds[j] = (peers \o saveds)[i]
          BY <1>3, <4>1, IsPrefixConcat
        <4> QED BY <3>3, <4>2 DEF saveds
      <3> QED BY <2>1, <3>2, <3>3
    <2> QED BY <1>2, <1>3, <1>5, <2>2 DEF ListBelongsToTheOverlay, peers
  <1>14. KeepsIdentities
    <2>1. ASSUME NEW n \in Names, saved[n] # NoId,
                 saved'[n] # saved[n] \/ (overlay' = n /\ up' /\ nodeID' # saved[n])
          PROVE  n \in {erase, erase'}
      BY <1>2, <1>4, <1>6, <2>1
    <2> QED BY <2>1 DEF KeepsIdentities
  <1> QED BY <1>8, <1>10, <1>11, <1>12, <1>13, <1>14 DEF Safe, IInv

LEMMA StartFailsIsSafe ==
  ASSUME IInv, NEW xml \in Files, NEW source \in Origins, NEW args \in CommandLines,
         StartFails(xml, source, args)
  PROVE  Safe
  <1> DEFINE t == Erases(xml, args)
  <1>1. IdentityTypeOK /\ CacheTypeOK
    BY TypeParts DEF IInv
  <1>2. /\ lives < MaxLives /\ lives' = lives + 1
        /\ erase' = (IF args.erase THEN args.overlayName ELSE NoName)
        /\ saved' = saved \/ (t # NoName /\ saved' = [saved EXCEPT ![t] = NoId])
        /\ overlay' = NoName /\ nodeID' = NoId /\ up' = FALSE /\ erasing' = NoName
        /\ cache' = <<>> /\ Connect(<<>>) /\ file' = file
    BY DEF StartFails
  <1>3. t \in Names \cup {NoName} /\ erase' = t
    BY <1>2, BootstrapTypes DEF Erases
  <1> HIDE DEF t
  <1>4. LocalTypeOK' /\ JoinsOnce' /\ OneIsKept' /\ connections' = {} /\ list' = <<>>
    <2>1. <<>> \in Seq(Entries)
      OBVIOUS
    <2> QED BY <1>2, <2>1, ConnectBegins
  <1>5. IdentityTypeOK' /\ KeepsIdentities
    <2>1. lives' \in 0 .. MaxLives
      BY <1>1, <1>2, BootstrapTypes DEF IdentityTypeOK
    <2>2. /\ saved' \in [Names -> LocalIds \cup {NoId}]
          /\ \A n \in Names : saved'[n] # saved[n] => n = t
      BY <1>1, <1>2, <1>3 DEF IdentityTypeOK
    <2> QED BY <1>2, <1>3, <2>1, <2>2 DEF IdentityTypeOK, KeepsIdentities
  <1>6. CacheTypeOK' /\ KeepsCaches
    <2>1. \A n \in Names : IsPrefix(file[n], file[n])
      BY <1>1 DEF CacheTypeOK, IsPrefix
    <2> QED BY <1>1, <1>2, <2>1 DEF CacheTypeOK, KeepsCaches
  <1>7. TypeOK'
    BY <1>4, <1>5, <1>6
    DEF TypeOK, LocalTypeOK, IdentityTypeOK, CacheTypeOK, AttachRequests, Digit
  <1>8. /\ NothingWithoutProcess' /\ CacheIsSaved' /\ ErasingIsAsked'
        /\ ListBelongsToTheOverlay'
    BY <1>2, <1>4
    DEF NothingWithoutProcess, CacheIsSaved, ErasingIsAsked, ListBelongsToTheOverlay
  <1> QED BY <1>4, <1>5, <1>6, <1>7, <1>8 DEF Safe, IInv

-----------------------------------------------------------------------------
LEMMA InitSatisfies == Init => IInv
  <1> SUFFICES ASSUME Init PROVE IInv
    OBVIOUS
  <1>1. LocalTypeOK
    <2>1. 0 \in 0 .. MaxAttempts - 1
      BY BootstrapTypes
    <2>2. refused \in [Flaky -> 0 .. MaxAttempts - 1]
      BY <2>1 DEF Init
    <2>3. list = <<>> /\ test = <<>> /\ phase = <<>> /\ attaches = <<>> /\ isConnected = FALSE
          /\ told = {} /\ connections = {}
      BY DEF Init
    <2>4. test \in [DOMAIN list -> 1 .. MaxAttempts] /\ phase \in [DOMAIN list -> Phases]
      BY <2>3
    <2>5. list \in Seq(Entries) /\ attaches \in Seq(AttachRequests)
      BY <2>3
    <2>6. isConnected \in BOOLEAN /\ told \subseteq DOMAIN list /\ connections \subseteq Nodes
      BY <2>3
    <2> QED BY <2>2, <2>4, <2>5, <2>6 DEF LocalTypeOK
  <1>2. IdentityTypeOK
    <2>1. /\ overlay = NoName /\ nodeID = NoId /\ saved = [o \in Names |-> NoId]
          /\ up = FALSE /\ erase = NoName /\ erasing = NoName /\ lives = 0
      BY DEF Init
    <2>2. 0 \in 0 .. MaxLives
      BY BootstrapTypes
    <2>3. saved \in [Names -> LocalIds \cup {NoId}]
      BY <2>1
    <2> QED BY <2>1, <2>2, <2>3 DEF IdentityTypeOK
  <1>3. CacheTypeOK
    BY BootstrapTypes DEF Init, CacheTypeOK
  <1> QED BY <1>1, <1>2, <1>3, TypeParts DEF Init, IInv, NothingWithoutProcess, CacheIsSaved, ErasingIsAsked,
                      JoinsOnce, OneIsKept, Kept, ListBelongsToTheOverlay

LEMMA NextIsSafe ==
  ASSUME IInv, Next
  PROVE  Safe
  <1>1. ASSUME NEW i \in DOMAIN list, Attempt(i) PROVE Safe
    BY <1>1, ConnectedIsSafe, FailedIsSafe, RetryIsSafe DEF Attempt
  <1>2. ASSUME NEW node \in Nodes, Accept(node) \/ ReceivePing(node) \/ RemoveConnection(node)
        PROVE  Safe
    BY <1>2, AcceptIsSafe, ReceivePingIsSafe, RemoveConnectionIsSafe
  <1>3. ASSUME NEW xml \in Files, NEW source \in Origins, NEW args \in CommandLines,
               Start(xml, source, args) \/ StartFails(xml, source, args)
        PROVE  Safe
    BY <1>3, StartIsSafe, StartFailsIsSafe
  <1> QED BY <1>1, <1>2, <1>3, UnlinkedIsSafe DEF Next

LEMMA StutteringIsSafe ==
  ASSUME IInv, UNCHANGED vars
  PROVE  Safe
  <1>1. UNCHANGED <<overlay, nodeID, saved, up, erase, erasing, lives, list, test, phase, told,
                    isConnected, attaches, connections, refused, cache, file>>
    BY DEF vars, identity, local
  <1>2. IInv' /\ KeepsIdentities
    BY <1>1 DEF IInv, TypeOK, NothingWithoutProcess, CacheIsSaved, ErasingIsAsked,
                JoinsOnce, OneIsKept, Kept, ListBelongsToTheOverlay, KeepsIdentities
  <1>3. KeepsCaches
    BY <1>1, CacheStays
  <1> QED BY <1>2, <1>3 DEF Safe

(* The invariant that the results below rest on: types, no tables without a *)
(* process, the cache in memory that of the overlay's file, an unlink only  *)
(* of what was asked for, one Attach on the first connection, one kept      *)
(* connection of a first attempt, and the overlay's own list.               *)
THEOREM Invariance == Spec => []IInv
  <1>1. IInv /\ [Next]_vars => IInv'
    BY NextIsSafe, StutteringIsSafe DEF Safe
  <1> QED BY InitSatisfies, <1>1, PTL DEF Spec

(* The variables keep their types, and no file holds more peers than        *)
(* maxPeerToCache.                                                          *)
THEOREM TypeCorrect == Spec => []TypeOK
  <1>1. IInv => TypeOK
    BY DEF IInv
  <1> QED BY <1>1, Invariance, PTL

(* bootstrapPeerList is that of the overlay's own element of the file, and  *)
(* after it only peers cached in that overlay.                              *)
THEOREM ListIsOfTheOverlay == Spec => []ListBelongsToTheOverlay
  <1>1. IInv => ListBelongsToTheOverlay
    BY DEF IInv
  <1> QED BY <1>1, Invariance, PTL

(* At most one connection of a first attempt is not told to close, however  *)
(* many bootstrap peers answer and in whatever order.                       *)
THEOREM OneFirstAttempt == Spec => []OneFirstAttemptIsKept
  <1>1. IInv => OneFirstAttemptIsKept
    <2> SUFFICES ASSUME IInv PROVE OneFirstAttemptIsKept
      OBVIOUS
    <2> DEFINE S == Kept(phase, test, told)
    <2>1. S = {i \in DOMAIN list \ told : phase[i] = "connected" /\ test[i] = 1}
      BY DEF IInv, TypeOK, Kept
    <2>2. \A i, j \in S : i = j
      BY DEF IInv, OneIsKept
    <2> HIDE DEF S
    <2>3. CASE S = {}
      BY <2>1, <2>3, FS_EmptySet DEF OneFirstAttemptIsKept
    <2>4. CASE S # {}
      <3>1. PICK i : S = {i}
        BY <2>2, <2>4
      <3>2. Cardinality(S) = 1
        BY <3>1, FS_Singleton
      <3> QED BY <2>1, <3>2 DEF OneFirstAttemptIsKept
    <2> QED BY <2>3, <2>4
  <1> QED BY <1>1, Invariance, PTL

(* A life sends at most one joining Attach, to the id that follows its own  *)
(* in the number system of the ids: the carry of addNodeID stops where it   *)
(* should, and the last id is followed by the first.                        *)
THEOREM OneAttach == Spec => []OneAttachToTheNextId
  <1>1. IInv => OneAttachToTheNextId
    <2> SUFFICES ASSUME IInv PROVE OneAttachToTheNextId
      OBVIOUS
    <2>1. CASE isConnected
      <3>1. /\ Len(attaches) = 1 /\ attaches[1].resource = AddNodeID(nodeID)
            /\ nodeID \in Seq(Digit) /\ DOMAIN attaches = 1 .. Len(attaches)
        <4>1. up /\ Len(attaches) = 1 /\ attaches[1].resource = AddNodeID(nodeID)
          BY <2>1 DEF IInv, JoinsOnce
        <4>2. attaches \in Seq(AttachRequests)
          BY TypeParts DEF IInv, LocalTypeOK
        <4> QED BY <4>1, <4>2, WhileUp
      <3>2. /\ Len(AddNodeID(nodeID)) = Len(nodeID)
            /\ NumberOf(AddNodeID(nodeID)) = NextNumber(nodeID)
        BY <3>1, AddNodeIDProperties, NextNumberIsWritten
      <3>3. \A k \in DOMAIN attaches : k = 1
        BY <3>1
      <3> QED BY <3>1, <3>2, <3>3 DEF OneAttachToTheNextId
    <2>2. CASE ~isConnected
      BY <2>2 DEF IInv, JoinsOnce, OneAttachToTheNextId
    <2> QED BY <2>1, <2>2
  <1> QED BY <1>1, Invariance, PTL

(* A saved identity is neither lost nor passed over, but for the start that *)
(* was to erase it or the one after that.                                   *)
THEOREM IdentitiesAreKept == Spec => IdentityIsKept
  <1>1. IInv /\ [Next]_vars => KeepsIdentities
    BY NextIsSafe, StutteringIsSafe DEF Safe
  <1>2. KeepsIdentities => [KeepsIdentities]_vars
    OBVIOUS
  <1> QED BY <1>1, Invariance, PTL DEF Spec, IdentityIsKept, KeepsIdentities

(* The saved cache of an overlay only grows, whatever the lives between.    *)
THEOREM CachesSurvive == Spec => CacheSurvives
  <1>1. IInv /\ [Next]_vars => KeepsCaches
    BY NextIsSafe, StutteringIsSafe DEF Safe
  <1> QED BY <1>1, Invariance, PTL DEF Spec, CacheSurvives, KeepsCaches
=============================================================================
