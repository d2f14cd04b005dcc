------------------------------ MODULE PeerProofs ------------------------------
(***************************************************************************)
(* Proofs about Peer, for any ids and sockets, several sockets to one peer *)
(* included, and any CACHE_SIZE.  There is a lemma per function of the     *)
(* code and one per callback: first that the shared record stays good,     *)
(* then which socket each entry of the connection table is on.             *)
(***************************************************************************)
EXTENDS Peer, ProofLemmas

\* The inductive invariant of the shared record.
Good(p) ==
  /\ p \in PeerState
  /\ p.attached \subseteq p.rtable
  /\ \A j, k \in DOMAIN p.connections :
       p.connections[j].id = p.connections[k].id => j = k
  /\ p.rtable \subseteq Connected(p)
  /\ p.status # "no_carrier"

LEMMA FreshIsGood ==
  /\ Good(Fresh)
  /\ \A why \in Ends \ {"no_carrier"} : Good([Fresh EXCEPT !.status = why])
  <1>1. Fresh \in PeerState
    <2>1. <<>> \in Seq(Connection)
      OBVIOUS
    <2> QED BY <2>1 DEF Fresh, PeerState
  <1>2. /\ Fresh.rtable = {} /\ Fresh.attached = {} /\ Fresh.status = "running"
        /\ Fresh.connections = <<>> /\ DOMAIN Fresh.connections = {}
    BY DEF Fresh
  <1>3. ASSUME NEW why \in Ends \ {"no_carrier"}
        PROVE  Good([Fresh EXCEPT !.status = why])
    BY <1>1, <1>2, <1>3 DEF Good, PeerState
  <1> QED BY <1>1, <1>2, <1>3 DEF Good

LEMMA AddConnectionIsGood ==
  ASSUME NEW p, Good(p), NEW id \in Ids, NEW s \in Sockets
  PROVE  /\ Good(AddConnection(p, id, s))
         /\ Has(AddConnection(p, id, s), id)
  <1>1. CASE Has(p, id)
    BY <1>1 DEF AddConnection
  <1>2. CASE ~Has(p, id)
    <2> DEFINE c == [id |-> id, socket |-> s]
               old == p.connections
               q == [p EXCEPT !.connections = Append(old, c),
                              !.pingTimers = @ \cup {c},
                              !.updateTimers = @ \cup ({s} \cap Channels)]
    <2>1. AddConnection(p, id, s) = q
      BY <1>2 DEF AddConnection
    <2>2. c \in Connection /\ old \in Seq(Connection)
      BY DEF Good, PeerState, Connection
    <2>3. q \in PeerState
      <3>1. Append(old, c) \in Seq(Connection)
        BY <2>2
      <3>2. p.pingTimers \cup {c} \in SUBSET Connection
        BY <2>2 DEF Good, PeerState
      <3>3. p.updateTimers \cup ({s} \cap Channels) \in SUBSET Sockets
        BY DEF Good, PeerState
      <3> HIDE DEF c
      <3> QED BY <3>1, <3>2, <3>3 DEF Good, PeerState
    <2>4. /\ q.connections = Append(old, c) /\ q.rtable = p.rtable
          /\ q.attached = p.attached /\ q.status = p.status
      BY DEF Good, PeerState
    <2> HIDE DEF q
    <2>5. /\ DOMAIN q.connections = 1 .. Len(old) + 1
          /\ DOMAIN old = 1 .. Len(old) /\ Len(old) \in Nat
          /\ q.connections[Len(old) + 1] = c
          /\ \A k \in 1 .. Len(old) : q.connections[k] = old[k]
      BY <2>2, <2>4
    <2>6. \A k \in 1 .. Len(old) : old[k].id # id
      BY <1>2, <2>5 DEF Has
    <2>7. \A n \in Ids : Has(p, n) => Has(q, n)
      BY <2>5 DEF Has
    <2>8. Has(q, id)
      BY <2>5 DEF Has
    <2>9. \A j, k \in DOMAIN q.connections :
            q.connections[j].id = q.connections[k].id => j = k
      <3> SUFFICES ASSUME NEW j \in 1 .. Len(old) + 1, NEW k \in 1 .. Len(old) + 1,
                          q.connections[j].id = q.connections[k].id
                   PROVE  j = k
        BY <2>5
      <3>1. c.id = id
        OBVIOUS
      <3>2. CASE j = Len(old) + 1 \/ k = Len(old) + 1
        BY <2>5, <2>6, <3>1, <3>2
      <3>3. CASE j \in 1 .. Len(old) /\ k \in 1 .. Len(old)
        BY <2>5, <3>3 DEF Good
      <3> QED BY <2>5, <3>2, <3>3
    <2> QED BY <2>1, <2>3, <2>4, <2>7, <2>8, <2>9 DEF Good, Connected
  <1> QED BY <1>1, <1>2

\* Every peer whose connection is in p and not in q is forgotten in q.
NoTrace(p, q) ==
  \A n \in Ids : Has(p, n) /\ ~Has(q, n) => n \notin q.rtable \cup Neighbors(q)

LEMMA RemoveConnectionIsGood ==
  ASSUME NEW p, Good(p), NEW s
  PROVE  LET q == RemoveConnection(p, s)
         IN  /\ Good(q) /\ q.status = p.status /\ NoTrace(p, q)
             /\ \A n : Has(q, n) => Has(p, n)
             /\ q.rtable \subseteq p.rtable /\ Neighbors(q) \subseteq Neighbors(p)
  <1> DEFINE First == \E k \in DOMAIN p.connections : FirstOn(p, s, k)
  <1>1. CASE ~First
    BY <1>1 DEF RemoveConnection, NoTrace
  <1>2. CASE First
    <2> DEFINE k == CHOOSE k \in DOMAIN p.connections : FirstOn(p, s, k)
               old == p.connections
               gone == {old[k].id}
               new == RemoveAt(old, k)
               q == [p EXCEPT !.connections = new,
                        !.rtable = @ \ gone, !.attached = @ \ gone,
                        !.successors = @ \ gone, !.predecessors = @ \ gone]
    <2>1. RemoveConnection(p, s) = q
      BY <1>2 DEF RemoveConnection
    <2>2. old \in Seq(Connection) /\ DOMAIN old = 1 .. Len(old) /\ Len(old) \in Nat
      BY DEF Good, PeerState
    <2>3. k \in 1 .. Len(old)
      BY <1>2, <2>2
    <2> HIDE DEF k
    <2>4. /\ new \in Seq(Connection) /\ Len(new) = Len(old) - 1
          /\ DOMAIN new = 1 .. Len(old) - 1
          /\ \A j \in 1 .. Len(old) - 1 :
               new[j] = IF j < k THEN old[j] ELSE old[j + 1]
      <3>1. /\ new \in Seq(Connection) /\ Len(new) = Len(old) - 1
            /\ \A j \in 1 .. Len(old) - 1 :
                 new[j] = IF j < k THEN old[j] ELSE old[j + 1]
        <4> HIDE DEF old
        <4> QED BY <2>2, <2>3, RemoveAtProperties
      <3> HIDE DEF new
      <3> QED BY <3>1, SMTT(30)
    <2> HIDE DEF new
    <2> DEFINE At(i) == IF i < k THEN i ELSE i + 1
    <2>4a. \A i \in 1 .. Len(old) - 1 : At(i) \in 1 .. Len(old) /\ new[i] = old[At(i)]
      BY <2>2, <2>3, <2>4
    <2>5. q \in PeerState
      BY <2>4 DEF Good, PeerState
    <2>6. /\ q.connections = new /\ q.status = p.status
          /\ q.rtable = p.rtable \ gone /\ q.attached = p.attached \ gone
          /\ q.successors = p.successors \ gone
          /\ q.predecessors = p.predecessors \ gone
      BY DEF Good, PeerState
    <2> HIDE DEF q
    <2>7. \A n : Has(q, n) => Has(p, n)
      <3> HIDE DEF At
      <3> QED BY <2>2, <2>4, <2>4a, <2>6 DEF Has
    <2>8. ASSUME NEW n, Has(p, n), n \notin gone
          PROVE  Has(q, n)
      <3>1. PICK j \in 1 .. Len(old) : old[j].id = n
        BY <2>2, <2>8 DEF Has
      <3>2. j # k
        BY <2>8, <3>1
      <3>3. CASE j < k
        <4>1. j \in 1 .. Len(old) - 1
          BY <2>2, <2>3, <3>1, <3>3
        <4>2. new[j] = old[j]
          BY <2>4, <3>3, <4>1
        <4> QED BY <2>4, <2>6, <3>1, <4>1, <4>2 DEF Has
      <3>4. CASE j > k
        <4>1. j - 1 \in 1 .. Len(old) - 1 /\ ~(j - 1 < k) /\ (j - 1) + 1 = j
          BY <2>2, <2>3, <3>1, <3>4
        <4> QED BY <2>4, <2>6, <3>1, <4>1 DEF Has
      <3> QED BY <2>3, <3>1, <3>2, <3>3, <3>4
    <2>9. \A i, j \in DOMAIN q.connections :
            q.connections[i].id = q.connections[j].id => i = j
      <3>1. \A i, j \in 1 .. Len(old) - 1 : At(i) = At(j) => i = j
        BY <2>2, <2>3
      <3>2. \A i, j \in 1 .. Len(old) : old[i].id = old[j].id => i = j
        BY <2>2 DEF Good
      <3> HIDE DEF At
      <3> SUFFICES ASSUME NEW i \in 1 .. Len(old) - 1, NEW j \in 1 .. Len(old) - 1,
                          new[i].id = new[j].id
                   PROVE  i = j
        BY <2>4, <2>6
      <3>3. At(i) = At(j)
        BY <2>4a, <3>2, SMTT(30)
      <3> QED BY <3>1, <3>3
    <2>10. q.rtable \subseteq Connected(q) /\ q.attached \subseteq q.rtable
      BY <2>6, <2>8 DEF Good, Connected
    <2>11. NoTrace(p, q)
      BY <2>6, <2>8 DEF NoTrace, Neighbors
    <2>12. q.rtable \subseteq p.rtable /\ Neighbors(q) \subseteq Neighbors(p)
      BY <2>6 DEF Neighbors
    <2> QED BY <2>1, <2>5, <2>6, <2>7, <2>9, <2>10, <2>11, <2>12 DEF Good
  <1> QED BY <1>1, <1>2

LEMMA CrashIsGood ==
  ASSUME NEW p, NEW why \in Ends \ {"no_carrier"}
  PROVE  /\ Good(Crash(why)) /\ NoTrace(p, Crash(why))
         /\ Crash(why).status = why
  <1>1. Good(Crash(why))
    BY FreshIsGood DEF Crash
  <1>2. Crash(why).status = why /\ Crash(why).rtable = {} /\ Neighbors(Crash(why)) = {}
    BY DEF Crash, Fresh, Neighbors
  <1> QED BY <1>1, <1>2 DEF NoTrace

LEMMA SocketOfType ==
  ASSUME NEW p, Good(p), NEW id, Has(p, id)
  PROVE  SocketOf(p, id) \in Sockets
  <1>1. p.connections \in Seq(Connection)
    BY DEF Good, PeerState
  <1>2. \A k \in DOMAIN p.connections : p.connections[k].socket \in Sockets
    <2>1. \A k \in DOMAIN p.connections : p.connections[k] \in Connection
      BY <1>1
    <2> QED BY <2>1 DEF Connection
  <1> QED BY <1>2 DEF Has, SocketOf

LEMMA SendIsGood ==
  ASSUME NEW p, Good(p), NEW s
  PROVE  /\ Good(Send(p, s)) /\ NoTrace(p, Send(p, s))
         /\ Send(p, s) = p \/ Send(p, s).status = "closed_channel"
         /\ Good(SendCaught(p, s)) /\ NoTrace(p, SendCaught(p, s))
         /\ SendCaught(p, s).status = p.status
  <1>1. NoTrace(p, p)
    BY DEF NoTrace
  <1>2. "closed_channel" \in Ends \ {"no_carrier"}
    BY DEF Ends
  <1> QED BY <1>1, <1>2, CrashIsGood, RemoveConnectionIsGood DEF Send, SendCaught

LEMMA AddNeighborIsGood ==
  ASSUME NEW p, Good(p), NEW n \in Ids, Has(p, n)
  PROVE  LET q == AddNeighbor(p, n)
         IN  /\ Good(q) /\ n \in q.rtable /\ q.connections = p.connections
             /\ q.status = p.status
  BY ZenonT(40) DEF AddNeighbor, Good, PeerState, Connected, Has

LEMMA SameConnections ==
  ASSUME NEW p, NEW q, q.connections = p.connections
  PROVE  /\ \A n : Has(p, n) <=> Has(q, n)
         /\ Connected(p) = Connected(q) /\ NoTrace(p, q)
  BY DEF Has, Connected, NoTrace

LEMMA AttachToAllNeighborsIsGood ==
  ASSUME NEW p, Good(p), p.connections # <<>>
  PROVE  LET q == AttachToAllNeighbors(p)
         IN  Good(q) /\ q.connections = p.connections /\ q.status = p.status
  <1> DEFINE unlinked == Neighbors(p) \ Connected(p)
             carrier  == IF Has(p, p.AP) THEN SocketOf(p, p.AP)
                                         ELSE p.connections[1].socket
             new == p.rtable \cup (Neighbors(p) \ unlinked)
             g == p.gathering \cup ({carrier} \cap Channels)
             q == [p EXCEPT !.gathering = g, !.rtable = new]
             r == [p EXCEPT !.rtable = @ \cup Neighbors(p)]
  <1>1. new \in SUBSET Ids /\ new \subseteq Connected(p) /\ g \in SUBSET Sockets
    <2>1. Neighbors(p) \subseteq Ids
      BY DEF Good, PeerState, Neighbors
    <2>2. Channels \subseteq Sockets
      BY DEF Channels
    <2> QED BY <2>1, <2>2 DEF Good, PeerState
  <1> HIDE DEF g, new
  <1>2. Good(q) /\ q.connections = p.connections /\ q.status = p.status
    <2>1. q \in PeerState /\ q.connections = p.connections /\ q.status = p.status
          /\ q.rtable = new /\ q.attached = p.attached
      BY <1>1 DEF Good, PeerState
    <2>2. p.rtable \subseteq new
      BY DEF new
    <2> HIDE DEF q
    <2> QED BY <1>1, <2>1, <2>2, SameConnections DEF Good
  <1>3. CASE unlinked = {}
    <2>1. new = p.rtable \cup Neighbors(p)
      BY <1>3 DEF new
    <2>2. r \in PeerState /\ r.connections = p.connections /\ r.status = p.status
          /\ r.rtable = new /\ r.attached = p.attached
      BY <1>1, <2>1 DEF Good, PeerState
    <2>3. p.rtable \subseteq new
      BY DEF new
    <2>4. AttachToAllNeighbors(p) = r
      BY <1>3 DEF AttachToAllNeighbors
    <2> HIDE DEF r
    <2> QED BY <1>1, <2>2, <2>3, <2>4, SameConnections DEF Good
  <1>4. CASE unlinked # {}
    <2>1. AttachToAllNeighbors(p) = q
      BY <1>4 DEF AttachToAllNeighbors, g, new
    <2> QED BY <1>2, <2>1
  <1> QED BY <1>3, <1>4

LEMMA SendUpdatesIsGood ==
  ASSUME NEW p, Good(p)
  PROVE  LET q == SendUpdates(p)
         IN  Good(q) /\ NoTrace(p, q) /\ q.status = p.status
  <1>1. SendUpdates(p) = p \/ \E s : SendUpdates(p) = RemoveConnection(p, s)
    BY DEF SendUpdates
  <1>2. NoTrace(p, p)
    BY DEF NoTrace
  <1> QED BY <1>1, <1>2, RemoveConnectionIsGood

LEMMA SendUpdateToAllNeighborsIsGood ==
  ASSUME NEW p, Good(p), p.connections # <<>>
  PROVE  LET q == SendUpdateToAllNeighbors(p)
         IN  Good(q) /\ NoTrace(p, q) /\ q.status = p.status
  <1> DEFINE q == IF Neighbors(p) \subseteq p.attached THEN p
                                                     ELSE AttachToAllNeighbors(p)
  <1>1. Good(q) /\ q.connections = p.connections /\ q.status = p.status
    BY AttachToAllNeighborsIsGood
  <1>2. SendUpdateToAllNeighbors(p) \in {q, SendUpdates(q)}
    BY DEF SendUpdateToAllNeighbors
  <1> HIDE DEF q
  <1>3. Good(SendUpdates(q)) /\ NoTrace(q, SendUpdates(q))
        /\ SendUpdates(q).status = q.status
    BY <1>1, SendUpdatesIsGood
  <1>4. NoTrace(p, q) /\ NoTrace(p, SendUpdates(q))
    BY <1>1, <1>3, SameConnections DEF NoTrace
  <1> QED BY <1>1, <1>2, <1>3, <1>4

LEMMA HasAnEntry ==
  ASSUME NEW p, NEW id, Has(p, id)
  PROVE  p.connections # <<>>
  <1> SUFFICES ASSUME p.connections = <<>> PROVE FALSE
    OBVIOUS
  <1> QED BY DEF Has

LEMMA SetAttachedIsGood ==
  ASSUME NEW p, Good(p), NEW n \in p.rtable
  PROVE  LET q == SetAttached(p, n)
         IN  Good(q) /\ NoTrace(p, q) /\ q.status = p.status
  <1> DEFINE q == [p EXCEPT !.attached = @ \cup {n}]
  <1>1. Good(q) /\ q.connections = p.connections /\ q.status = p.status
    <2>1. /\ q \in PeerState /\ q.connections = p.connections
          /\ q.status = p.status /\ q.rtable = p.rtable
          /\ q.attached = p.attached \cup {n}
      BY SMTT(30) DEF Good, PeerState
    <2> HIDE DEF q
    <2> QED BY <2>1, SameConnections DEF Good
  <1>2. SetAttached(p, n) \in {q, SendUpdateToAllNeighbors(q)}
    BY DEF SetAttached
  <1> HIDE DEF q
  <1>3. Has(p, n) /\ Has(q, n)
    BY <1>1, SameConnections DEF Good, Connected
  <1>4. LET u == SendUpdateToAllNeighbors(q)
        IN  Good(u) /\ NoTrace(q, u) /\ u.status = q.status
    BY <1>1, <1>3, HasAnEntry, SendUpdateToAllNeighborsIsGood
  <1>5. NoTrace(p, q) /\ NoTrace(p, SendUpdateToAllNeighbors(q))
    BY <1>1, <1>4, SameConnections DEF NoTrace
  <1> QED BY <1>1, <1>2, <1>4, <1>5

LEMMA MergeIsGood ==
  ASSUME NEW p, Good(p), NEW sender \in Ids, Has(p, sender),
         NEW heard \in SUBSET Ids, NEW force \in BOOLEAN
  PROVE  LET q == Merge(p, sender, heard, force)
         IN  Good(q) /\ NoTrace(p, q) /\ q.status = p.status
  <1> DEFINE total == Total(p, sender, heard)
             ahead == Nearest(total, Ahead, CACHE_SIZE)
             behind == Nearest(total, Behind, CACHE_SIZE)
             q == [p EXCEPT !.successors = ahead, !.predecessors = behind]
  <1>1. ahead \in SUBSET Ids /\ behind \in SUBSET Ids
    <2>1. total \subseteq Ids
      BY DEF Total, Good, PeerState, Neighbors, Connected
    <2>2. \A S, rank, k : Nearest(S, rank, k) \subseteq S
      BY DEF Nearest
    <2> HIDE DEF total
    <2> QED BY <2>1, <2>2
  <1>2. Merge(p, sender, heard, force) \in {q, SendUpdateToAllNeighbors(q)}
    BY DEF Merge
  <1> HIDE DEF ahead, behind
  <1>3. Good(q) /\ q.connections = p.connections /\ q.status = p.status
    <2>1. /\ q \in PeerState /\ q.connections = p.connections
          /\ q.status = p.status /\ q.rtable = p.rtable
          /\ q.attached = p.attached
      BY <1>1 DEF Good, PeerState
    <2> HIDE DEF q
    <2> QED BY <2>1, SameConnections DEF Good
  <1> HIDE DEF q
  <1>4. LET u == SendUpdateToAllNeighbors(q)
        IN  Good(u) /\ NoTrace(q, u) /\ u.status = q.status
    BY <1>3, HasAnEntry, SendUpdateToAllNeighborsIsGood
  <1>5. NoTrace(p, q) /\ NoTrace(p, SendUpdateToAllNeighbors(q))
    BY <1>3, <1>4, SameConnections DEF NoTrace
  <1> QED BY <1>2, <1>3, <1>4, <1>5

LEMMA LeaveIsGood ==
  ASSUME NEW p, Good(p), NEW id \in Ids, Has(p, id)
  PROVE  LET q == Leave(p, id)
         IN  Good(q) /\ NoTrace(p, q) /\ q.status = p.status
  <1> DEFINE timers == TimersBut(p, id)
             ap == IF p.AP = id THEN NoId ELSE p.AP
             q == [p EXCEPT !.AP = ap,
                     !.successors = @ \ {id}, !.predecessors = @ \ {id},
                     !.rtable = @ \ {id}, !.attached = @ \ {id},
                     !.pingTimers = timers]
  <1>1. timers \in SUBSET Connection /\ ap \in Ids \cup {NoId}
    BY DEF TimersBut, Good, PeerState
  <1>2. Leave(p, id) \in {q, SendUpdateToAllNeighbors(q)}
    BY DEF Leave
  <1> HIDE DEF timers, ap
  <1>3. Good(q) /\ q.connections = p.connections /\ q.status = p.status
    <2>1. /\ q \in PeerState /\ q.connections = p.connections
          /\ q.status = p.status /\ q.rtable = p.rtable \ {id}
          /\ q.attached = p.attached \ {id}
      BY <1>1 DEF Good, PeerState
    <2> HIDE DEF q
    <2> QED BY <2>1, SameConnections DEF Good
  <1> HIDE DEF q
  <1>4. LET u == SendUpdateToAllNeighbors(q)
        IN  Good(u) /\ NoTrace(q, u) /\ u.status = q.status
    BY <1>3, HasAnEntry, SendUpdateToAllNeighborsIsGood
  <1>5. NoTrace(p, q) /\ NoTrace(p, SendUpdateToAllNeighbors(q))
    BY <1>3, <1>4, SameConnections DEF NoTrace
  <1> QED BY <1>2, <1>3, <1>4, <1>5

-----------------------------------------------------------------------------
IInv == Good(peer) /\ sockets \in [Sockets -> SocketState]

StepOK == /\ Good(peer') /\ NoTrace(peer, peer')
          /\ sockets' \in [Sockets -> SocketState]
          /\ peer'.status = "no_next_hop" => peer.successors = {} \/ peer.rtable = {}

LEMMA RegisteredIsGood ==
  ASSUME IInv, NEW s \in Sockets
  PROVE  LET p == Registered(s)
         IN  /\ Good(p) /\ Has(p, Remote[s]) /\ NoTrace(peer, p)
             /\ Remote[s] \in Ids
             /\ \A n : Has(peer, n) => Has(p, n)
             /\ p.status = peer.status /\ p.rtable = peer.rtable
             /\ p.successors = peer.successors
  <1> DEFINE sender == Remote[s]
             p == Registered(s)
  <1>0. sender \in Ids
    BY PeerAssumption
  <1>1. Good(p) /\ Has(p, sender)
    BY <1>0, AddConnectionIsGood DEF IInv, Registered
  <1>2. p.status = peer.status /\ p.rtable = peer.rtable
        /\ p.successors = peer.successors
    BY DEF Registered, AddConnection, IInv, Good, PeerState
  <1>3. \A n : Has(peer, n) => Has(p, n)
    <2>1. CASE p = peer
      BY <2>1
    <2>2. CASE p.connections = Append(peer.connections, [id |-> sender, socket |-> s])
      <3>1. peer.connections \in Seq(Connection)
        BY DEF IInv, Good, PeerState
      <3>2. [id |-> sender, socket |-> s] \in Connection
        BY <1>0 DEF Connection
      <3> QED BY <2>2, <3>1, <3>2 DEF Has
    <2> QED BY <2>1, <2>2 DEF Registered, AddConnection, IInv, Good, PeerState
  <1>4. NoTrace(peer, p)
    BY <1>3 DEF NoTrace
  <1> QED BY <1>0, <1>1, <1>2, <1>3, <1>4

\* What follows the registration may lose connections, with their traces.
LEMMA AfterRegistration ==
  ASSUME IInv, NEW s \in Sockets,
         NEW q, NoTrace(Registered(s), q)
  PROVE  NoTrace(peer, q)
  BY RegisteredIsGood DEF NoTrace

LEMMA MessageStep ==
  ASSUME IInv, NEW s \in Sockets,
         \/ ReceiveAttachRequest(s)
         \/ ReceiveAttachAnswer(s)
         \/ ReceiveProbe(s)
         \/ ReceiveNoReply(s)
  PROVE  StepOK
  <1> DEFINE p == Registered(s)
  <1>1. Good(p) /\ Has(p, Remote[s]) /\ Remote[s] \in Ids /\ p.status = "running"
    BY RegisteredIsGood DEF ReceiveAttachRequest, ReceiveAttachAnswer,
       ReceiveProbe, ReceiveNoReply, Arrives, Running
  <1>2. CASE ReceiveAttachRequest(s)
    <2> DEFINE q == [p EXCEPT !.answering = @ \cup {Remote[s]}]
    <2>1. /\ q \in PeerState /\ q.connections = p.connections
          /\ q.status = p.status /\ q.rtable = p.rtable
          /\ q.attached = p.attached
      <3> HIDE DEF p
      <3> QED BY <1>1 DEF Good, PeerState
    <2>2. peer' = q
      BY <1>2 DEF ReceiveAttachRequest
    <2> HIDE DEF q
    <2>3. Good(q) /\ NoTrace(p, q)
      BY <1>1, <2>1, SameConnections DEF Good
    <2> QED BY <1>1, <1>2, <2>1, <2>2, <2>3, AfterRegistration
            DEF StepOK, IInv, ReceiveAttachRequest
  <1>3. CASE ReceiveAttachAnswer(s)
    BY <1>1, <1>3, RegisteredIsGood
       DEF StepOK, IInv, ReceiveAttachAnswer, NewChannel, SocketState
  <1>4. CASE ReceiveProbe(s)
    BY <1>1, <1>4, SendIsGood, AfterRegistration
       DEF StepOK, IInv, ReceiveProbe, SendBack
  <1>5. CASE ReceiveNoReply(s)
    BY <1>1, <1>5, RegisteredIsGood DEF StepOK, IInv, ReceiveNoReply
  <1> QED BY <1>2, <1>3, <1>4, <1>5

LEMMA JoinRequestStep ==
  ASSUME IInv, NEW s \in Sockets, ReceiveJoinRequest(s)
  PROVE  StepOK
  <1> DEFINE sender == Remote[s]
             r == Registered(s)
             p == SendBack(r, sender)
             n == AddNeighbor(p, sender)
  <1>1. Good(r) /\ Has(r, sender) /\ sender \in Ids /\ r.status = "running"
    BY RegisteredIsGood DEF ReceiveJoinRequest, Arrives, Running
  <1>2. peer' = IF p.status = "running" THEN SetAttached(n, sender) ELSE p
    BY DEF ReceiveJoinRequest
  <1> HIDE DEF sender, r
  <1>3. Good(p) /\ NoTrace(r, p) /\ (p = r \/ p.status = "closed_channel")
    BY <1>1, SendIsGood DEF SendBack
  <1> HIDE DEF p
  <1>4. CASE p.status = "running"
    <2>1. /\ Good(n) /\ sender \in n.rtable /\ n.connections = r.connections
          /\ n.status = "running"
      BY <1>1, <1>3, <1>4, AddNeighborIsGood
    <2> HIDE DEF n
    <2>2. /\ Good(SetAttached(n, sender)) /\ NoTrace(n, SetAttached(n, sender))
          /\ SetAttached(n, sender).status = "running"
      BY <2>1, SetAttachedIsGood
    <2>3. NoTrace(r, SetAttached(n, sender))
      BY <2>1, <2>2, SameConnections DEF NoTrace
    <2> QED BY <1>2, <1>4, <2>2, <2>3, AfterRegistration
            DEF StepOK, IInv, ReceiveJoinRequest, r
  <1>5. CASE p.status # "running"
    BY <1>1, <1>2, <1>3, <1>5, AfterRegistration
       DEF StepOK, IInv, ReceiveJoinRequest, r
  <1> QED BY <1>4, <1>5

LEMMA LeaveRequestStep ==
  ASSUME IInv, NEW s \in Sockets, ReceiveLeaveRequest(s)
  PROVE  StepOK
  <1> DEFINE sender == Remote[s]
             r == Registered(s)
             p == Leave(r, sender)
             q == RemoveConnection(p, SocketOf(p, sender))
  <1>1. Good(r) /\ Has(r, sender) /\ sender \in Ids /\ r.status = "running"
    BY RegisteredIsGood DEF ReceiveLeaveRequest, Arrives, Running
  <1>2. peer' \in {p, q} /\ sockets' = sockets
    BY DEF ReceiveLeaveRequest, LeaveHandled
  <1> HIDE DEF sender, r
  <1>3. Good(p) /\ NoTrace(r, p) /\ p.status = "running"
    BY <1>1, LeaveIsGood
  <1> HIDE DEF p
  <1>4. /\ Good(q) /\ NoTrace(p, q) /\ q.status = "running"
        /\ q.rtable \subseteq p.rtable /\ Neighbors(q) \subseteq Neighbors(p)
    BY <1>3, RemoveConnectionIsGood
  <1> HIDE DEF q
  <1>5. NoTrace(r, q)
    BY <1>3, <1>4 DEF NoTrace
  <1> QED BY <1>2, <1>3, <1>4, <1>5, AfterRegistration DEF StepOK, IInv, r

LEMMA JoinAnswerStep ==
  ASSUME IInv, NEW s \in Sockets, ReceiveJoinAnswer(s)
  PROVE  StepOK
  <1> DEFINE sender == Remote[s]
             r == Registered(s)
             p == AddNeighbor(r, sender)
             u == SetAttached(p, sender)
             q == [u EXCEPT !.topologyJoined = TRUE]
  <1>1. Good(r) /\ Has(r, sender) /\ sender \in Ids /\ r.status = "running"
    BY RegisteredIsGood DEF ReceiveJoinAnswer, Arrives, Running
  <1>2. peer' = q /\ sockets' = sockets
    BY DEF ReceiveJoinAnswer
  <1> HIDE DEF sender, r
  <1>3. /\ Good(p) /\ sender \in p.rtable /\ p.connections = r.connections
        /\ p.status = "running"
    BY <1>1, AddNeighborIsGood
  <1> HIDE DEF p
  <1>4. Good(u) /\ NoTrace(p, u) /\ u.status = "running"
    BY <1>3, SetAttachedIsGood
  <1> HIDE DEF u
  <1>5. /\ q \in PeerState /\ q.connections = u.connections
        /\ q.status = u.status /\ q.rtable = u.rtable /\ q.attached = u.attached
        /\ Neighbors(q) = Neighbors(u)
    BY <1>4 DEF Good, PeerState, Neighbors
  <1> HIDE DEF q
  <1>6. Good(q)
    BY <1>4, <1>5, SameConnections DEF Good
  <1>7. NoTrace(r, q)
    BY <1>3, <1>4, <1>5, SameConnections DEF NoTrace
  <1> QED BY <1>2, <1>4, <1>5, <1>6, <1>7, AfterRegistration DEF StepOK, IInv, r

LEMMA UpdateAnswerStep ==
  ASSUME IInv, NEW s \in Sockets,
         NEW heard \in SUBSET (Ids \ {Local}), ReceiveUpdateAnswer(s, heard)
  PROVE  StepOK
  <1> DEFINE sender == Remote[s]
             r == Registered(s)
             completes == r.AP = sender /\ ~Initiator /\ ~r.joined
             joined == r.joined \/ completes
             p == [r EXCEPT !.joined = joined]
             q == Merge(p, sender, heard, completes)
  <1>1. Good(r) /\ Has(r, sender) /\ sender \in Ids /\ r.status = "running"
    BY RegisteredIsGood DEF ReceiveUpdateAnswer, Arrives, Running
  <1>2. peer' = q /\ sockets' = sockets
    BY DEF ReceiveUpdateAnswer
  <1> HIDE DEF sender, r
  <1>3. joined \in BOOLEAN /\ completes \in BOOLEAN
    BY <1>1 DEF Good, PeerState
  <1> HIDE DEF joined, completes
  <1>4. /\ p \in PeerState /\ p.connections = r.connections
        /\ p.status = r.status /\ p.rtable = r.rtable /\ p.attached = r.attached
    BY <1>1, <1>3 DEF Good, PeerState
  <1> HIDE DEF p
  <1>5. Good(p) /\ Has(p, sender)
    BY <1>1, <1>4, SameConnections DEF Good
  <1>6. Good(q) /\ NoTrace(p, q) /\ q.status = "running"
    BY <1>1, <1>3, <1>4, <1>5, MergeIsGood
  <1> HIDE DEF q
  <1>7. NoTrace(r, q)
    BY <1>4, <1>6, SameConnections DEF NoTrace
  <1> QED BY <1>2, <1>6, <1>7, AfterRegistration DEF StepOK, IInv, r

\* forwardMessage drops nothing that leaves a trace, and misses its hop only
\* when there was no table to take one from.
LEMMA ForwardStep ==
  ASSUME IInv, NEW s \in Sockets, NEW dest \in Destinations,
         Forward(s, dest)
  PROVE  StepOK
  <1> DEFINE p == Registered(s)
             id == dest.id
  <1>1. /\ Good(p) /\ NoTrace(peer, p) /\ p.status = peer.status
        /\ p.rtable = peer.rtable /\ p.successors = peer.successors
    BY RegisteredIsGood
  <1>2. peer.status = "running"
    BY DEF Forward, Arrives, Running
  <1>3. PICK hop \in NextHops(p, id) : peer' = Forwarded(p, id, hop)
    BY DEF Forward
  <1>4. sockets' = sockets
    BY DEF Forward
  <1> HIDE DEF p, id
  <1>5. \A why \in {"unlinked_successor", "no_next_hop"} :
          Good(Crash(why)) /\ NoTrace(p, Crash(why)) /\ Crash(why).status = why
    BY CrashIsGood DEF Ends
  <1>6. /\ Good(Forwarded(p, id, hop)) /\ NoTrace(p, Forwarded(p, id, hop))
    BY <1>1, <1>5, SendIsGood DEF Forwarded
  <1>7. ASSUME peer'.status = "no_next_hop", p.successors # {}, p.rtable # {}
        PROVE  FALSE
    <2>1. \A t : Send(p, t).status # "no_next_hop"
      BY <1>1, <1>2, SendIsGood
    <2>2. /\ ~Has(p, id) /\ ~LookupFails(p, id) /\ ~Has(p, hop)
      BY <1>3, <1>5, <1>7, <2>1 DEF Forwarded
    <2>3. hop \in p.rtable
      BY <1>3, <1>7, <2>2 DEF NextHops, LookupFails
    <2> QED BY <1>1, <2>2, <2>3 DEF Good, Connected
  <1> QED BY <1>1, <1>3, <1>4, <1>6, <1>7, AfterRegistration DEF StepOK, IInv, p

LEMMA AnswerReadyStep ==
  ASSUME IInv, NEW h \in Ids, AnswerReady(h)
  PROVE  StepOK
  <1> DEFINE p == [peer EXCEPT !.answering = @ \ {h}]
  <1>1. /\ p \in PeerState /\ p.connections = peer.connections
        /\ p.status = peer.status /\ p.rtable = peer.rtable
        /\ p.attached = peer.attached
    BY DEF IInv, Good, PeerState
  <1>2. \E hop \in NextHops(p, h) :
           peer' = IF Has(p, h) THEN SendCaught(p, SocketOf(p, h))
                   ELSE IF LookupFails(p, h) THEN Crash("unlinked_successor")
                   ELSE IF Has(p, hop) THEN SendCaught(p, SocketOf(p, hop))
                   ELSE p
    BY DEF AnswerReady
  <1>3. sockets' \in [Sockets -> SocketState]
    BY DEF AnswerReady, NewChannel, IInv, SocketState
  <1> HIDE DEF p
  <1>4. Good(p) /\ NoTrace(p, p) /\ NoTrace(peer, p)
    BY <1>1, SameConnections DEF IInv, Good, NoTrace
  <1>5. Good(Crash("unlinked_successor")) /\ NoTrace(p, Crash("unlinked_successor"))
        /\ Crash("unlinked_successor").status = "unlinked_successor"
    BY CrashIsGood DEF Ends
  <1>6. Good(peer') /\ NoTrace(p, peer') /\ peer'.status # "no_next_hop"
    <2>1. p.status = "running"
      BY <1>1 DEF AnswerReady, Running
    <2> QED BY <1>2, <1>4, <1>5, <2>1, SendIsGood
  <1>7. NoTrace(peer, peer')
    BY <1>1, <1>6, SameConnections DEF NoTrace
  <1> QED BY <1>3, <1>6, <1>7 DEF StepOK

\* Bringing in a field that the invariant does not mention changes nothing.
LEMMA SameTables ==
  ASSUME NEW p, Good(p), NEW q \in PeerState,
         q.connections = p.connections, q.status = p.status,
         q.rtable = p.rtable, q.attached = p.attached
  PROVE  Good(q)
  BY SameConnections DEF Good

LEMMA ReceiveIdentityStep ==
  ASSUME IInv, NEW s \in Sockets, ReceiveIdentity(s)
  PROVE  StepOK
  <1> DEFINE r == Remote[s]
             p == AddConnection(AddNeighbor(peer, r), r, s)
             joining == ~p.joined /\ ~Initiator
             q == IF joining THEN Send(p, SocketOf(p, r)) ELSE p
             t == [q EXCEPT !.AP = r]
  <1>1. r \in Ids
    BY PeerAssumption
  <1>2. peer' \in {q, t} /\ sockets' = sockets
    BY DEF ReceiveIdentity
  <1> HIDE DEF r
  \* The routing table entry comes first, the connection second: the order
  \* does not matter for what they leave behind.
  <1>3. p = AddNeighbor(AddConnection(peer, r, s), r)
    BY DEF AddNeighbor, AddConnection, Has, IInv, Good, PeerState
  <1>4. LET c == AddConnection(peer, r, s) IN Good(c) /\ Has(c, r)
    BY <1>1, AddConnectionIsGood DEF IInv
  <1> HIDE DEF p
  <1>5. Good(p) /\ p.connections = AddConnection(peer, r, s).connections
    BY <1>1, <1>3, <1>4, AddNeighborIsGood
  <1>6. NoTrace(peer, p)
    BY <1>1, <1>5, RegisteredIsGood, SameConnections DEF NoTrace, Registered, r
  <1>7. \A n : Has(peer, n) => Has(p, n)
    BY <1>1, <1>5, RegisteredIsGood, SameConnections DEF Registered, r
  <1>8. Good(q) /\ NoTrace(p, q) /\ q.status # "no_next_hop"
    <2>1. p.status = "running"
      BY <1>3 DEF ReceiveIdentity, Running, AddNeighbor, AddConnection, IInv, Good, PeerState
    <2> QED BY <1>5, <2>1, SendIsGood DEF NoTrace
  <1> HIDE DEF q
  <1>9. /\ t \in PeerState /\ t.connections = q.connections
        /\ t.status = q.status /\ t.rtable = q.rtable /\ t.attached = q.attached
        /\ Neighbors(t) = Neighbors(q)
    BY <1>1, <1>8 DEF Good, PeerState, Neighbors
  <1> HIDE DEF t
  <1>10. Good(t)
    BY <1>8, <1>9, SameTables
  <1>11. NoTrace(peer, q) /\ NoTrace(peer, t)
    BY <1>7, <1>8, <1>9, SameConnections DEF NoTrace
  <1> QED BY <1>2, <1>8, <1>9, <1>10, <1>11 DEF StepOK, IInv

LEMMA BootstrapConnectedStep ==
  ASSUME IInv, NEW s \in Sockets, BootstrapConnected(s)
  PROVE  StepOK
  <1> DEFINE p == Registered(s)
             g == p.gathering \cup ({SocketOf(p, Remote[s])} \cap Channels)
             q == [p EXCEPT !.isConnected = TRUE, !.gathering = g]
  <1>1. Remote[s] \in Ids
    BY PeerAssumption
  <1>2. /\ Good(p) /\ NoTrace(peer, p) /\ p.status = "running"
        /\ \A n : Has(peer, n) => Has(p, n)
    BY <1>1, RegisteredIsGood DEF BootstrapConnected, Becomes, Running
  <1>3. peer' \in {p, q}
    BY DEF BootstrapConnected, Registered
  <1>4. sockets' \in [Sockets -> SocketState]
    BY DEF BootstrapConnected, Becomes, IInv, SocketState
  <1> HIDE DEF p
  <1>5. g \in SUBSET Sockets
    BY <1>2 DEF Good, PeerState, Channels
  <1> HIDE DEF g
  <1>6. /\ q \in PeerState /\ q.connections = p.connections
        /\ q.status = p.status /\ q.rtable = p.rtable /\ q.attached = p.attached
    BY <1>2, <1>5 DEF Good, PeerState
  <1> HIDE DEF q
  <1>7. Good(q) /\ NoTrace(peer, q)
    BY <1>2, <1>6, SameTables, SameConnections DEF NoTrace
  <1> QED BY <1>2, <1>3, <1>4, <1>6, <1>7 DEF StepOK

LEMMA SocketStepIsGood ==
  ASSUME IInv, NEW s \in Sockets, SocketStep(s)
  PROVE  StepOK
  <1>1. Good(peer) /\ sockets \in [Sockets -> SocketState] /\ NoTrace(peer, peer)
        /\ peer.status = "running"
    BY DEF IInv, NoTrace, SocketStep, Accept, BootstrapConnected, ChannelOpen,
       ReceiveIdentity, ReceiveClose, SocketError, CloseEvent, Becomes,
       UpdateTick, CandidatesGathered, Running
  <1>2. ASSUME NEW from, NEW to \in SocketState, Becomes(s, from, to),
               peer' \in {peer, RemoveConnection(peer, s)}
        PROVE  StepOK
    BY <1>1, <1>2, RemoveConnectionIsGood DEF StepOK, Becomes
  <1>3. CASE Accept(s) \/ ChannelOpen(s) \/ ReceiveClose(s) \/ SocketError(s) \/ CloseEvent(s)
    BY <1>2, <1>3 DEF Accept, ChannelOpen, ReceiveClose, SocketError, CloseEvent, SocketState
  <1>4. CASE UpdateTick(s)
    BY <1>1, <1>4, SendIsGood DEF StepOK, UpdateTick
  <1>5. CASE CandidatesGathered(s)
    <2> DEFINE p == [peer EXCEPT !.gathering = @ \ {s}]
    <2>1. /\ p \in PeerState /\ p.connections = peer.connections
          /\ p.status = peer.status /\ p.rtable = peer.rtable
          /\ p.attached = peer.attached
      BY <1>1 DEF Good, PeerState
    <2>2. peer' = Send(p, s) /\ sockets' = sockets
      BY <1>5 DEF CandidatesGathered
    <2> HIDE DEF p
    <2>3. Good(p)
      BY <1>1, <2>1, SameTables
    <2>4. Good(Send(p, s)) /\ NoTrace(p, Send(p, s)) /\ Send(p, s).status # "no_next_hop"
      BY <1>1, <2>1, <2>3, SendIsGood
    <2>5. NoTrace(peer, Send(p, s))
      BY <2>1, <2>4, SameConnections DEF NoTrace
    <2> QED BY <1>1, <2>2, <2>4, <2>5 DEF StepOK
  <1> QED BY <1>3, <1>4, <1>5, ReceiveIdentityStep, BootstrapConnectedStep
          DEF SocketStep

LEMMA TimerStep ==
  ASSUME IInv, NEW t \in Connection, PingTick(t) \/ PingTimeout(t)
  PROVE  StepOK
  <1>1. Good(peer) /\ sockets \in [Sockets -> SocketState] /\ NoTrace(peer, peer)
        /\ peer.status = "running"
    BY DEF IInv, NoTrace, PingTick, PingTimeout, Running
  <1>2. CASE PingTick(t)
    BY <1>1, <1>2, SendIsGood DEF StepOK, PingTick
  <1>3. CASE PingTimeout(t)
    <2> DEFINE p == RemoveConnection(peer, t.socket)
               timers == TimersBut(peer, t.id)
               q == [p EXCEPT !.pingTimers = timers]
    <2>1. Good(p) /\ NoTrace(peer, p) /\ p.status = "running"
      BY <1>1, RemoveConnectionIsGood
    <2>2. peer' = q
      BY <1>3 DEF PingTimeout
    <2>3. sockets' \in [Sockets -> SocketState]
      BY <1>1, <1>3 DEF PingTimeout, SocketState
    <2>4. timers \in SUBSET Connection
      BY <1>1 DEF TimersBut, Good, PeerState
    <2> HIDE DEF p, timers
    <2>5. /\ q \in PeerState /\ q.connections = p.connections
          /\ q.status = p.status /\ q.rtable = p.rtable /\ q.attached = p.attached
          /\ Neighbors(q) = Neighbors(p)
      BY <2>1, <2>4 DEF Good, PeerState, Neighbors
    <2> HIDE DEF q
    <2>6. Good(q) /\ NoTrace(peer, q)
      BY <2>1, <2>5, SameTables, SameConnections DEF NoTrace
    <2> QED BY <2>1, <2>2, <2>3, <2>5, <2>6 DEF StepOK
  <1> QED BY <1>2, <1>3

LEMMA InterruptStep ==
  ASSUME IInv, Interrupt
  PROVE  StepOK
  <1>1. PICK why \in {"exit", "closed_channel"} : peer' = Crash(why)
    BY DEF Interrupt
  <1>2. Good(peer') /\ NoTrace(peer, peer') /\ peer'.status = why
    BY <1>1, CrashIsGood DEF Ends
  <1> QED BY <1>2 DEF StepOK, IInv, Interrupt

LEMMA NextStep ==
  ASSUME IInv, Next
  PROVE  StepOK
  <1>1. ASSUME NEW s \in Sockets, Receive(s)
        PROVE  StepOK
    <2>1. CASE \E heard \in SUBSET (Ids \ {Local}) : ReceiveUpdateAnswer(s, heard)
      BY <2>1, UpdateAnswerStep
    <2>2. CASE \E dest \in Destinations : Forward(s, dest)
      BY <2>2, ForwardStep
    <2> QED BY <1>1, <2>1, <2>2, MessageStep, JoinRequestStep, LeaveRequestStep,
               JoinAnswerStep DEF Receive
  <1> QED BY <1>1, SocketStepIsGood, AnswerReadyStep, TimerStep, InterruptStep DEF Next

LEMMA StutterStep ==
  ASSUME IInv, UNCHANGED vars
  PROVE  IInv'
  BY DEF vars, IInv, Good, Connected, Has

(* The inductive invariant holds in every state of every run.               *)
THEOREM Invariance == Spec => []IInv
  <1>1. Init => IInv
    BY FreshIsGood DEF Init, IInv, SocketState
  <1>2. IInv /\ [Next]_vars => IInv'
    <2>1. ASSUME IInv, Next PROVE IInv'
      BY <2>1, NextStep DEF StepOK, IInv, Good, Connected, Has
    <2> QED BY <2>1, StutterStep
  <1> QED BY <1>1, <1>2, PTL DEF Spec

(* The two tables hold what they are meant to hold, in every state of every *)
(* run, whatever the ids and the sockets are.                               *)
THEOREM TypeCorrect == Spec => []TypeOK
  <1>1. IInv => TypeOK
    BY DEF IInv, Good, TypeOK
  <1> QED BY <1>1, Invariance, PTL

(* addConnection keeps the connection table a map from ids (and              *)
(* removeConnection does not disturb it).                                    *)
THEOREM OneEntryPerPeer == Spec => []OneConnectionPerPeer
  <1>1. IInv => OneConnectionPerPeer
    BY DEF IInv, Good, OneConnectionPerPeer
  <1> QED BY <1>1, Invariance, PTL

(* The routing table never holds an id that the connection table lacks.      *)
THEOREM RoutingFollowsConnections == Spec => []RoutedAreConnected
  <1>1. IInv => RoutedAreConnected
    BY DEF IInv, Good, RoutedAreConnected
  <1> QED BY <1>1, Invariance, PTL

(* attachToAllNeighbors never finds the connection table empty.              *)
THEOREM CarrierExists == Spec => []AlwaysACarrier
  <1>1. IInv => AlwaysACarrier
    BY DEF IInv, Good, AlwaysACarrier
  <1> QED BY <1>1, Invariance, PTL

(* Forwarding runs out of connected hops only when a table it looks in is    *)
(* empty.                                                                    *)
THEOREM HopsAreConnected == Spec => NullHopOnlyWithoutTable
  <1>1. IInv /\ [Next]_vars =>
          [peer'.status = "no_next_hop" => peer.successors = {} \/ peer.rtable = {}]_vars
    BY NextStep DEF StepOK
  <1> QED BY <1>1, Invariance, PTL DEF Spec, NullHopOnlyWithoutTable

(* A handler that drops a connection leaves no trace of the peer in the      *)
(* routing table or in the neighbour lists.                                  *)
THEOREM DropsAreComplete == Spec => DropLeavesNoTrace
  <1>1. IInv /\ [Next]_vars =>
          [\A n \in Connected(peer) \ Connected(peer') :
             n \notin peer'.rtable \cup Neighbors(peer')]_vars
    BY NextStep DEF StepOK, NoTrace, Connected
  <1> QED BY <1>1, Invariance, PTL DEF Spec, DropLeavesNoTrace

-----------------------------------------------------------------------------
(* The entries of the connection table: which socket an entry is on, and   *)
(* what follows from that for sockets that close, for a peer that leaves,  *)
(* and for the admitting peer.                                             *)


Entries(p) == Range(p.connections)

\* What a trace of a peer would be in, but for the connection table.
Tables(p) == p.rtable \cup Neighbors(p)

\* An entry has the id of the peer at the other end of its socket.
EntryNamesRemote(p) == \A e \in Entries(p) : e.id = Remote[e.socket]

Wired(p) == Good(p) /\ EntryNamesRemote(p)

\* q comes of p by what an update may do: entries go, those on dead channels,
\* and the tables hold nobody new.
Sheds(p, q) ==
  /\ Entries(q) \subseteq Entries(p)
  /\ \A e \in Entries(p) \ Entries(q) : Dead(e.socket)
  /\ Tables(q) \subseteq Tables(p)
  /\ q.joined = p.joined /\ q.AP = p.AP

LEMMA EntriesOf ==
  ASSUME NEW p
  PROVE  /\ Entries(p) = {p.connections[k] : k \in DOMAIN p.connections}
         /\ \A n : Has(p, n) <=> \E e \in Entries(p) : e.id = n
  BY DEF Entries, Range, Has

LEMMA EntriesType ==
  ASSUME NEW p, Good(p)
  PROVE  Entries(p) \subseteq Connection
  <1>1. p.connections \in Seq(Connection)
    BY DEF Good, PeerState
  <1> QED BY <1>1, EntriesOf

LEMMA OneEntryPerId ==
  ASSUME NEW p, Good(p), NEW e \in Entries(p), NEW f \in Entries(p), e.id = f.id
  PROVE  e = f
  BY EntriesOf DEF Good

\* addConnection adds the pair, or nothing.
LEMMA AddConnectionEntries ==
  ASSUME NEW p, Good(p), NEW id \in Ids, NEW s \in Sockets
  PROVE  LET q == AddConnection(p, id, s)
         IN  /\ Entries(q) = IF Has(p, id) THEN Entries(p)
                             ELSE Entries(p) \cup {[id |-> id, socket |-> s]}
             /\ q.joined = p.joined /\ q.AP = p.AP /\ q.status = p.status
             /\ Tables(q) = Tables(p)
  <1> DEFINE c == [id |-> id, socket |-> s]
             q == AddConnection(p, id, s)
  <1>1. CASE Has(p, id)
    BY <1>1 DEF AddConnection
  <1>2. CASE ~Has(p, id)
    <2>1. /\ q.connections = Append(p.connections, c)
          /\ q.joined = p.joined /\ q.AP = p.AP /\ q.status = p.status
          /\ Tables(q) = Tables(p)
      BY <1>2 DEF AddConnection, Good, PeerState, Tables, Neighbors
    <2>2. p.connections \in Seq(Connection) /\ c \in Connection
      BY DEF Good, PeerState, Connection
    <2> HIDE DEF c, q
    <2>3. /\ DOMAIN q.connections = 1 .. Len(p.connections) + 1
          /\ DOMAIN p.connections = 1 .. Len(p.connections) /\ Len(p.connections) \in Nat
          /\ q.connections[Len(p.connections) + 1] = c
          /\ \A k \in 1 .. Len(p.connections) : q.connections[k] = p.connections[k]
      BY <2>1, <2>2
    <2>4. Entries(q) = Entries(p) \cup {c}
      BY <2>3, EntriesOf, SMTT(30)
    <2> QED BY <1>2, <2>1, <2>4 DEF c, q
  <1> QED BY <1>1, <1>2

\* removeConnection takes the first entry on the socket, and there is no
\* second: entries on one socket name one peer.
LEMMA RemoveConnectionEntries ==
  ASSUME NEW p, Wired(p), NEW s
  PROVE  LET q == RemoveConnection(p, s)
         IN  /\ Entries(q) = {e \in Entries(p) : e.socket # s}
             /\ Tables(q) \subseteq Tables(p)
             /\ q.joined = p.joined /\ q.AP = p.AP
             /\ \A e \in Entries(p) : e.socket = s => e.id \notin Tables(q)
  <1> DEFINE q == RemoveConnection(p, s)
             old == p.connections
  <1>1. old \in Seq(Connection) /\ DOMAIN old = 1 .. Len(old) /\ Len(old) \in Nat
    BY DEF Wired, Good, PeerState
  <1>2. \A j, k \in DOMAIN old : old[j].socket = old[k].socket => j = k
    BY EntriesOf DEF Wired, Good, EntryNamesRemote
  <1>3. \A k \in DOMAIN old : old[k].socket = s => FirstOn(p, s, k)
    BY <1>1, <1>2 DEF FirstOn
  <1>4. CASE ~ \E k \in DOMAIN old : FirstOn(p, s, k)
    <2>1. q = p
      BY <1>4 DEF RemoveConnection
    <2>2. \A e \in Entries(p) : e.socket # s
      BY <1>3, <1>4, EntriesOf
    <2> QED BY <2>1, <2>2
  <1>5. CASE \E k \in DOMAIN old : FirstOn(p, s, k)
    <2> DEFINE k == CHOOSE k \in DOMAIN old : FirstOn(p, s, k)
               gone == {old[k].id}
               new == RemoveAt(old, k)
    <2>1. k \in 1 .. Len(old) /\ old[k].socket = s
      BY <1>1, <1>5 DEF FirstOn
    <2>2. /\ q.connections = new /\ q.joined = p.joined /\ q.AP = p.AP
          /\ Tables(q) = Tables(p) \ gone
      BY <1>5 DEF RemoveConnection, Wired, Good, PeerState, Tables, Neighbors
    <2> HIDE DEF k, q
    <2>3. /\ new \in Seq(Connection) /\ Len(new) = Len(old) - 1
          /\ \A j \in 1 .. Len(old) - 1 :
               new[j] = IF j < k THEN old[j] ELSE old[j + 1]
      <3> HIDE DEF old
      <3> QED BY <1>1, <2>1, RemoveAtProperties
    <2> HIDE DEF new
    <2>4. DOMAIN new = 1 .. Len(old) - 1
      BY <2>3
    <2>5. \A e \in Entries(p) : e.socket = s => e = old[k]
      BY <1>1, <1>2, <2>1, EntriesOf
    <2>6. ASSUME NEW e \in Entries(q)
          PROVE  e \in Entries(p) /\ e.socket # s
      <3>1. PICK j \in 1 .. Len(old) - 1 : e = new[j]
        BY <2>2, <2>4, EntriesOf
      <3>2. PICK i \in 1 .. Len(old) : i # k /\ e = old[i]
        <4>1. CASE j < k
          BY <1>1, <2>1, <2>3, <3>1, <4>1
        <4>2. CASE ~(j < k)
          <5>1. j + 1 \in 1 .. Len(old) /\ j + 1 # k
            BY <1>1, <2>1, <4>2
          <5> QED BY <2>3, <3>1, <4>2, <5>1
        <4> QED BY <4>1, <4>2
      <3> QED BY <1>1, <1>2, <2>1, <3>2, EntriesOf
    <2>7. ASSUME NEW e \in Entries(p), e.socket # s
          PROVE  e \in Entries(q)
      <3>1. PICK i \in 1 .. Len(old) : e = old[i]
        BY <1>1, EntriesOf
      <3>2. i # k
        BY <2>1, <2>7, <3>1
      <3>3. CASE i < k
        <4>1. i \in 1 .. Len(old) - 1
          BY <1>1, <2>1, <3>3
        <4> QED BY <2>2, <2>3, <2>4, <3>1, <3>3, <4>1, EntriesOf, SMTT(30)
      <3>4. CASE i > k
        <4>1. i - 1 \in 1 .. Len(old) - 1 /\ ~(i - 1 < k) /\ (i - 1) + 1 = i
          BY <1>1, <2>1, <3>4
        <4>2. new[i - 1] = old[i]
          BY <2>3, <4>1
        <4> QED BY <2>2, <2>4, <3>1, <4>1, <4>2, EntriesOf
      <3> QED BY <1>1, <2>1, <3>2, <3>3, <3>4
    <2>8. Entries(q) = {e \in Entries(p) : e.socket # s}
      BY <2>6, <2>7
    <2> QED BY <2>2, <2>5, <2>8 DEF q
  <1> QED BY <1>4, <1>5

LEMMA SameConnectionsSameEntries ==
  ASSUME NEW p, NEW q, q.connections = p.connections
  PROVE  Entries(q) = Entries(p) /\ (EntryNamesRemote(p) => EntryNamesRemote(q))
  BY EntriesOf DEF EntryNamesRemote

\* What does not touch the connections loses nothing.
LEMMA LosesNothing ==
  ASSUME NEW p, NEW q, q.connections = p.connections, Tables(q) \subseteq Tables(p),
         q.joined = p.joined, q.AP = p.AP
  PROVE  Sheds(p, q)
  BY SameConnectionsSameEntries DEF Sheds

LEMMA EntryOf ==
  ASSUME NEW p, NEW n, Has(p, n)
  PROVE  \E e \in Entries(p) : e.id = n /\ e.socket = SocketOf(p, n)
  <1> DEFINE k == CHOOSE k \in DOMAIN p.connections : p.connections[k].id = n
  <1>1. k \in DOMAIN p.connections /\ p.connections[k].id = n
    BY DEF Has
  <1> HIDE DEF k
  <1>2. SocketOf(p, n) = p.connections[k].socket
    BY DEF SocketOf, k
  <1> QED BY <1>1, <1>2, EntriesOf

LEMMA RemoveDeadSheds ==
  ASSUME NEW p, Wired(p), NEW s, Dead(s)
  PROVE  LET q == RemoveConnection(p, s)
         IN  Wired(q) /\ Sheds(p, q)
  <1>1. Good(RemoveConnection(p, s))
    BY RemoveConnectionIsGood DEF Wired
  <1> QED BY <1>1, RemoveConnectionEntries DEF Wired, Sheds, EntryNamesRemote

LEMMA TurnType ==
  ASSUME NEW p, NEW n \in Ids
  PROVE  Turn(p, n) \in Nat
  <1>1. Local \in Ids /\ Value[n] \in Nat /\ Value[Local] \in Nat /\ RingSize \in Nat
        /\ Value[n] < RingSize /\ Value[Local] < RingSize
    BY PeerAssumption, DistinctValues
  <1> QED BY <1>1 DEF Turn, Ahead, Behind, Clockwise

\* The update loop fails at most once, on a dead channel.
LEMMA SendUpdatesSheds ==
  ASSUME NEW p, Wired(p)
  PROVE  LET q == SendUpdates(p)
         IN  Wired(q) /\ Sheds(p, q)
  <1> DEFINE failing == {n \in Neighbors(p) \cap p.attached :
                           ~Has(p, n) \/ Dead(SocketOf(p, n))}
             first == CHOOSE n \in failing : \A m \in failing : Turn(p, n) <= Turn(p, m)
             q == RemoveConnection(p, SocketOf(p, first))
  <1>1. CASE failing = {} \/ ~Has(p, first)
    <2>1. SendUpdates(p) = p
      BY <1>1 DEF SendUpdates
    <2> QED BY <2>1, LosesNothing
  <1>2. CASE failing # {} /\ Has(p, first)
    <2>1. SendUpdates(p) = q
      BY <1>2 DEF SendUpdates
    <2>2. \A n \in failing : Turn(p, n) \in Nat
      <3>1. failing \subseteq Ids
        BY DEF Wired, Good, PeerState, Neighbors
      <3> QED BY <3>1, TurnType
    <2>3. \A n \in failing : Has(p, n) => Dead(SocketOf(p, n))
      OBVIOUS
    <2> HIDE DEF failing
    <2>4. \E n \in failing : \A m \in failing : Turn(p, n) <= Turn(p, m)
      <3> DEFINE turns == {Turn(p, n) : n \in failing}
      <3>1. turns \in SUBSET Nat /\ turns # {}
        BY <1>2, <2>2
      <3>2. PICK x \in turns : \A y \in turns : x <= y
        <4> HIDE DEF turns
        <4> QED BY <3>1, LeastNatural
      <3> QED BY <3>2
    <2>5. first \in failing
      BY <2>4
    <2> HIDE DEF first
    <2> QED BY <1>2, <2>1, <2>3, <2>5, RemoveDeadSheds
  <1> QED BY <1>1, <1>2

LEMMA AttachToAllNeighborsSheds ==
  ASSUME NEW p, Wired(p), p.connections # <<>>
  PROVE  LET q == AttachToAllNeighbors(p)
         IN  Wired(q) /\ Sheds(p, q)
  <1> DEFINE q == AttachToAllNeighbors(p)
  <1>1. Good(q) /\ q.connections = p.connections
    BY AttachToAllNeighborsIsGood DEF Wired
  <1>2. q.joined = p.joined /\ q.AP = p.AP /\ Tables(q) \subseteq Tables(p)
    BY DEF AttachToAllNeighbors, Wired, Good, PeerState, Tables, Neighbors
  <1> QED BY <1>1, <1>2, LosesNothing, SameConnectionsSameEntries DEF Wired

LEMMA ShedsInTurn ==
  ASSUME NEW p, NEW q, NEW r, Sheds(p, q), Sheds(q, r)
  PROVE  Sheds(p, r)
  BY DEF Sheds

LEMMA SendUpdateToAllNeighborsSheds ==
  ASSUME NEW p, Wired(p), p.connections # <<>>
  PROVE  LET q == SendUpdateToAllNeighbors(p)
         IN  Wired(q) /\ Sheds(p, q)
  <1> DEFINE q == IF Neighbors(p) \subseteq p.attached THEN p
                                                     ELSE AttachToAllNeighbors(p)
  <1>1. Wired(q) /\ Sheds(p, q)
    BY AttachToAllNeighborsSheds, LosesNothing
  <1>2. SendUpdateToAllNeighbors(p) \in {q, SendUpdates(q)}
    BY DEF SendUpdateToAllNeighbors
  <1> HIDE DEF q
  <1> QED BY <1>1, <1>2, SendUpdatesSheds, ShedsInTurn

LEMMA SetAttachedSheds ==
  ASSUME NEW p, Wired(p), NEW n \in p.rtable
  PROVE  LET q == SetAttached(p, n)
         IN  Wired(q) /\ Sheds(p, q)
  <1> DEFINE q == [p EXCEPT !.attached = @ \cup {n}]
  <1>1. /\ q \in PeerState /\ q.connections = p.connections
        /\ q.status = p.status /\ q.rtable = p.rtable
        /\ q.attached = p.attached \cup {n} /\ Tables(q) = Tables(p)
        /\ q.joined = p.joined /\ q.AP = p.AP
    BY DEF Wired, Good, PeerState, Tables, Neighbors
  <1>2. SetAttached(p, n) \in {q, SendUpdateToAllNeighbors(q)}
    BY DEF SetAttached
  <1> HIDE DEF q
  <1>3. Wired(q) /\ Sheds(p, q)
    <2>1. Good(q)
      BY <1>1, SameConnections DEF Wired, Good
    <2> QED BY <1>1, <2>1, LosesNothing, SameConnectionsSameEntries DEF Wired
  <1>4. q.connections # <<>>
    <2>1. Has(p, n)
      BY DEF Wired, Good, Connected
    <2> QED BY <1>1, <2>1, HasAnEntry
  <1> QED BY <1>2, <1>3, <1>4, SendUpdateToAllNeighborsSheds, ShedsInTurn

\* merge computes new lists, and loses at most what an update does.
LEMMA MergeLoses ==
  ASSUME NEW p, Wired(p), NEW sender \in Ids, Has(p, sender),
         NEW heard \in SUBSET Ids, NEW force \in BOOLEAN
  PROVE  LET q == Merge(p, sender, heard, force)
         IN  /\ Wired(q) /\ Entries(q) \subseteq Entries(p)
             /\ \A e \in Entries(p) \ Entries(q) : Dead(e.socket)
             /\ q.joined = p.joined /\ q.AP = p.AP
  <1> DEFINE ahead == Nearest(Total(p, sender, heard), Ahead, CACHE_SIZE)
             behind == Nearest(Total(p, sender, heard), Behind, CACHE_SIZE)
             q == [p EXCEPT !.successors = ahead, !.predecessors = behind]
  <1>1. ahead \in SUBSET Ids /\ behind \in SUBSET Ids
    <2>1. Total(p, sender, heard) \subseteq Ids
      BY DEF Total, Wired, Good, PeerState, Neighbors, Connected
    <2>2. \A S, rank, k : Nearest(S, rank, k) \subseteq S
      BY DEF Nearest
    <2> QED BY <2>1, <2>2
  <1>2. Merge(p, sender, heard, force) \in {q, SendUpdateToAllNeighbors(q)}
    BY DEF Merge
  <1> HIDE DEF ahead, behind
  <1>3. /\ q \in PeerState /\ q.connections = p.connections
        /\ q.status = p.status /\ q.rtable = p.rtable /\ q.attached = p.attached
        /\ q.joined = p.joined /\ q.AP = p.AP
    BY <1>1 DEF Wired, Good, PeerState
  <1> HIDE DEF q
  <1>4. Wired(q) /\ Entries(q) = Entries(p) /\ q.connections # <<>>
    <2>1. Good(q)
      BY <1>3, SameTables DEF Wired
    <2> QED BY <1>3, <2>1, HasAnEntry, SameConnectionsSameEntries DEF Wired
  <1> QED BY <1>2, <1>3, <1>4, SendUpdateToAllNeighborsSheds DEF Sheds

\* leave clears the tables of the leaver, and what follows does not fill
\* them again.
LEMMA LeaveClears ==
  ASSUME NEW p, Wired(p), NEW id \in Ids, Has(p, id)
  PROVE  LET q == Leave(p, id)
         IN  /\ Wired(q) /\ id \notin Tables(q)
             /\ Entries(q) \subseteq Entries(p)
             /\ q.joined = p.joined /\ q.AP \in {p.AP, NoId}
  <1> DEFINE timers == TimersBut(p, id)
             ap == IF p.AP = id THEN NoId ELSE p.AP
             q == [p EXCEPT !.AP = ap,
                     !.successors = @ \ {id}, !.predecessors = @ \ {id},
                     !.rtable = @ \ {id}, !.attached = @ \ {id},
                     !.pingTimers = timers]
  <1>1. /\ timers \in SUBSET Connection /\ ap \in Ids \cup {NoId} /\ ap \in {p.AP, NoId}
    BY DEF TimersBut, Wired, Good, PeerState
  <1>2. Leave(p, id) \in {q, SendUpdateToAllNeighbors(q)}
    BY DEF Leave
  <1> HIDE DEF timers, ap
  <1>3. /\ q \in PeerState /\ q.connections = p.connections
        /\ q.status = p.status /\ q.rtable = p.rtable \ {id}
        /\ q.attached = p.attached \ {id} /\ id \notin Tables(q)
        /\ q.joined = p.joined /\ q.AP = ap
    BY <1>1 DEF Wired, Good, PeerState, Tables, Neighbors
  <1> HIDE DEF q
  <1>4. Wired(q) /\ Entries(q) = Entries(p) /\ q.connections # <<>>
    <2>1. Good(q)
      BY <1>3, SameConnections DEF Wired, Good
    <2> QED BY <1>3, <2>1, HasAnEntry, SameConnectionsSameEntries DEF Wired
  <1> QED BY <1>1, <1>2, <1>3, <1>4, SendUpdateToAllNeighborsSheds DEF Sheds

-----------------------------------------------------------------------------
EInv == IInv /\ EntryNamesRemote(peer) /\ ClosedSocketsHoldNoEntry

EntryStepOK ==
  /\ EntryNamesRemote(peer') /\ ClosedSocketsHoldNoEntry'
  /\ peer.joined /\ peer'.status = "running"
       => peer'.joined /\ peer'.AP \in {peer.AP, NoId}
  /\ peer'.joined /\ ~peer.joined => peer.AP \in Connected(peer) \cup Connected(peer')

\* An entry that a handler may make.
Live(e) ==
  /\ e.socket \in Sockets /\ e.id = Remote[e.socket]
  /\ Kind[e.socket] = "out" \/ sockets[e.socket] = "open"

\* The entries of q, a state that a handler has come to, are old or live.
Sound(q) == \A e \in Entries(q) : e \in Entries(peer) \/ Live(e)

Crashed(q) == \E why \in Ends : q = Crash(why)

\* q has neither joined nor taken another admitting peer.
Follows(q) ==
  \/ Crashed(q)
  \/ Sound(q) /\ q.joined = peer.joined /\ q.AP \in {peer.AP, NoId}

LEMMA CrashHasNothing ==
  ASSUME NEW q, Crashed(q)
  PROVE  Entries(q) = {} /\ q.joined = FALSE /\ q.status # "running"
  <1>1. PICK why \in Ends : q = Crash(why)
    BY DEF Crashed
  <1>2. q.connections = <<>> /\ q.joined = FALSE /\ q.status = why
    BY <1>1 DEF Crash, Fresh
  <1> QED BY <1>2, EntriesOf DEF Ends

LEMMA ClosedByEntries ==
  /\ ClosedSocketsHoldNoEntry <=>
       \A e \in Entries(peer) : Kind[e.socket] # "out" => sockets[e.socket] # "closed"
  /\ ClosedSocketsHoldNoEntry' <=>
       \A e \in Entries(peer') : Kind[e.socket] # "out" => sockets'[e.socket] # "closed"
  BY EntriesOf DEF ClosedSocketsHoldNoEntry

LEMMA NothingCloses ==
  ASSUME EInv, Sound(peer') \/ Crashed(peer'),
         \A t \in Sockets : sockets'[t] = "closed" => sockets[t] = "closed"
  PROVE  EntryNamesRemote(peer') /\ ClosedSocketsHoldNoEntry'
  <1>1. CASE Crashed(peer')
    BY <1>1, CrashHasNothing, ClosedByEntries DEF EntryNamesRemote
  <1>2. CASE Sound(peer')
    <2>1. \A e \in Entries(peer) : e.socket \in Sockets
      BY EntriesType DEF EInv, IInv, Connection
    <2> QED BY <1>2, <2>1, ClosedByEntries DEF EInv, EntryNamesRemote, Sound, Live
  <1> QED BY <1>1, <1>2

LEMMA FollowingStep ==
  ASSUME EInv, Follows(peer'),
         \A t \in Sockets : sockets'[t] = "closed" => sockets[t] = "closed"
  PROVE  EntryStepOK
  <1>1. peer.joined \in BOOLEAN
    BY DEF EInv, IInv, Good, PeerState
  <1> QED BY <1>1, NothingCloses, CrashHasNothing DEF Follows, EntryStepOK

\* What handleMessage makes of peer before it looks at the message.
LEMMA RegisteredIsSound ==
  ASSUME EInv, NEW s \in Sockets, Kind[s] = "out" \/ sockets[s] = "open"
  PROVE  LET p == Registered(s)
         IN  /\ Wired(p) /\ Sound(p) /\ Has(p, Remote[s]) /\ Remote[s] \in Ids
             /\ p.joined = peer.joined /\ p.AP = peer.AP /\ p.status = peer.status
             /\ Has(peer, Remote[s]) \/ \A e \in Entries(p) : e.id = Remote[s] => e.socket = s
  <1> DEFINE p == Registered(s)
             c == [id |-> Remote[s], socket |-> s]
  <1>1. Remote[s] \in Ids
    BY PeerAssumption
  <1>2. Good(p) /\ Has(p, Remote[s])
    BY RegisteredIsGood DEF EInv
  <1>3. /\ Entries(p) = IF Has(peer, Remote[s]) THEN Entries(peer) ELSE Entries(peer) \cup {c}
        /\ p.joined = peer.joined /\ p.AP = peer.AP /\ p.status = peer.status
    <2> DEFINE r == Remote[s]
               a == AddConnection(peer, r, s)
    <2>1. Good(peer) /\ r \in Ids
      BY <1>1 DEF EInv, IInv
    <2>2. /\ Entries(a) = IF Has(peer, r) THEN Entries(peer)
                          ELSE Entries(peer) \cup {[id |-> r, socket |-> s]}
          /\ a.joined = peer.joined /\ a.AP = peer.AP /\ a.status = peer.status
      <3> HIDE DEF r
      <3> QED BY <2>1, AddConnectionEntries
    <2> QED BY <2>2 DEF Registered
  <1>4. Live(c)
    BY DEF Live
  <1>5. Sound(p) /\ EntryNamesRemote(p)
    BY <1>3, <1>4 DEF Sound, EntryNamesRemote, EInv, Live
  <1>6. ~Has(peer, Remote[s]) => \A e \in Entries(p) : e.id = Remote[s] => e.socket = s
    <2>1. c.socket = s
      OBVIOUS
    <2> HIDE DEF c, p
    <2> QED BY <1>3, <2>1, EntriesOf
  <1> QED BY <1>1, <1>2, <1>3, <1>5, <1>6 DEF Wired

LEMMA SendIs ==
  ASSUME NEW p, NEW s
  PROVE  Send(p, s) = p \/ Crashed(Send(p, s))
  BY DEF Send, Crashed, Ends

LEMMA SendCaughtSheds ==
  ASSUME NEW p, Wired(p), NEW s
  PROVE  Wired(SendCaught(p, s)) /\ Sheds(p, SendCaught(p, s))
  BY RemoveDeadSheds, LosesNothing DEF SendCaught

LEMMA ShedsFollows ==
  ASSUME NEW p, NEW q, Sound(p), p.joined = peer.joined, p.AP = peer.AP, Sheds(p, q)
  PROVE  Follows(q)
  BY DEF Follows, Sheds, Sound

LEMMA MessageEntryStep ==
  ASSUME EInv, NEW s \in Sockets,
         \/ ReceiveAttachRequest(s) \/ ReceiveAttachAnswer(s)
         \/ ReceiveProbe(s) \/ ReceiveNoReply(s)
  PROVE  EntryStepOK
  <1> DEFINE p == Registered(s)
             q == [p EXCEPT !.answering = @ \cup {Remote[s]}]
  <1>1. sockets[s] = "open"
    BY DEF ReceiveAttachRequest, ReceiveAttachAnswer, ReceiveProbe, ReceiveNoReply, Arrives
  <1>2. Wired(p) /\ Sound(p) /\ p.joined = peer.joined /\ p.AP = peer.AP
    BY <1>1, RegisteredIsSound
  <1> HIDE DEF p
  <1>3. q.connections = p.connections /\ q.joined = p.joined /\ q.AP = p.AP
    BY <1>2 DEF Wired, Good, PeerState
  <1>4. Follows(p) /\ Follows(q)
    BY <1>2, <1>3, SameConnectionsSameEntries DEF Follows, Sound
  <1> HIDE DEF q
  <1>5. peer' \in {p, q} \/ Crashed(peer')
    BY SendIs DEF ReceiveAttachRequest, ReceiveAttachAnswer, ReceiveProbe, ReceiveNoReply,
       SendBack, p, q
  <1>6. \A t \in Sockets : sockets'[t] = "closed" => sockets[t] = "closed"
    BY DEF ReceiveAttachRequest, ReceiveAttachAnswer, ReceiveProbe, ReceiveNoReply,
       NewChannel, EInv, IInv
  <1> QED BY <1>4, <1>5, <1>6, FollowingStep DEF Follows

LEMMA JoinRequestEntryStep ==
  ASSUME EInv, NEW s \in Sockets, ReceiveJoinRequest(s)
  PROVE  EntryStepOK
  <1> DEFINE r == Remote[s]
             p == Registered(s)
             b == SendBack(p, r)
             n == AddNeighbor(p, r)
  <1>1. sockets[s] = "open" /\ sockets' = sockets
        /\ peer' = IF b.status = "running" THEN SetAttached(AddNeighbor(b, r), r) ELSE b
    BY DEF ReceiveJoinRequest, Arrives
  <1>2. /\ Wired(p) /\ Sound(p) /\ Has(p, r) /\ r \in Ids
        /\ p.joined = peer.joined /\ p.AP = peer.AP
    BY <1>1, RegisteredIsSound
  <1> HIDE DEF p, r
  <1>3. b = p \/ Crashed(b)
    BY SendIs DEF SendBack
  <1>4. Wired(n) /\ Sound(n) /\ r \in n.rtable /\ n.joined = peer.joined /\ n.AP = peer.AP
    <2>1. Good(n) /\ r \in n.rtable /\ n.connections = p.connections
      BY <1>2, AddNeighborIsGood DEF Wired
    <2>2. n.joined = p.joined /\ n.AP = p.AP
      BY <1>2 DEF AddNeighbor, Wired, Good, PeerState
    <2> QED BY <1>2, <2>1, <2>2, SameConnectionsSameEntries DEF Wired, Sound
  <1> HIDE DEF b, n
  <1>5. Follows(SetAttached(n, r))
    BY <1>4, SetAttachedSheds, ShedsFollows
  <1>6. CASE b = p
    <2>1. Follows(p)
      BY <1>2 DEF Follows
    <2> QED BY <1>1, <1>5, <1>6, <2>1, FollowingStep DEF n
  <1>7. CASE Crashed(b)
    BY <1>1, <1>7, CrashHasNothing, FollowingStep DEF Follows
  <1> QED BY <1>3, <1>6, <1>7

LEMMA JoinAnswerEntryStep ==
  ASSUME EInv, NEW s \in Sockets, ReceiveJoinAnswer(s)
  PROVE  EntryStepOK
  <1> DEFINE r == Remote[s]
             p == Registered(s)
             n == AddNeighbor(p, r)
             u == SetAttached(n, r)
             q == [u EXCEPT !.topologyJoined = TRUE]
  <1>1. sockets[s] = "open" /\ sockets' = sockets /\ peer' = q
    BY DEF ReceiveJoinAnswer, Arrives
  <1>2. /\ Wired(p) /\ Sound(p) /\ Has(p, r) /\ r \in Ids
        /\ p.joined = peer.joined /\ p.AP = peer.AP
    BY <1>1, RegisteredIsSound
  <1> HIDE DEF p, r
  <1>3. Wired(n) /\ Sound(n) /\ r \in n.rtable /\ n.joined = peer.joined /\ n.AP = peer.AP
    <2>1. Good(n) /\ r \in n.rtable /\ n.connections = p.connections
      BY <1>2, AddNeighborIsGood DEF Wired
    <2>2. n.joined = p.joined /\ n.AP = p.AP
      BY <1>2 DEF AddNeighbor, Wired, Good, PeerState
    <2> QED BY <1>2, <2>1, <2>2, SameConnectionsSameEntries DEF Wired, Sound
  <1> HIDE DEF n
  <1>4. Wired(u) /\ Sheds(n, u)
    BY <1>3, SetAttachedSheds
  <1> HIDE DEF u
  <1>5. q.connections = u.connections /\ q.joined = u.joined /\ q.AP = u.AP
        /\ Tables(q) = Tables(u)
    BY <1>4 DEF Wired, Good, PeerState, Tables, Neighbors
  <1> HIDE DEF q
  <1>6. Sheds(u, q)
    BY <1>5, LosesNothing
  <1>7. Follows(q)
    BY <1>3, <1>4, <1>6, ShedsInTurn, ShedsFollows
  <1> QED BY <1>1, <1>7, FollowingStep

\* The LeaveRequest handler forgets the leaver and nothing else.
LEMMA LeaveForgets ==
  ASSUME EInv, NEW s \in Sockets, sockets[s] = "open", peer.status = "running"
  PROVE  LET q == LeaveHandled(s)
         IN  /\ Follows(q)
             /\ Remote[s] \notin Connected(q) \cup Tables(q)
  <1> DEFINE r == Remote[s]
             p == Registered(s)
             l == Leave(p, r)
             q == RemoveConnection(l, SocketOf(l, r))
  <1>1. /\ Wired(p) /\ Sound(p) /\ Has(p, r) /\ r \in Ids /\ p.status = "running"
        /\ p.joined = peer.joined /\ p.AP = peer.AP
    BY RegisteredIsSound
  <1>2. LeaveHandled(s) = IF l.status = "running" /\ Has(l, r) THEN q ELSE l
    BY DEF LeaveHandled
  <1> HIDE DEF p, r
  <1>3. /\ Wired(l) /\ r \notin Tables(l) /\ Entries(l) \subseteq Entries(p)
        /\ l.joined = p.joined /\ l.AP \in {p.AP, NoId} /\ l.status = "running"
    BY <1>1, LeaveClears, LeaveIsGood DEF Wired
  <1> HIDE DEF l
  <1>4. CASE ~Has(l, r)
    BY <1>1, <1>2, <1>3, <1>4 DEF Follows, Sound, Connected, r
  <1>5. CASE Has(l, r)
    <2>1. /\ Entries(q) = {e \in Entries(l) : e.socket # SocketOf(l, r)}
          /\ Tables(q) \subseteq Tables(l) /\ q.joined = l.joined /\ q.AP = l.AP
      BY <1>3, RemoveConnectionEntries
    <2>2. \A e \in Entries(l) : e.id = r => e.socket = SocketOf(l, r)
      BY <1>3, <1>5, EntryOf, OneEntryPerId DEF Wired
    <2> HIDE DEF q
    <2>3. ~Has(q, r)
      BY <2>1, <2>2, EntriesOf
    <2>4. Follows(q)
      BY <1>1, <1>3, <2>1 DEF Follows, Sound
    <2> QED BY <1>2, <1>3, <1>5, <2>1, <2>3, <2>4 DEF Connected, r
  <1> QED BY <1>4, <1>5

LEMMA LeaveRequestEntryStep ==
  ASSUME EInv, NEW s \in Sockets, ReceiveLeaveRequest(s)
  PROVE  EntryStepOK
  <1>1. Follows(LeaveHandled(s))
    BY LeaveForgets DEF ReceiveLeaveRequest, Arrives, Running
  <1> QED BY <1>1, FollowingStep DEF ReceiveLeaveRequest
\* An UpdateAnswer may complete the joining: its sender, the admitting peer,
\* had an entry, or has one now on the socket that delivered the message.
LEMMA UpdateAnswerEntryStep ==
  ASSUME EInv, NEW s \in Sockets, NEW heard \in SUBSET (Ids \ {Local}),
         ReceiveUpdateAnswer(s, heard)
  PROVE  EntryStepOK
  <1> DEFINE sender == Remote[s]
             r == Registered(s)
             completes == r.AP = sender /\ ~Initiator /\ ~r.joined
             joined == r.joined \/ completes
             p == [r EXCEPT !.joined = joined]
             q == Merge(p, sender, heard, completes)
  <1>1. sockets[s] = "open" /\ peer' = q /\ sockets' = sockets
    BY DEF ReceiveUpdateAnswer, Arrives
  <1>2. /\ Wired(r) /\ Sound(r) /\ Has(r, sender) /\ sender \in Ids
        /\ r.joined = peer.joined /\ r.AP = peer.AP
        /\ Has(peer, sender) \/ \A e \in Entries(r) : e.id = sender => e.socket = s
    BY <1>1, RegisteredIsSound
  <1> HIDE DEF sender, r
  <1>3. /\ joined \in BOOLEAN /\ completes \in BOOLEAN
        /\ r.joined => joined
        /\ joined /\ ~r.joined => r.AP = sender
    BY <1>2 DEF Wired, Good, PeerState
  <1> HIDE DEF joined, completes
  <1>4. /\ p \in PeerState /\ p.connections = r.connections
        /\ p.status = r.status /\ p.rtable = r.rtable /\ p.attached = r.attached
        /\ p.joined = joined /\ p.AP = r.AP
    BY <1>2, <1>3 DEF Wired, Good, PeerState
  <1> HIDE DEF p
  <1>5. Wired(p) /\ Entries(p) = Entries(r) /\ Has(p, sender)
    <2>1. Good(p)
      BY <1>2, <1>4, SameTables DEF Wired
    <2> QED BY <1>2, <1>4, <2>1, SameConnectionsSameEntries, EntriesOf DEF Wired
  <1>6. /\ Entries(q) \subseteq Entries(p)
        /\ \A e \in Entries(p) \ Entries(q) : Dead(e.socket)
        /\ q.joined = joined /\ q.AP = r.AP
    <2>1. heard \in SUBSET Ids
      OBVIOUS
    <2>2. /\ Entries(q) \subseteq Entries(p)
          /\ \A e \in Entries(p) \ Entries(q) : Dead(e.socket)
          /\ q.joined = p.joined /\ q.AP = p.AP
      <3>1. ASSUME NEW force \in BOOLEAN
            PROVE  LET m == Merge(p, sender, heard, force)
                   IN  /\ Entries(m) \subseteq Entries(p)
                       /\ \A e \in Entries(p) \ Entries(m) : Dead(e.socket)
                       /\ m.joined = p.joined /\ m.AP = p.AP
        BY <1>2, <1>5, <2>1, MergeLoses
      <3> QED BY <1>3, <3>1
    <2> HIDE DEF q
    <2> QED BY <1>4, <2>2
  <1> HIDE DEF q
  <1>7. EntryNamesRemote(peer') /\ ClosedSocketsHoldNoEntry'
    <2>1. Sound(q)
      BY <1>2, <1>5, <1>6 DEF Sound
    <2> QED BY <1>1, <2>1, NothingCloses
  <1>8. ASSUME q.AP = sender
        PROVE  sender \in Connected(peer) \cup Connected(q)
    <2>1. CASE Has(peer, sender)
      BY <1>2, <2>1 DEF Connected
    <2>2. CASE \A e \in Entries(r) : e.id = sender => e.socket = s
      <3>1. PICK e \in Entries(p) : e.id = sender
        BY <1>5, EntriesOf
      <3>2. ~Dead(e.socket)
        BY <1>1, <1>5, <2>2, <3>1 DEF Dead
      <3>3. Has(q, sender)
        BY <1>6, <3>1, <3>2, EntriesOf
      <3> QED BY <1>2, <3>3 DEF Connected
    <2> QED BY <1>2, <2>1, <2>2
  <1> QED BY <1>1, <1>2, <1>3, <1>6, <1>7, <1>8 DEF EntryStepOK

LEMMA ForwardEntryStep ==
  ASSUME EInv, NEW s \in Sockets, NEW dest \in Destinations, Forward(s, dest)
  PROVE  EntryStepOK
  <1> DEFINE p == Registered(s)
  <1>1. sockets[s] = "open" /\ sockets' = sockets
    BY DEF Forward, Arrives
  <1>2. Follows(p)
    BY <1>1, RegisteredIsSound DEF Follows
  <1>3. PICK hop : peer' = Forwarded(p, dest.id, hop)
    BY DEF Forward
  <1> HIDE DEF p
  <1>4. peer' = p \/ Crashed(peer')
    BY <1>3, SendIs DEF Forwarded, Crashed, Ends
  <1> QED BY <1>1, <1>2, <1>4, FollowingStep DEF Follows

LEMMA AnswerReadyEntryStep ==
  ASSUME EInv, NEW h \in Ids, AnswerReady(h)
  PROVE  EntryStepOK
  <1> DEFINE p == [peer EXCEPT !.answering = @ \ {h}]
  <1>1. /\ p \in PeerState /\ p.connections = peer.connections
        /\ p.status = peer.status /\ p.rtable = peer.rtable
        /\ p.attached = peer.attached
        /\ p.joined = peer.joined /\ p.AP = peer.AP
    BY DEF EInv, IInv, Good, PeerState
  <1>2. \/ peer' = p \/ Crashed(peer')
        \/ \E t : peer' = SendCaught(p, t)
    BY DEF AnswerReady, Crashed, Ends
  <1>3. \A t \in Sockets : sockets'[t] = "closed" => sockets[t] = "closed"
    BY DEF AnswerReady, NewChannel, EInv, IInv
  <1> HIDE DEF p
  <1>4. Wired(p) /\ Sound(p)
    <2>1. Good(p)
      BY <1>1, SameTables DEF EInv, IInv
    <2> QED BY <1>1, <2>1, SameConnectionsSameEntries DEF Wired, Sound, EInv
  <1>5. Follows(p) /\ \A t : Follows(SendCaught(p, t))
    BY <1>1, <1>4, SendCaughtSheds, ShedsFollows DEF Follows
  <1> QED BY <1>2, <1>3, <1>5, FollowingStep DEF Follows

LEMMA ReceiveIdentityEntryStep ==
  ASSUME EInv, NEW s \in Sockets, ReceiveIdentity(s)
  PROVE  EntryStepOK
  <1> DEFINE r == Remote[s]
             p == AddConnection(AddNeighbor(peer, r), r, s)
             c == AddConnection(peer, r, s)
             joining == ~p.joined /\ ~Initiator
             q == IF joining THEN Send(p, SocketOf(p, r)) ELSE p
             t == [q EXCEPT !.AP = r]
  <1>1. /\ sockets[s] = "open" /\ sockets' = sockets
        /\ peer' = IF joining /\ q.status = "running" THEN t ELSE q
    BY DEF ReceiveIdentity
  <1>2. /\ Wired(c) /\ Sound(c) /\ c.joined = peer.joined /\ c.AP = peer.AP
    BY <1>1, RegisteredIsSound DEF Registered
  <1> HIDE DEF r
  <1>3. /\ p.connections = c.connections /\ p.joined = c.joined /\ p.AP = c.AP
        /\ p \in PeerState
    <2>1. p = AddNeighbor(c, r) /\ r \in Ids
      BY PeerAssumption DEF AddNeighbor, AddConnection, Has, EInv, IInv, Good, PeerState, r
    <2> HIDE DEF p, c
    <2> QED BY <1>2, <2>1 DEF AddNeighbor, Wired, Good, PeerState
  <1> HIDE DEF p, c
  <1>4. Sound(p)
    BY <1>2, <1>3, SameConnectionsSameEntries DEF Sound
  <1>5. q = p \/ Crashed(q)
    BY SendIs
  <1> HIDE DEF q
  <1>6. CASE q = p /\ joining
    <2>1. /\ t.connections = p.connections /\ t.joined = p.joined
          /\ ~p.joined
      BY <1>3, <1>6 DEF PeerState
    <2> HIDE DEF t
    <2>2. Sound(t)
      BY <1>4, <2>1, SameConnectionsSameEntries DEF Sound
    <2>3. /\ Sound(peer') /\ ~peer'.joined /\ ~peer.joined
      BY <1>1, <1>2, <1>3, <1>4, <1>6, <2>1, <2>2
    <2> QED BY <1>1, <2>3, NothingCloses DEF EntryStepOK
  <1>7. CASE q = p /\ ~joining
    <2>1. Follows(p)
      BY <1>2, <1>3, <1>4 DEF Follows
    <2> QED BY <1>1, <1>7, <2>1, FollowingStep
  <1>8. CASE Crashed(q)
    BY <1>1, <1>8, CrashHasNothing, FollowingStep DEF Follows
  <1> QED BY <1>5, <1>6, <1>7, <1>8

LEMMA BootstrapConnectedEntryStep ==
  ASSUME EInv, NEW s \in Sockets, BootstrapConnected(s)
  PROVE  EntryStepOK
  <1> DEFINE p == Registered(s)
             g == p.gathering \cup ({SocketOf(p, Remote[s])} \cap Channels)
             q == [p EXCEPT !.isConnected = TRUE, !.gathering = g]
  <1>1. Kind[s] = "out" /\ peer' \in {p, q}
    BY DEF BootstrapConnected, Registered
  <1>2. /\ Wired(p) /\ Sound(p) /\ p.joined = peer.joined /\ p.AP = peer.AP
    BY <1>1, RegisteredIsSound
  <1>3. \A t \in Sockets : sockets'[t] = "closed" => sockets[t] = "closed"
    BY DEF BootstrapConnected, Becomes, EInv, IInv
  <1> HIDE DEF p, g
  <1>4. q.connections = p.connections /\ q.joined = p.joined /\ q.AP = p.AP
    BY <1>2 DEF Wired, Good, PeerState
  <1>5. Follows(p) /\ Follows(q)
    BY <1>2, <1>4, SameConnectionsSameEntries DEF Follows, Sound
  <1> HIDE DEF q
  <1> QED BY <1>1, <1>3, <1>5, FollowingStep

\* What a socket's own end takes from the table: every entry on that socket.
LEMMA RemovalFollows ==
  ASSUME EInv, NEW s
  PROVE  LET q == RemoveConnection(peer, s)
         IN  /\ Follows(peer) /\ Follows(q) /\ Sound(q)
             /\ \A e \in Entries(q) : e \in Entries(peer) /\ e.socket # s
  <1>1. Wired(peer)
    BY DEF Wired, EInv, IInv
  <1> QED BY <1>1, RemoveConnectionEntries DEF Follows, Sound

LEMMA SocketEntryStep ==
  ASSUME EInv, NEW s \in Sockets, SocketStep(s)
  PROVE  EntryStepOK
  <1>1. CASE Accept(s) \/ ChannelOpen(s) \/ ReceiveClose(s) \/ SocketError(s)
    <2>1. peer' \in {peer, RemoveConnection(peer, s)}
      BY <1>1 DEF Accept, ChannelOpen, ReceiveClose, SocketError
    <2>2. \A t \in Sockets : sockets'[t] = "closed" => sockets[t] = "closed"
      BY <1>1 DEF Accept, ChannelOpen, ReceiveClose, SocketError, Becomes, EInv, IInv
    <2> QED BY <2>1, <2>2, RemovalFollows, FollowingStep
  \* The one step that closes: an outgoing socket keeps its entry, any other
  \* loses it.
  <1>2. CASE CloseEvent(s)
    <2> DEFINE q == RemoveConnection(peer, s)
    <2>1. /\ peer' = IF Kind[s] = "out" THEN peer ELSE q
          /\ \A t \in Sockets \ {s} : sockets'[t] = sockets[t]
      BY <1>2 DEF CloseEvent, Becomes, EInv, IInv
    <2>2. /\ Follows(peer) /\ Follows(q) /\ Sound(q)
          /\ \A e \in Entries(q) : e \in Entries(peer) /\ e.socket # s
      BY RemovalFollows
    <2>3. \A e \in Entries(peer) : /\ e.socket \in Sockets /\ e.id = Remote[e.socket]
                                   /\ Kind[e.socket] # "out" => sockets[e.socket] # "closed"
      BY EntriesType, ClosedByEntries DEF EInv, IInv, Connection, EntryNamesRemote
    <2> HIDE DEF q
    <2>4. EntryNamesRemote(peer') /\ ClosedSocketsHoldNoEntry'
      BY <2>1, <2>2, <2>3, ClosedByEntries DEF EntryNamesRemote
    <2>5. Follows(peer')
      BY <2>1, <2>2
    <2>6. peer.joined \in BOOLEAN
      BY DEF EInv, IInv, Good, PeerState
    <2> QED BY <2>4, <2>5, <2>6, CrashHasNothing DEF Follows, EntryStepOK
  <1>3. CASE UpdateTick(s)
    BY <1>3, RemovalFollows, SendIs, FollowingStep DEF UpdateTick, Follows
  <1>4. CASE CandidatesGathered(s)
    <2> DEFINE p == [peer EXCEPT !.gathering = @ \ {s}]
    <2>1. peer' = Send(p, s) /\ sockets' = sockets
      BY <1>4 DEF CandidatesGathered
    <2>2. p.connections = peer.connections /\ p.joined = peer.joined /\ p.AP = peer.AP
      BY DEF EInv, IInv, Good, PeerState
    <2> HIDE DEF p
    <2>3. Follows(p)
      BY <2>2, SameConnectionsSameEntries DEF Follows, Sound
    <2> QED BY <2>1, <2>3, SendIs, FollowingStep DEF Follows
  <1> QED BY <1>1, <1>2, <1>3, <1>4, ReceiveIdentityEntryStep, BootstrapConnectedEntryStep
          DEF SocketStep

LEMMA TimerEntryStep ==
  ASSUME EInv, NEW t \in Connection, PingTick(t) \/ PingTimeout(t)
  PROVE  EntryStepOK
  <1>1. CASE PingTick(t)
    BY <1>1, RemovalFollows, SendIs, FollowingStep DEF PingTick, Follows
  <1>2. CASE PingTimeout(t)
    <2> DEFINE p == RemoveConnection(peer, t.socket)
               timers == TimersBut(peer, t.id)
               q == [p EXCEPT !.pingTimers = timers]
    <2>1. peer' = q
      BY <1>2 DEF PingTimeout
    <2>2. \A u \in Sockets : sockets'[u] = "closed" => sockets[u] = "closed"
      BY <1>2 DEF PingTimeout, EInv, IInv
    <2>3. Good(p) /\ Sound(p) /\ p.joined = peer.joined /\ p.AP = peer.AP
      BY RemovalFollows, RemoveConnectionEntries, RemoveConnectionIsGood
         DEF Wired, EInv, IInv
    <2> HIDE DEF p, timers
    <2>4. q.connections = p.connections /\ q.joined = p.joined /\ q.AP = p.AP
      BY <2>3 DEF Good, PeerState
    <2> HIDE DEF q
    <2>5. Follows(q)
      BY <2>3, <2>4, SameConnectionsSameEntries DEF Follows, Sound
    <2> QED BY <2>1, <2>2, <2>5, FollowingStep
  <1> QED BY <1>1, <1>2

LEMMA NextEntryStep ==
  ASSUME EInv, Next
  PROVE  EntryStepOK
  <1>1. ASSUME NEW s \in Sockets, Receive(s)
        PROVE  EntryStepOK
    <2>1. CASE \E heard \in SUBSET (Ids \ {Local}) : ReceiveUpdateAnswer(s, heard)
      BY <2>1, UpdateAnswerEntryStep
    <2>2. CASE \E dest \in Destinations : Forward(s, dest)
      BY <2>2, ForwardEntryStep
    <2> QED BY <1>1, <2>1, <2>2, MessageEntryStep, JoinRequestEntryStep,
               LeaveRequestEntryStep, JoinAnswerEntryStep DEF Receive
  <1>2. CASE Interrupt
    <2>1. Follows(peer') /\ sockets' = sockets
      BY <1>2 DEF Interrupt, Follows, Crashed, Ends
    <2> QED BY <2>1, FollowingStep
  <1> QED BY <1>1, <1>2, SocketEntryStep, AnswerReadyEntryStep, TimerEntryStep DEF Next

(* The invariant of the first half, with what an entry says about its       *)
(* socket, holds in every reachable state.                                  *)
THEOREM EntryInvariance == Spec => []EInv
  <1>1. Init => EInv
    <2>1. Init => IInv
      BY FreshIsGood DEF Init, IInv, SocketState
    <2> QED BY <2>1, EntriesOf, ClosedByEntries DEF Init, Fresh, EInv, EntryNamesRemote
  <1>2. EInv /\ [Next]_vars => EInv'
    <2>1. ASSUME EInv, Next PROVE EInv'
      <3>1. IInv'
        BY <2>1, NextStep DEF EInv, StepOK, IInv, Good, Connected, Has
      <3>2. EntryNamesRemote(peer') /\ ClosedSocketsHoldNoEntry'
        BY <2>1, NextEntryStep DEF EntryStepOK
      <3> QED BY <3>1, <3>2 DEF EInv, EntryNamesRemote, Entries
    <2>2. ASSUME EInv, UNCHANGED vars PROVE EInv'
      BY <2>2, StutterStep DEF vars, EInv, EntryNamesRemote, Entries, ClosedSocketsHoldNoEntry
    <2> QED BY <2>1, <2>2
  <1> QED BY <1>1, <1>2, PTL DEF Spec

(* A socket that is closed has no entry, unless it is a connection to a      *)
(* bootstrap peer, for which the code installs no handler: whichever socket  *)
(* a peer that is connected twice sends on, and whenever.                    *)
THEOREM ClosedSocketsAreForgotten == Spec => []ClosedSocketsHoldNoEntry
  <1>1. EInv => ClosedSocketsHoldNoEntry
    BY DEF EInv
  <1> QED BY <1>1, EntryInvariance, PTL

(* A LeaveRequest that could come in any reachable state would leave nothing *)
(* of the leaver in any table, although its handler sends updates on the way *)
(* that may themselves fail and drop connections.                            *)
THEOREM LeaversAreForgotten == Spec => []LeaverIsForgotten
  <1>1. EInv => LeaverIsForgotten
    BY LeaveForgets DEF LeaverIsForgotten, Arrives, Running, Tables
  <1> QED BY <1>1, EntryInvariance, PTL

(* No handler takes a peer that has joined back, nor changes its admitting   *)
(* peer but by forgetting it.                                                *)
THEOREM AdmissionIsKept == Spec => AdmittingPeerIsKept
  <1>1. EInv /\ [Next]_vars =>
          [peer.joined /\ peer'.status = "running"
             => peer'.joined /\ peer'.AP \in {peer.AP, NoId}]_vars
    BY NextEntryStep DEF EntryStepOK
  <1> QED BY <1>1, EntryInvariance, PTL DEF Spec, AdmittingPeerIsKept

(* The step that completes the joining finds or leaves the admitting peer    *)
(* connected: the merge that follows drops entries on dead channels only,    *)
(* and the socket the UpdateAnswer came in on is open.                       *)
THEOREM AdmittingPeerIsConnected == Spec => JoinedThroughAdmittingPeer
  <1>1. EInv /\ [Next]_vars =>
          [peer'.joined /\ ~peer.joined
             => peer.AP \in Connected(peer) \cup Connected(peer')]_vars
    BY NextEntryStep DEF EntryStepOK
  <1> QED BY <1>1, EntryInvariance, PTL DEF Spec, JoinedThroughAdmittingPeer
=============================================================================
