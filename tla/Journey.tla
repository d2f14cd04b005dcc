------------------------------- MODULE Journey -------------------------------
(***************************************************************************)
(* One Attach transaction on its way over several peers: the request is    *)
(* routed hop by hop to the peer that takes it, the answer goes back along *)
(* its via list.  (MessageRouter, ForwardingHandler, toForward,            *)
(* newResponseMessage, getNextHops.)                                       *)
(*                                                                         *)
(* Peer.tla has what a peer does with one message, whatever it is; here is *)
(* what becomes of the message, with its ttl, via list and destination     *)
(* list.  The overlay is at rest but for connections that are lost: every  *)
(* member has routing table entries for the members it is connected to, in *)
(* the order in which it met them.  The peer that joins has a connection   *)
(* to one member and no table yet, and is in nobody's table.               *)
(***************************************************************************)
EXTENDS RingIds, SequencesExt

CONSTANTS
  Members,     \* the peers of the overlay
  Joiners,     \* the peers one of which wants to join
  Increment,   \* addNodeID of a joiner's id: the resource it asks for
  Value,       \* convertNodeID of every id
  RingSize,    \* a bound on these numbers
  CACHE_SIZE,  \* neighbours kept on each side
  InitialTtl,  \* initial-ttl of the configuration
  FullMesh,    \* every two members are connected to begin with
  MaxLosses    \* a bound on the connections that are lost

Peers == Members \cup Joiners

ASSUME JourneyAssumption ==
  /\ Members \cap Joiners = {} /\ FullMesh \in BOOLEAN
  /\ Increment \in [Joiners -> DOMAIN Value]
  /\ Peers \subseteq DOMAIN Value
  /\ \A n \in DOMAIN Value : Value[n] \in 1 .. RingSize - 1
  /\ CACHE_SIZE \in Nat \ {0} /\ InitialTtl \in Nat \ {0} /\ MaxLosses \in Nat
  /\ RingSize \in Nat /\ IsFiniteSet(Members)

\* Collisions of convertNodeID are NeighborList's subject, not this module's.
ASSUME DistinctValues ==
  /\ \A m, n \in DOMAIN Value : Value[m] = Value[n] => m = n
  /\ \A j \in Joiners : Increment[j] # j

VARIABLES
  links,    \* the connections: a set of pairs of peers
  rtable,   \* the routing table of each peer, in insertion order
  joiner,   \* the peer that joins
  message,  \* the message of the transaction that is under way
  origin,   \* who sent the request
  losses    \* how many connections have been lost

tables == <<links, rtable, joiner, losses>>
vars == <<links, rtable, joiner, losses, message, origin>>

Node(n)     == [type |-> "node", id |-> n]
Resource(n) == [type |-> "resource", id |-> n]

NoMessage == [kind |-> "none", status |-> "idle"]

\* A message in the hands of peer "at", or on its way there from the last
\* peer of its via list.  (A ttl of 1 is never counted down further.)
Message ==
  [kind : {"request", "answer"}, status : {"travelling", "taken", "dropped"},
   at : Peers, dest : Seq([type : {"node", "resource"}, id : DOMAIN Value]),
   ttl : 1 .. InitialTtl, via : Seq(Peers)]

TypeOK ==
  /\ links \subseteq {{p, q} : p, q \in Peers}
  /\ rtable \in [Peers -> Seq(Members)]
  /\ joiner \in Joiners /\ origin \in Peers /\ losses \in 0 .. MaxLosses
  /\ message \in Message \cup {NoMessage}

-----------------------------------------------------------------------------
Linked(p) == {q \in Peers : {p, q} \in links /\ q # p}

Pairs(S) == {{p, q} : p, q \in S} \ {{p} : p \in S}

Connects(graph) ==
  \A S \in SUBSET Members \ {{}, Members} :
    \E p \in S, q \in Members \ S : {p, q} \in graph

Graphs == {graph \in SUBSET Pairs(Members) :
             Connects(graph) /\ (FullMesh => graph = Pairs(Members))}

\* The members each member has met, in any order.
Met(graph, p) == {q \in Members : {p, q} \in graph}

Orders(graph) ==
  {o \in [Members -> UNION {SetToSeqs(Met(graph, p)) : p \in Members}] :
     \A p \in Members : o[p] \in SetToSeqs(Met(graph, p))}

\* An overlay at rest and a joiner that has reached one of its members.
Init ==
  /\ joiner \in Joiners /\ origin = joiner /\ message = NoMessage /\ losses = 0
  /\ \E graph \in Graphs : \E orders \in Orders(graph), boot \in Members :
       /\ links = graph \cup {{joiner, boot}}
       /\ rtable = [p \in Peers |-> IF p \in Members THEN orders[p] ELSE <<>>]

-----------------------------------------------------------------------------
(* Where a message goes                                                    *)

\* The successor list holds the nearest of the peers met, nearest first.
Ahead(p) == [n \in Members |-> Clockwise(Value[p], Value[n], RingSize)]
Successors(p) == Nearest(Range(rtable[p]), Ahead(p), CACHE_SIZE)

\* Slip: the interval starts at the wrong end.
Beyond_Slip(p, id) ==
  {n \in Successors(p) : ElementOfInterval(Value[id], Value[n], Value[p], FALSE)}

Beyond(p, id) ==
  {n \in Successors(p) : ElementOfInterval(Value[id], Value[p], Value[n], FALSE)}

\* getClosestPrecedingNode walks the routing table towards the entry nearest
\* to the one before; the walk starts from the object that is the
\* destination, whose number is 0 whatever its id.
ClosestPrecedingNode(p) ==
  LET Visit(best, n) ==
        LET dist == GetDistance(Value[n], best.value)
        IN  IF dist < best.distance THEN [id |-> n, value |-> Value[n], distance |-> dist]
            ELSE best
      walk[k \in 0 .. Len(rtable[p])] ==
        IF k = 0 THEN [id |-> p, value |-> 0, distance |-> RingSize]
        ELSE Visit(walk[k - 1], rtable[p][k])
  IN  walk[Len(rtable[p])].id

\* getNextHops and the direct connection that comes before it.
NextHop(p, id) ==
  IF id \in Linked(p) THEN id
  ELSE IF Beyond(p, id) # {}
  THEN CHOOSE n \in Beyond(p, id) : \A m \in Beyond(p, id) : Ahead(p)[n] <= Ahead(p)[m]
  ELSE ClosestPrecedingNode(p)

\* isLocalPeerResponsible.
Responsible(p, id) ==
  \A n \in Range(rtable[p]) :
    GetDistance(Value[n], Value[id]) >= GetDistance(Value[id], Value[p])

\* processDestination: the ids of p in front of a longer list are taken off.
Stripped(p, dest) ==
  LET Ends(i) == dest[i] # Node(p) \/ i = Len(dest)
  IN  SubSeq(dest, CHOOSE i \in DOMAIN dest :
                     Ends(i) /\ \A j \in 1 .. i - 1 : ~Ends(j), Len(dest))

\* isValidDestination.
Valid(p, dest) ==
  IF dest[1].type = "node" THEN dest[1].id \in {p} \cup Linked(p) ELSE Len(dest) = 1

-----------------------------------------------------------------------------
(* The peer that holds the message                                         *)

Travels(p) == message.status = "travelling" /\ message.at = p

Dest(p) == Stripped(p, message.dest)

\* Slip: the last hop counts the ttl down once more.
ForLocal_Expires(p) ==
  Responsible(p, Dest(p)[1].id) /\ Len(Dest(p)) = 1

\* The message is for p, or expires here.
ForLocal(p) ==
  \/ Responsible(p, Dest(p)[1].id) /\ Len(Dest(p)) = 1
  \/ message.ttl = 1

Take(p) ==
  /\ Travels(p) /\ Valid(p, Dest(p)) /\ ForLocal(p)
  /\ message' = [message EXCEPT !.dest = Dest(p), !.status = "taken"]
  /\ UNCHANGED <<tables, origin>>

Drop(p) ==
  /\ Travels(p)
  /\ Valid(p, Dest(p)) => ~ForLocal(p) /\ message.ttl = 0
  /\ message' = [message EXCEPT !.dest = Dest(p), !.status = "dropped"]
  /\ UNCHANGED <<tables, origin>>

\* Slip: a relay does not enter itself in the via list.
ToForward_NoVia(p, m) == [m EXCEPT !.ttl = @ - 1]

\* Slip: the header is left as it came.
ToForward_NotCalled(p, m) == m

\* toForward: the ttl goes down and p enters the via list.  (The destination
\* list stays as it is: its length is asked of the wrong object.)
ToForward(p, m) == [m EXCEPT !.ttl = @ - 1, !.via = Append(@, p)]

ForwardMessage(p) ==
  /\ Travels(p) /\ Valid(p, Dest(p)) /\ ~ForLocal(p) /\ message.ttl # 0
  /\ message' = [ToForward(p, message) EXCEPT !.dest = Dest(p),
                                              !.at = NextHop(p, Dest(p)[1].id)]
  /\ UNCHANGED <<tables, origin>>

\* Slip: the answer goes on with the ttl of the request.
NewResponseMessage_OldTtl(p, m) ==
  [m EXCEPT !.kind = "answer", !.dest = [i \in DOMAIN m.via |-> Node(Reverse(m.via)[i])],
            !.via = <<p>>]

\* newResponseMessage: back along the via list, with a via list and a ttl of
\* its own.
NewResponseMessage(p, m) ==
  [m EXCEPT !.kind = "answer", !.dest = [i \in DOMAIN m.via |-> Node(Reverse(m.via)[i])],
            !.via = <<p>>, !.ttl = InitialTtl]

\* The request is answered unless it is p's own.  (MessageRouter.sendAnswer.)
SendAnswer(p) ==
  /\ message.kind = "request" /\ message.status = "taken"
  /\ message.at = p /\ p # origin
  /\ LET answer == NewResponseMessage(p, message)
     IN  message' = [answer EXCEPT !.status = "travelling",
                                   !.at = NextHop(p, answer.dest[1].id)]
  /\ UNCHANGED <<tables, origin>>

-----------------------------------------------------------------------------
Without(table, n) ==
  IF n \in Range(table) THEN RemoveAt(table, CHOOSE i \in DOMAIN table : table[i] = n)
  ELSE table

\* The connection of p and q is lost, and what is on it; both ends remove it
\* and the routing table entries.  The members stay connected.
LoseConnection(p, q) ==
  /\ {p, q} \in links /\ losses < MaxLosses /\ losses' = losses + 1
  /\ links' = links \ {{p, q}} /\ Connects(links')
  /\ rtable' = [rtable EXCEPT ![p] = Without(@, q), ![q] = Without(@, p)]
  /\ message' = IF /\ message # NoMessage /\ message.status = "travelling"
                   /\ {p, q} = {message.at, Last(message.via)}
                THEN [message EXCEPT !.status = "dropped"] ELSE message
  /\ UNCHANGED <<joiner, origin>>

-----------------------------------------------------------------------------
(* How a transaction begins                                                *)

Request(p, hop, dest) ==
  /\ message = NoMessage
  /\ message' = [kind |-> "request", status |-> "travelling", at |-> hop,
                 dest |-> dest, ttl |-> InitialTtl, via |-> <<p>>]
  /\ origin' = p
  /\ UNCHANGED tables

\* The callback of Bootstrap.connect.
JoiningAttach ==
  \E boot \in Linked(joiner) :
    Request(joiner, boot, <<Node(boot), Resource(Increment[joiner])>>)

\* attachToAllNeighbors of a member that has heard of n: by way of its
\* admitting peer or its first connection, any member it is connected to.
NeighborAttach(p, n) ==
  \E carrier \in Linked(p) \cap Members :
    n \notin Linked(p) \cup {p} /\ Request(p, carrier, <<Resource(n)>>)

Step ==
  \E p \in Peers : Take(p) \/ Drop(p) \/ ForwardMessage(p) \/ SendAnswer(p)

Next ==
  \/ JoiningAttach
  \/ \E p, n \in Members : NeighborAttach(p, n)
  \/ \E p, q \in Peers : LoseConnection(p, q)
  \/ Step

\* A peer handles what it has received; connections are reliable while they
\* last.
Spec == Init /\ [][Next]_vars /\ WF_vars(Step)

-----------------------------------------------------------------------------
(* While no connection is lost, an answer that is taken is taken by the    *)
(* peer that sent the request: the relays in between find it is not for    *)
(* them, and none is the last to count its ttl down                        *)
(* (ForwardingHandler.js:18-49, messageBuilder.js:53-65).                  *)
AnswerRetracesRequest ==
  message.status = "taken" /\ message.kind = "answer"
    => message.at = origin \/ losses > 0

(* While no connection is lost, every request ends at its sender: as an    *)
(* answer, or as the request itself when it finds no better peer.  Nothing *)
(* is dropped on the way, and no loop lasts (ForwardingHandler.js:27-49,   *)
(* header.js:112-122).                                                     *)
EveryRequestIsAnswered ==
  message # NoMessage
    ~> (message.status = "taken" /\ message.at = origin) \/ losses > 0

(* Whatever is lost, no message is under way for ever: it is taken, if only *)
(* because its ttl has come down to 1, or dropped                           *)
(* (ForwardingHandler.js:31-41, header.js:112-113).                         *)
JourneyEnds ==
  []<>(message # NoMessage => message.status # "travelling")

\* The member that comes next clockwise, and the nearest by getDistance.
NextMember(n) ==
  CHOOSE p \in Members :
    \A q \in Members : Clockwise(Value[n], Value[p], RingSize)
                         <= Clockwise(Value[n], Value[q], RingSize)

NearestMembers(n) ==
  {p \in Members : \A q \in Members : GetDistance(Value[p], Value[n])
                                        <= GetDistance(Value[q], Value[n])}

\* No member that is as near to a joiner as another is farther from the id
\* after the joiner's: the half-way point is not between the two.
NothingBetween ==
  \A j \in Joiners, p, n \in Members :
    GetDistance(Value[n], Value[j]) >= GetDistance(Value[j], Value[p])
      => GetDistance(Value[n], Value[Increment[j]])
           >= GetDistance(Value[Increment[j]], Value[p])

\* Nor is it the id after the joiner's.
NoneHalfway ==
  \A j \in Joiners, p, n \in Members :
    GetDistance(Value[p], Value[Increment[j]]) = GetDistance(Value[n], Value[Increment[j]])
      => p = n

RequestTaken == message.status = "taken" /\ message.kind = "request"

Meshed == Pairs(Members) \subseteq links

(* In a full mesh, with as many neighbours cached as there are members, a   *)
(* joining request reaches the member that comes next clockwise if that one *)
(* is also the nearest, whichever member it enters by and with that member  *)
(* as its only relay (CHORDRoutingTable.js:297-304,                         *)
(* DefaultTopologyPlugin.js:51-66).                                         *)
SuccessorIsFound ==
  LET id == Increment[joiner]
  IN  RequestTaken /\ origin = joiner /\ Meshed /\ NextMember(id) \in NearestMembers(id)
        => message.at = NextMember(id) /\ Len(message.via) <= 2

(* In a full mesh every request reaches the member nearest to what it asks  *)
(* for: each hop forwards to the nearest known node (MessageRouter.js:90).  *)
NearestIsReached ==
  RequestTaken /\ Meshed => message.at \in NearestMembers(message.dest[1].id)
=============================================================================
