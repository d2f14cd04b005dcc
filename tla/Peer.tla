--------------------------------- MODULE Peer ---------------------------------
(***************************************************************************)
(* One RELOADjs peer: its connection table (Core/ConnectionManager.js),    *)
(* its CHORD routing table (Routing/CHORDRoutingTable.js) and the handlers *)
(* that change them (Topology/MessageHandler.js, Core/MessageDispatcher.js,*)
(* Core/NodeListener.js, the channel callbacks and the timers), against an *)
(* environment that may do whatever other peers and the network can do.    *)
(*                                                                         *)
(* The program is one Node.js process: a handler runs to its end before    *)
(* the next one starts, so a handler is one action.  What the handlers     *)
(* share, and what callbacks find changed when they run, is the record     *)
(* "peer".  A handler is a chain of calls, and each function of the code   *)
(* that changes the record is an operator from record to record, named as  *)
(* in the code.                                                            *)
(*                                                                         *)
(* A message is its type and the socket it came in on.  The code registers *)
(* the SIGNER of a message with that socket, and that is the peer at the   *)
(* other end: a relay signs what it forwards anew (MessageEncoder.js).     *)
(* One peer may be at the other end of several sockets, successively or    *)
(* together (a TLS connection and a data channel).                         *)
(***************************************************************************)
EXTENDS RingIds, SequencesExt

CONSTANTS
  Ids,         \* node ids
  Local,       \* global.nodeID[0]
  NoId,        \* the null of global.AP
  Resources,   \* resource ids that are no node's id
  Value,       \* convertNodeID of node and resource ids
  RingSize,    \* a bound on these numbers
  CACHE_SIZE,  \* neighbours kept on each side (3 in the code)
  Sockets,     \* every socket of a run
  Kind,        \* "in": accepted by NodeListener, "out": opened by connectTo,
               \* "ice": a WebRTC data channel
  Remote,      \* the peer at the other end
  Initiator    \* --first: global.isOverlayInitiator

ASSUME PeerAssumption ==
  /\ Local \in Ids /\ NoId \notin Ids
  /\ Value \in [Ids \cup Resources -> Nat]
  /\ RingSize \in Nat /\ CACHE_SIZE \in Nat \ {0}
  /\ Kind \in [Sockets -> {"in", "out", "ice"}]
  /\ Remote \in [Sockets -> Ids \ {Local}]
  /\ Initiator \in BOOLEAN

\* Collisions of convertNodeID are NeighborList's subject, not this module's.
ASSUME DistinctValues ==
  /\ \A n \in Ids \cup Resources : Value[n] < RingSize
  /\ \A m, n \in Ids : Value[m] = Value[n] => m = n

VARIABLES
  peer,     \* the state the handlers share, see PeerState
  sockets   \* how far along its life each socket is
vars == <<peer, sockets>>

Connection == [id : Ids, socket : Sockets]

\* How the process may end: interrupted, or by an exception.
Ends == {"exit", "closed_channel", "no_next_hop", "unlinked_successor", "no_carrier"}

Channels == {s \in Sockets : Kind[s] = "ice"}

PeerState ==
  [connections      : Seq(Connection),    \* ConnectionManager.connections
   rtable           : SUBSET Ids,         \* the ids with an RTableEntry ...
   attached         : SUBSET Ids,         \* ... and those in state attached
   successors       : SUBSET Ids,
   predecessors     : SUBSET Ids,
   joined           : BOOLEAN,            \* global.joined
   topologyJoined   : BOOLEAN,            \* topology.joined
   AP               : Ids \cup {NoId},    \* global.AP, the admitting peer
   isConnected      : BOOLEAN,            \* of Bootstrap.connect
   pingTimers       : SUBSET Connection,  \* what each ping interval closes over
   updateTimers     : SUBSET Sockets,     \* each update interval, on a channel
   gathering        : SUBSET Sockets,     \* channels chosen to carry Attaches
                                          \* whose candidates are gathered
   answering        : SUBSET Ids,         \* next hops of answers being prepared
   status           : {"running"} \cup Ends]

SocketState == {"unused", "connecting", "open", "closing", "closed"}

Fresh ==
  [connections |-> <<>>, rtable |-> {}, attached |-> {},
   successors |-> {}, predecessors |-> {}, joined |-> FALSE,
   topologyJoined |-> FALSE, AP |-> NoId, isConnected |-> FALSE,
   pingTimers |-> {}, updateTimers |-> {},
   gathering |-> {}, answering |-> {}, status |-> "running"]

Init == peer = Fresh /\ sockets = [s \in Sockets |-> "unused"]

Running == peer.status = "running"

-----------------------------------------------------------------------------
(* ConnectionManager                                                       *)

Has(p, id) == \E k \in DOMAIN p.connections : p.connections[k].id = id

Connected(p) == {n \in Ids : Has(p, n)}

\* getConnection: the socket of the entry of id.
SocketOf(p, id) ==
  p.connections[CHOOSE k \in DOMAIN p.connections : p.connections[k].id = id].socket

\* Slip: an entry is looked up by socket as well.
AddConnection_BySocket(p, id, s) ==
  IF \E k \in DOMAIN p.connections : p.connections[k] = [id |-> id, socket |-> s]
  THEN p
  ELSE [p EXCEPT !.connections = Append(@, [id |-> id, socket |-> s]),
                 !.pingTimers = @ \cup {[id |-> id, socket |-> s]},
                 !.updateTimers = @ \cup ({s} \cap Channels)]

\* addConnection: an entry that exists is left as it is, whatever socket the
\* message came in on; a new one starts its ping and update intervals.  (An
\* update interval never ends, and never matters on a TLS socket.)
AddConnection(p, id, s) ==
  IF Has(p, id) THEN p
  ELSE [p EXCEPT !.connections = Append(@, [id |-> id, socket |-> s]),
                 !.pingTimers = @ \cup {[id |-> id, socket |-> s]},
                 !.updateTimers = @ \cup ({s} \cap Channels)]

\* Once the pendingPing entries of id are deleted, its ping intervals end (at
\* their next tick; PingMonitor has the time in between).
TimersBut(p, id) == {t \in p.pingTimers : t.id # id}

\* k is the first entry of the table with socket s.
FirstOn(p, s, k) ==
  /\ k \in DOMAIN p.connections /\ p.connections[k].socket = s
  /\ \A j \in 1 .. k - 1 : p.connections[j].socket # s

\* Slip: the neighbour lists are not told.
RemoveConnection_KeepsNeighbor(p, s) ==
  IF \E k \in DOMAIN p.connections : FirstOn(p, s, k)
  THEN LET k == CHOOSE k \in DOMAIN p.connections : FirstOn(p, s, k)
           gone == {p.connections[k].id}
       IN  [p EXCEPT !.connections = RemoveAt(@, k),
                     !.rtable = @ \ gone, !.attached = @ \ gone]
  ELSE p

\* Slip: the routing table is not told.
RemoveConnection_KeepsRoute(p, s) ==
  IF \E k \in DOMAIN p.connections : FirstOn(p, s, k)
  THEN LET k == CHOOSE k \in DOMAIN p.connections : FirstOn(p, s, k)
           gone == {p.connections[k].id}
       IN  [p EXCEPT !.connections = RemoveAt(@, k),
                     !.successors = @ \ gone, !.predecessors = @ \ gone]
  ELSE p

\* Slip: the state of the routing table entry outlives the entry.
RemoveConnection_KeepsState(p, s) ==
  IF \E k \in DOMAIN p.connections : FirstOn(p, s, k)
  THEN LET k == CHOOSE k \in DOMAIN p.connections : FirstOn(p, s, k)
           gone == {p.connections[k].id}
       IN  [p EXCEPT !.connections = RemoveAt(@, k),
                     !.rtable = @ \ gone,
                     !.successors = @ \ gone, !.predecessors = @ \ gone]
  ELSE p

\* removeConnection: the FIRST entry with this socket goes, and its id with
\* it from the routing table and from both neighbour lists.
RemoveConnection(p, s) ==
  IF \E k \in DOMAIN p.connections : FirstOn(p, s, k)
  THEN LET k == CHOOSE k \in DOMAIN p.connections : FirstOn(p, s, k)
           gone == {p.connections[k].id}
       IN  [p EXCEPT !.connections = RemoveAt(@, k),
                     !.rtable = @ \ gone, !.attached = @ \ gone,
                     !.successors = @ \ gone, !.predecessors = @ \ gone]
  ELSE p

\* A write to a data channel that is no longer open throws; a write to a TLS
\* socket never does.
Dead(s) == Kind[s] = "ice" /\ sockets[s] \in {"closing", "closed"}

\* The process ends, by an exception nothing catches or by an interrupt, and
\* its tables with it.
Crash(why) == [Fresh EXCEPT !.status = why]

\* sendMessage from a place that does not catch: the failing write removes
\* the connection, then socket.destroy(), which a data channel lacks, throws
\* a TypeError that ends the process.
Send(p, s) ==
  IF Dead(s) THEN Crash("closed_channel") ELSE p

\* sendMessage inside a try block of the caller.
SendCaught(p, s) == IF Dead(s) THEN RemoveConnection(p, s) ELSE p

-----------------------------------------------------------------------------
(* CHORDRoutingTable                                                       *)

\* addNeighbor.  The guard that should keep the local id out compares a
\* string with an object and never does.
AddNeighbor(p, n) == [p EXCEPT !.rtable = @ \cup {n}]

Neighbors(p) == p.successors \cup p.predecessors

\* attachToAllNeighbors: an Attach towards every neighbour without a
\* connection, carried by the admitting peer's socket if there is one and by
\* the first connection otherwise; the others get a routing table entry.
AttachToAllNeighbors(p) ==
  LET unlinked == Neighbors(p) \ Connected(p)
      carrier  == IF Has(p, p.AP) THEN SocketOf(p, p.AP)
                                  ELSE p.connections[1].socket
  IN  IF unlinked = {} THEN [p EXCEPT !.rtable = @ \cup Neighbors(p)]
      ELSE IF p.connections = <<>> THEN Crash("no_carrier")
      ELSE [p EXCEPT !.gathering = @ \cup ({carrier} \cap Channels),
                     !.rtable = @ \cup (Neighbors(p) \ unlinked)]

\* The successors clockwise, the predecessors counter-clockwise.
Ahead  == [n \in Ids |-> Clockwise(Value[Local], Value[n], RingSize)]
Behind == [n \in Ids |-> Clockwise(Value[n], Value[Local], RingSize)]

\* Where the update loop meets neighbour n: successors first, nearest first.
Turn(p, n) == IF n \in p.successors THEN Ahead[n] ELSE RingSize + Behind[n]

\* The second half of sendUpdateToAllNeighbors: an UpdateAnswer to every
\* attached neighbour.  The try block around the loop catches a write that
\* fails, which has removed its connection by then, and ends the loop.
SendUpdates(p) ==
  LET failing == {n \in Neighbors(p) \cap p.attached :
                    ~Has(p, n) \/ Dead(SocketOf(p, n))}
      first   == CHOOSE n \in failing :
                   \A m \in failing : Turn(p, n) <= Turn(p, m)
  IN  IF failing = {} \/ ~Has(p, first) THEN p
      ELSE RemoveConnection(p, SocketOf(p, first))

SendUpdateToAllNeighbors(p) ==
  LET q == IF Neighbors(p) \subseteq p.attached THEN p
                                               ELSE AttachToAllNeighbors(p)
  IN  IF q.status = "running" /\ (q.joined \/ Initiator) THEN SendUpdates(q)
                                                         ELSE q

\* setNodeState(n, attached), the only state the dispatcher ever sets, on a
\* node that has an entry.  Its try block catches what goes wrong below.
SetAttached(p, n) ==
  LET q == [p EXCEPT !.attached = @ \cup {n}]
  IN  IF p.joined /\ n \notin p.attached /\ n \in Neighbors(p)
      THEN LET u == SendUpdateToAllNeighbors(q)
           IN  IF u.status = "running" THEN u ELSE q
      ELSE q

\* The set merge() hands to neighborsFromTotal: everything heard from sender
\* and known already but the local id, then whatever the routing table and
\* the connection table hold, the local id included.
Total(p, sender, heard) ==
  (({sender} \cup heard \cup Neighbors(p)) \ {Local})
    \cup p.rtable \cup Connected(p)

\* merge.  isChangedList compares the sizes of the lists only: they are Sets,
\* whose members cannot be indexed.
Merge(p, sender, heard, forceSendUpdate) ==
  LET total == Total(p, sender, heard)
      q == [p EXCEPT !.successors = Nearest(total, Ahead, CACHE_SIZE),
                     !.predecessors = Nearest(total, Behind, CACHE_SIZE)]
      changed == \/ Cardinality(q.successors) # Cardinality(p.successors)
                 \/ Cardinality(q.predecessors) # Cardinality(p.predecessors)
  IN  IF changed \/ forceSendUpdate THEN SendUpdateToAllNeighbors(q) ELSE q

\* leave.
Leave(p, id) ==
  LET q == [p EXCEPT !.AP = IF @ = id THEN NoId ELSE @,
                     !.successors = @ \ {id}, !.predecessors = @ \ {id},
                     !.rtable = @ \ {id}, !.attached = @ \ {id},
                     !.pingTimers = TimersBut(p, id)]
  IN  IF id \in Neighbors(p) \cup p.rtable THEN SendUpdateToAllNeighbors(q)
                                           ELSE q
-----------------------------------------------------------------------------
(* Messages.  handleMessage registers the signer with the socket, unless   *)
(* it has an entry, before it looks at what the message is.                *)

Arrives(s) == Running /\ sockets[s] = "open"

Registered(s) == AddConnection(peer, Remote[s], s)

\* The answer to a request goes to the entry of the sender, which may have
\* another socket than the request came in on.
SendBack(p, id) == Send(p, SocketOf(p, id))

\* An Attach transaction has run its course on one side: its channel is being
\* connected.
NewChannel ==
  \E c \in Sockets : /\ Kind[c] = "ice" /\ sockets[c] = "unused"
                    /\ sockets' = [sockets EXCEPT ![c] = "connecting"]

\* AttachRequest: the answer is prepared asynchronously and goes back along
\* the via list, whose last hop is the neighbour that delivered the request.
ReceiveAttachRequest(s) ==
  /\ Arrives(s)
  /\ peer' = [Registered(s) EXCEPT !.answering = @ \cup {Remote[s]}]
  /\ UNCHANGED sockets

\* AttachAnswer: the channel offered with the request starts to connect; an
\* answer to no pending request is dropped (see ReceiveNoReply).
ReceiveAttachAnswer(s) ==
  /\ Arrives(s)
  /\ peer' = Registered(s)
  /\ NewChannel

ReceiveJoinRequest(s) ==
  /\ Arrives(s)
  /\ LET r == Remote[s]
         p == SendBack(Registered(s), r)
     IN  peer' = IF p.status = "running" THEN SetAttached(AddNeighbor(p, r), r) ELSE p
  /\ UNCHANGED sockets

\* Slip: the leaver's connection stays.
LeaveHandled_NoClose(s) == Leave(Registered(s), Remote[s])

\* leave(), then removeConnection of the leaver's socket.
LeaveHandled(s) ==
  LET r == Remote[s]
      p == Leave(Registered(s), r)
  IN  IF p.status = "running" /\ Has(p, r) THEN RemoveConnection(p, SocketOf(p, r)) ELSE p

ReceiveLeaveRequest(s) ==
  /\ Arrives(s)
  /\ peer' = LeaveHandled(s)
  /\ UNCHANGED sockets

\* UpdateRequest and PingRequest: one message back.
ReceiveProbe(s) ==
  /\ Arrives(s)
  /\ peer' = SendBack(Registered(s), Remote[s])
  /\ UNCHANGED sockets

ReceiveJoinAnswer(s) ==
  /\ Arrives(s)
  /\ LET r == Remote[s]
     IN  peer' = [SetAttached(AddNeighbor(Registered(s), r), r)
                    EXCEPT !.topologyJoined = TRUE]
  /\ UNCHANGED sockets

\* Slip: any update completes the joining.
ReceiveUpdateAnswer_AnyPeer(s, heard) ==
  /\ Arrives(s)
  /\ LET p == Registered(s)
         completes == ~Initiator /\ ~p.joined
     IN  peer' = Merge([p EXCEPT !.joined = @ \/ completes], Remote[s], heard, completes)
  /\ UNCHANGED sockets

\* Slip: the update is merged before its sender is registered.
ReceiveUpdateAnswer_Unregistered(s, heard) ==
  /\ Arrives(s)
  /\ peer' = AddConnection(Merge(peer, Remote[s], heard, FALSE), Remote[s], s)
  /\ UNCHANGED sockets

\* UpdateAnswer: heard is the sender's successors and predecessors.  The
\* first one of the admitting peer completes the joining.
ReceiveUpdateAnswer(s, heard) ==
  /\ Arrives(s)
  /\ LET r == Remote[s]
         p == Registered(s)
         completes == p.AP = r /\ ~Initiator /\ ~p.joined
     IN  peer' = Merge([p EXCEPT !.joined = @ \/ completes], r, heard, completes)
  /\ UNCHANGED sockets

\* PingAnswer, LeaveAnswer, an AttachAnswer nobody waits for, an own
\* AttachRequest that comes back (known by its transaction), and a message
\* dropped for its destination or its expired ttl: nothing but the
\* registration.
ReceiveNoReply(s) ==
  /\ Arrives(s)
  /\ peer' = Registered(s)
  /\ UNCHANGED sockets

-----------------------------------------------------------------------------
(* Messages for somebody else.  A destination is a node or a resource; last *)
(* says that it ends the destination list.  processDestination has stripped *)
(* the local id from the front of a longer list.                            *)

Destinations == [type : {"node"}, id : Ids \ {Local}, last : BOOLEAN]
                  \cup [type : {"node"}, id : {Local}, last : {TRUE}]
                  \cup [type : {"resource"}, id : Ids \cup Resources, last : {TRUE}]

\* isValidDestination.
Valid(p, dest) ==
  dest.type = "node" => dest.id = Local \/ Has(p, dest.id)

\* isLocalPeerResponsible: a peer that has not joined only yields to a
\* routing table entry that has a connection.
Responsible(p, dest) ==
  LET closer(n) == \/ ~(p.topologyJoined \/ Initiator)
                   \/ GetDistance(Value[n], Value[dest.id])
                        < GetDistance(Value[dest.id], Value[Local])
  IN  dest.id = Local \/ \A n \in p.rtable : Has(p, n) => ~closer(n)

\* The successors that have id between the local peer and themselves.
Beyond(p, id) ==
  {n \in p.successors : ElementOfInterval(Value[id], Value[Local], Value[n], FALSE)}

FirstBeyond(p, id) ==
  CHOOSE n \in Beyond(p, id) : \A m \in Beyond(p, id) : Ahead[n] <= Ahead[m]

\* getNextHops towards an id without a connection: the local peer itself
\* when there is no successor, the first successor beyond id, and otherwise
\* some entry of the routing table: which one depends on the order of the
\* table and not on id.  NoId is the undefined hop of an empty table.
NextHops(p, id) ==
  IF p.successors = {} THEN {Local}
  ELSE IF Beyond(p, id) # {} THEN {FirstBeyond(p, id)}
  ELSE IF p.rtable # {} THEN p.rtable
  ELSE {NoId}

\* The lookup of the chosen successor in the routing table may find nothing.
LookupFails(p, id) ==
  p.successors # {} /\ Beyond(p, id) # {} /\ FirstBeyond(p, id) \notin p.rtable

\* forwardMessage: to the destination if it is connected, else to a next
\* hop; a hop without a connection makes sendMessage throw on null.
Forwarded(p, id, hop) ==
  IF Has(p, id) THEN Send(p, SocketOf(p, id))
  ELSE IF LookupFails(p, id) THEN Crash("unlinked_successor")
  ELSE IF Has(p, hop) THEN Send(p, SocketOf(p, hop))
  ELSE Crash("no_next_hop")

Forward(s, dest) ==
  /\ Arrives(s)
  /\ LET p == Registered(s)
     IN  /\ Valid(p, dest) /\ ~(dest.last /\ Responsible(p, dest))
         /\ \E hop \in NextHops(p, dest.id) : peer' = Forwarded(p, dest.id, hop)
  /\ UNCHANGED sockets

\* The answer to an AttachRequest is ready.  MessageRouter.transmit catches
\* a failed write and a hop without a connection, but not a failed lookup.
AnswerReady(h) ==
  /\ Running /\ h \in peer.answering
  /\ LET p == [peer EXCEPT !.answering = @ \ {h}]
     IN  \E hop \in NextHops(p, h) :
           peer' = IF Has(p, h) THEN SendCaught(p, SocketOf(p, h))
                   ELSE IF LookupFails(p, h) THEN Crash("unlinked_successor")
                   ELSE IF Has(p, hop) THEN SendCaught(p, SocketOf(p, hop))
                   ELSE p
  /\ \/ UNCHANGED sockets
     \/ NewChannel  \* the one the answer is about

\* The candidates of an Attach are gathered: the request leaves by the
\* socket that was chosen when the gathering began.
CandidatesGathered(s) ==
  /\ Running /\ s \in peer.gathering
  /\ peer' = Send([peer EXCEPT !.gathering = @ \ {s}], s)
  /\ UNCHANGED sockets

-----------------------------------------------------------------------------
(* Sockets                                                                 *)

Becomes(s, from, to) ==
  /\ Running /\ sockets[s] \in from
  /\ sockets' = [sockets EXCEPT ![s] = to]

\* A peer connects to the listener.
Accept(s) ==
  /\ Kind[s] = "in" /\ Becomes(s, {"unused"}, "open")
  /\ UNCHANGED peer

\* A bootstrap connection is up: the first one carries the joining Attach,
\* on whatever socket the entry of that peer has.
BootstrapConnected(s) ==
  /\ Kind[s] = "out" /\ ~Initiator /\ Becomes(s, {"unused"}, "open")
  /\ LET p == AddConnection(peer, Remote[s], s)
     IN  peer' = IF p.isConnected THEN p
                 ELSE [p EXCEPT !.isConnected = TRUE,
                        !.gathering = @ \cup ({SocketOf(p, Remote[s])} \cap Channels)]

\* ICEonConnect.
ChannelOpen(s) ==
  /\ Kind[s] = "ice" /\ Becomes(s, {"connecting"}, "open")
  /\ UNCHANGED peer

\* Slip: every channel's other end becomes the admitting peer.
ReceiveIdentity_AnyTime(s) ==
  /\ Running /\ Kind[s] = "ice" /\ sockets[s] = "open"
  /\ peer' = [AddConnection(AddNeighbor(peer, Remote[s]), Remote[s], s)
                EXCEPT !.AP = Remote[s]]
  /\ UNCHANGED sockets

\* ICEonMessage, the message that tells the identity of the other end.  A
\* joining peer answers with its JoinRequest, on the channel if it was
\* registered and on the older connection if there was one, and remembers
\* the other end as its admitting peer.
ReceiveIdentity(s) ==
  /\ Running /\ Kind[s] = "ice" /\ sockets[s] = "open"
  /\ LET r == Remote[s]
         p == AddConnection(AddNeighbor(peer, r), r, s)
         joining == ~p.joined /\ ~Initiator
         q == IF joining THEN Send(p, SocketOf(p, r)) ELSE p
     IN  peer' = IF joining /\ q.status = "running" THEN [q EXCEPT !.AP = r] ELSE q
  /\ UNCHANGED sockets

\* The other end found the channel redundant (ICEonMessage, {close: 1}), or
\* sent the four letters a TLS peer uses for the same.
ReceiveClose(s) ==
  /\ Becomes(s, {"open"}, "closing")
  /\ peer' = IF Kind[s] = "ice" THEN peer ELSE RemoveConnection(peer, s)

\* The listener's error handler; a "close" event follows.
SocketError(s) ==
  /\ Kind[s] = "in" /\ Becomes(s, {"open"}, "closing")
  /\ peer' = RemoveConnection(peer, s)

\* Slip: only the listener has a handler.
CloseEvent_NotOnChannels(s) ==
  /\ Becomes(s, {"open", "closing"}, "closed")
  /\ peer' = IF Kind[s] = "in" THEN RemoveConnection(peer, s) ELSE peer

\* The socket is gone, by the other end's doing or by our own.  connectTo
\* installs no handler for it; the listener and the channels do.
CloseEvent(s) ==
  /\ Becomes(s, {"open", "closing"}, "closed")
  /\ peer' = IF Kind[s] = "out" THEN peer ELSE RemoveConnection(peer, s)

-----------------------------------------------------------------------------
(* Timers.  How many pings go unanswered is PingMonitor's subject; here a   *)
(* monitored entry may time out at any moment.                              *)

PingTick(t) ==
  /\ Running /\ t \in peer.pingTimers
  /\ peer' = Send(peer, t.socket)
  /\ UNCHANGED sockets

UpdateTick(s) ==
  /\ Running /\ s \in peer.updateTimers
  /\ peer' = Send(peer, s)
  /\ UNCHANGED sockets

\* The fifth unanswered ping: the connection goes, its socket is destroyed,
\* and so are all the pendingPing entries of the id.
PingTimeout(t) ==
  /\ Running /\ t \in peer.pingTimers
  /\ peer' = [RemoveConnection(peer, t.socket) EXCEPT
                !.pingTimers = TimersBut(peer, t.id)]
  /\ sockets' = [sockets EXCEPT ![t.socket] = IF @ = "open" THEN "closing" ELSE @]

-----------------------------------------------------------------------------
\* SIGINT: removeAll says goodbye on every connection and the process exits,
\* unless one of them is a channel that can no longer be written to.
Interrupt ==
  /\ Running
  /\ peer' = IF \E k \in DOMAIN peer.connections : Dead(peer.connections[k].socket)
             THEN Crash("closed_channel") ELSE Crash("exit")
  /\ UNCHANGED sockets

-----------------------------------------------------------------------------
Receive(s) ==
  \/ ReceiveAttachRequest(s) \/ ReceiveAttachAnswer(s)
  \/ ReceiveJoinRequest(s) \/ ReceiveJoinAnswer(s)
  \/ ReceiveLeaveRequest(s) \/ ReceiveProbe(s) \/ ReceiveNoReply(s)
  \/ \E heard \in SUBSET (Ids \ {Local}) : ReceiveUpdateAnswer(s, heard)
  \/ \E dest \in Destinations : Forward(s, dest)

SocketStep(s) ==
  \/ Accept(s) \/ BootstrapConnected(s) \/ ChannelOpen(s)
  \/ ReceiveIdentity(s) \/ ReceiveClose(s) \/ SocketError(s) \/ CloseEvent(s)
  \/ UpdateTick(s) \/ CandidatesGathered(s)

Next ==
  \/ \E s \in Sockets : Receive(s) \/ SocketStep(s)
  \/ \E h \in Ids : AnswerReady(h)
  \/ \E t \in Connection : PingTick(t) \/ PingTimeout(t)
  \/ Interrupt

Spec == Init /\ [][Next]_vars
-----------------------------------------------------------------------------
(* Properties                                                              *)

TypeOK ==
  /\ peer \in PeerState /\ sockets \in [Sockets -> SocketState]
  /\ peer.attached \subseteq peer.rtable

(* The connection table holds at most one entry per peer, so that          *)
(* getConnection and the loop of addConnection mean the same entry         *)
(* (ConnectionManager.js:37-46, 75-86).                                    *)
OneConnectionPerPeer ==
  \A j, k \in DOMAIN peer.connections :
    peer.connections[j].id = peer.connections[k].id => j = k

(* Every id of the routing table has a connection, although the two tables *)
(* are kept by two classes and changed by a dozen handlers                 *)
(* (CHORDRoutingTable.js:69-93, ConnectionManager.js:157-177).             *)
RoutedAreConnected == peer.rtable \subseteq Connected(peer)

(* A forwarded message finds no socket only while the peer has no          *)
(* successors or an empty routing table: a next hop that getNextHops takes *)
(* from its tables always has one (MessageRouter.js:82-97,                 *)
(* CHORDRoutingTable.js:280-307).                                          *)
NullHopOnlyWithoutTable ==
  [][peer'.status = "no_next_hop" => peer.successors = {} \/ peer.rtable = {}]_vars

(* attachToAllNeighbors always finds a connection to carry its requests:   *)
(* connections[0] exists whenever it runs, however the handler that runs   *)
(* it got there (CHORDRoutingTable.js:596-626).                            *)
AlwaysACarrier == peer.status # "no_carrier"

(* When the connection of a peer goes, that peer is in the routing table   *)
(* and in the neighbour lists no longer by the end of the same handler,    *)
(* even when the handler has just computed the lists anew                  *)
(* (ConnectionManager.js:157-177).                                         *)
DropLeavesNoTrace ==
  [][\A n \in Connected(peer) \ Connected(peer') :
       n \notin peer'.rtable \cup Neighbors(peer')]_vars

(* A peer that has joined stays joined, and keeps its admitting peer until *)
(* that one leaves: a channel opened later does not replace it             *)
(* (ConnectionManager.js:244-247, MessageDispatcher.js:96-111).            *)
AdmittingPeerIsKept ==
  [][peer.joined /\ peer'.status = "running"
       => peer'.joined /\ peer'.AP \in {peer.AP, NoId}]_vars

(* A peer completes its joining only on word of its admitting peer, and    *)
(* finds it connected: the connection it heard it on, or the one it loses  *)
(* in this very step (MessageDispatcher.js:96-111).                        *)
JoinedThroughAdmittingPeer ==
  [][peer'.joined /\ ~peer.joined
       => peer.AP \in Connected(peer) \cup Connected(peer')]_vars

(* No entry outlives an accepted socket or a channel that is closed, even  *)
(* when the same peer is connected twice and messages arrive on the socket *)
(* that is not in the table (NodeListener.js:43-46,                        *)
(* ConnectionManager.js:270-274).                                          *)
ClosedSocketsHoldNoEntry ==
  \A k \in DOMAIN peer.connections :
    LET s == peer.connections[k].socket
    IN  Kind[s] # "out" => sockets[s] # "closed"

(* Whenever a LeaveRequest comes, and on whatever socket, its handler      *)
(* leaves nothing of the leaver in any table (MessageDispatcher.js:48-54,  *)
(* CHORDRoutingTable.js:660-720).                                          *)
LeaverIsForgotten ==
  \A s \in Sockets : Arrives(s) =>
    LET p == LeaveHandled(s)
    IN  Remote[s] \notin Connected(p) \cup p.rtable \cup Neighbors(p)

-----------------------------------------------------------------------------
(* What the code says of itself and does not do.                            *)

(* A ping, an update or an answer that meets a channel closed by its other *)
(* end costs the entry and its interval, not the process.                  *)
(* ConnectionManager.js:146: "Connection no longer valid! Removing         *)
(* entry...".                                                              *)
ClosedChannelIsSurvived == peer.status # "closed_channel"

(* When an update gives the peer other neighbours than it had, it goes     *)
(* through attaching to them: those with a connection have their routing   *)
(* table entry by the end of the handler.  CHORDRoutingTable.js:533:       *)
(* "Merge: new approved neighbors, send updates to all."                   *)
NewNeighborsAreProcessed ==
  [][\A s \in Sockets, heard \in SUBSET (Ids \ {Local}) :
       /\ ReceiveUpdateAnswer(s, heard)
       /\ peer'.status = "running" /\ Neighbors(peer') # Neighbors(peer)
       => Neighbors(peer') \cap Connected(peer') \subseteq peer'.rtable]_vars
=============================================================================
