-------------------------------- MODULE Attach --------------------------------
(***************************************************************************)
(* How two peers get a data channel: the two halves of an Attach           *)
(* transaction (src/Services/AttachService.js, src/Transport/ice/ICE.js)   *)
(* and what ConnectionManager does with the channel at either end, down to *)
(* the JoinRequest that goes over it.                                      *)
(*                                                                         *)
(* Peer.tla has one end of every channel and lets the other end do         *)
(* anything; here both ends run the code.  Each peer may offer channels at *)
(* any time, each registers the first one on which the other tells its id, *)
(* and each asks the other to close the ones that come later.              *)
(*                                                                         *)
(* AttachRequest and AttachAnswer travel by other peers and may be lost.   *)
(* A channel is reliable and ordered while it lasts; its two ends learn of *)
(* its failure independently.                                              *)
(***************************************************************************)
EXTENDS Naturals, Sequences, FiniteSets, SequencesExt

CONSTANTS
  Peers,        \* the two peers
  Joiner,       \* those of them that have not joined the overlay
  Channels,     \* the data channels that may be offered
  Bootstrap,    \* the TLS connection there may be between them
  NoChannel,
  MaxLosses,    \* a bound on lost Attach messages and failed channels
  MaxTicks      \* a bound on periodic UpdateRequests

ASSUME AttachAssumption ==
  /\ IsFiniteSet(Peers) /\ Cardinality(Peers) = 2 /\ Joiner \subseteq Peers
  /\ Bootstrap \notin Channels
  /\ NoChannel \notin Channels \cup {Bootstrap}
  /\ MaxLosses \in Nat /\ MaxTicks \in Nat

VARIABLES
  stage,    \* of each channel: how far its negotiation is
  offerer,  \* of each channel: who made the offer
  end,      \* of each channel at each peer: its readyState
  inbox,    \* of each connection at each peer: what has been sent to it
  table,    \* of each peer: the connection it has registered for the other
  owes,     \* the peers that have the other in updateAfterConnection
  AP,       \* the peers that have taken the other for their admitting peer
  joined,   \* the peers that have joined: their global.joined
  topologyJoined, \* those whose topology.joined is set as well
  down,     \* the peers whose process has ended
  losses,   \* how many messages and channels have been lost
  ticks     \* how many periodic UpdateRequests have been sent
membership == <<AP, joined, topologyJoined>>
vars == <<stage, offerer, end, inbox, table, owes, membership, down, losses, ticks>>

Connections == Channels \cup {Bootstrap}

Stages == {"unused", "offering", "requested", "answering", "answered",
           "accepted", "lost", "failed"}
Messages == {"id", "close", "end", "join", "joinAnswer", "update", "updateRequest"}

Other(p) == CHOOSE q \in Peers : q # p

TypeOK ==
  /\ stage \in [Channels -> Stages] /\ offerer \in [Channels -> Peers]
  /\ end \in [Channels -> [Peers -> {"new", "open", "closing", "closed"}]]
  /\ inbox \in [Connections -> [Peers -> Seq(Messages)]]
  /\ table \in [Peers -> Connections \cup {NoChannel}]
  /\ owes \subseteq Peers /\ down \subseteq Peers
  /\ AP \subseteq Peers /\ joined \subseteq Peers /\ topologyJoined \subseteq Peers
  /\ losses \in 0 .. MaxLosses /\ ticks \in 0 .. MaxTicks
  /\ \A p \in Peers \ down :
       table[p] \in Channels => end[table[p]][p] \in {"open", "closing"}

Init ==
  /\ stage = [c \in Channels |-> "unused"]
  /\ offerer \in [Channels -> Peers]
  /\ end = [c \in Channels |-> [p \in Peers |-> "new"]]
  /\ inbox = [c \in Connections |-> [p \in Peers |-> <<>>]]
  /\ table \in {[p \in Peers |-> first] : first \in {Bootstrap, NoChannel}}
  /\ owes = {} /\ down = {}
  /\ AP = {} /\ joined = Peers \ Joiner /\ topologyJoined = Peers \ Joiner
  /\ losses = 0 /\ ticks = 0

Running(p) == p \notin down

-----------------------------------------------------------------------------
(* The Attach transaction                                                  *)

Negotiate(c, from, to) ==
  /\ stage[c] = from /\ stage' = [stage EXCEPT ![c] = to]
  /\ UNCHANGED <<offerer, end, inbox, table, membership, down, ticks>>

\* attachTo.  attachToAllNeighbors asks whether the peer has an entry, not
\* whether an Attach is under way; a joining peer attaches regardless.
AttachTo(c) ==
  /\ Running(offerer[c])
  /\ table[offerer[c]] = NoChannel \/ offerer[c] \notin joined
  /\ Negotiate(c, "unused", "offering") /\ UNCHANGED <<owes, losses>>

CandidatesGathered(c) ==
  /\ Running(offerer[c])
  /\ Negotiate(c, "offering", "requested") /\ UNCHANGED <<owes, losses>>

\* The request is known to be new by its transaction, and nothing else is
\* looked at: not an own request under way, not an entry already there.
HandleAttachRequest(c) ==
  /\ Running(Other(offerer[c]))
  /\ Negotiate(c, "requested", "answering")
  /\ owes' = owes \cup {Other(offerer[c])} /\ UNCHANGED losses

AnswerComputed(c) ==
  /\ Running(Other(offerer[c]))
  /\ Negotiate(c, "answering", "answered") /\ UNCHANGED <<owes, losses>>

ProcessAttachAnswer(c) ==
  /\ Running(offerer[c])
  /\ Negotiate(c, "answered", "accepted") /\ UNCHANGED <<owes, losses>>

\* A message of the transaction is dropped on its way, taken by a peer it is
\* not for, or comes back to its sender, who knows its own transaction.
LoseSignal(c) ==
  /\ losses < MaxLosses /\ losses' = losses + 1
  /\ \E from \in {"requested", "answered"} : Negotiate(c, from, "lost")
  /\ UNCHANGED owes

-----------------------------------------------------------------------------
(* The ends of a channel                                                   *)

\* Nobody reads what is sent to an end that closes or on a broken channel.
Reaches(c, q) ==
  c \in Channels => stage[c] = "accepted" /\ end[c][q] \in {"new", "open"}

Put(box, c, q, msgs) ==
  IF Reaches(c, q) THEN [box EXCEPT ![c][q] = @ \o msgs] ELSE box

\* A write to a channel that closes throws, and so does its error handler.
Writable(p, c) == c \in Channels => end[c][p] = "open"

\* p answers msgs on the connection of its entry, after what box says, or
\* the process ends.
Reply(p, entry, box, msgs) ==
  IF msgs = <<>> \/ Writable(p, entry)
  THEN inbox' = Put(box, entry, Other(p), msgs) /\ UNCHANGED down
  ELSE inbox' = box /\ down' = down \cup {p}

Keeps == UNCHANGED <<stage, offerer, losses, ticks>>

\* ICEonConnect.
Open(p, c) ==
  /\ Running(p) /\ stage[c] = "accepted" /\ end[c][p] = "new"
  /\ end' = [end EXCEPT ![c][p] = "open"]
  /\ inbox' = Put(inbox, c, Other(p), <<"id">>)
  /\ UNCHANGED <<table, owes, membership, down>> /\ Keeps

\* The next message p finds on c.
Takes(p, c, m) ==
  /\ Running(p) /\ (c \in Channels => end[c][p] = "open")
  /\ inbox[c][p] # <<>> /\ Head(inbox[c][p]) = m

Rest(p, c) == [inbox EXCEPT ![c][p] = Tail(@)]

\* addConnection: the first connection stays.
Registered(p, c) == IF table[p] = NoChannel THEN c ELSE table[p]

\* The first JoinRequest has gone out: its receiver is the admitting peer.
RemembersAP(p) == AP' = IF p \in joined \/ p \in down' THEN AP ELSE AP \cup {p}

\* Slip: the redundant channel is left open.
ReceiveIdentity_LeavesOpen(p, c) ==
  /\ Takes(p, c, "id")
  /\ table' = [table EXCEPT ![p] = Registered(p, c)]
  /\ Reply(p, Registered(p, c), Rest(p, c), IF p \in joined THEN <<>> ELSE <<"join">>)
  /\ RemembersAP(p) /\ UNCHANGED <<end, owes, joined, topologyJoined>> /\ Keeps

\* ICEonMessage, the id: a second channel is sent back its {close: 1}, and a
\* peer that has not joined asks to, on the connection it has kept.  When
\* that write throws the process ends and the rest is not reached.
ReceiveIdentity(p, c) ==
  /\ Takes(p, c, "id")
  /\ table' = [table EXCEPT ![p] = Registered(p, c)]
  /\ LET told == IF table[p] = NoChannel THEN Rest(p, c)
                 ELSE Put(Rest(p, c), c, Other(p), <<"close">>)
     IN  Reply(p, Registered(p, c), told, IF p \in joined THEN <<>> ELSE <<"join">>)
  /\ RemembersAP(p) /\ UNCHANGED <<end, owes, joined, topologyJoined>> /\ Keeps

\* ICEonMessage, {close: 1}: the other end hears of it after what is under
\* way.
ReceiveClose(p, c) ==
  /\ Takes(p, c, "close")
  /\ end' = [end EXCEPT ![c][p] = "closing"]
  /\ inbox' = Put(Rest(p, c), c, Other(p), <<"end">>)
  /\ UNCHANGED <<table, owes, membership, down>> /\ Keeps

\* The other end has closed, or is gone, or the channel is broken.
Ended(p, c) ==
  \/ end[c][p] = "closing"
  \/ end[c][p] = "open" /\ (stage[c] = "failed" \/ Other(p) \in down
                            \/ (inbox[c][p] # <<>> /\ Head(inbox[c][p]) = "end"))

\* Slip: the end of a redundant channel drops the entry on the other one.
CloseEvent_AnyEntry(p, c) ==
  /\ Running(p) /\ Ended(p, c)
  /\ end' = [end EXCEPT ![c][p] = "closed"]
  /\ inbox' = [inbox EXCEPT ![c][p] = <<>>]
  /\ table' = [table EXCEPT ![p] = NoChannel]
  /\ UNCHANGED <<owes, membership, down>> /\ Keeps

\* Slip: the entry stays.
CloseEvent_KeepsEntry(p, c) ==
  /\ Running(p) /\ Ended(p, c)
  /\ end' = [end EXCEPT ![c][p] = "closed"]
  /\ inbox' = [inbox EXCEPT ![c][p] = <<>>]
  /\ UNCHANGED <<table, owes, membership, down>> /\ Keeps

\* ICEonClose: the entry goes if it is on this channel.
CloseEvent(p, c) ==
  /\ Running(p) /\ Ended(p, c)
  /\ end' = [end EXCEPT ![c][p] = "closed"]
  /\ inbox' = [inbox EXCEPT ![c][p] = <<>>]
  /\ table' = [table EXCEPT ![p] = IF @ = c THEN NoChannel ELSE @]
  /\ UNCHANGED <<owes, membership, down>> /\ Keeps

\* The channel breaks; each end will know in its time.
Fail(c) ==
  /\ losses < MaxLosses /\ losses' = losses + 1
  /\ Negotiate(c, "accepted", "failed") /\ UNCHANGED owes

-----------------------------------------------------------------------------
(* RELOAD messages on a connection                                         *)

Handles(p, c, m) ==
  Takes(p, c, m) /\ table' = [table EXCEPT ![p] = Registered(p, c)]

\* The JoinAnswer, and the UpdateAnswer the AttachRequest asked for.
ReceiveJoinRequest(p, c) ==
  /\ Handles(p, c, "join")
  /\ Reply(p, Registered(p, c), Rest(p, c),
           IF p \in owes THEN <<"joinAnswer", "update">> ELSE <<"joinAnswer">>)
  /\ owes' = owes \ {p} /\ UNCHANGED <<end, membership>> /\ Keeps

ReceiveJoinAnswer(p, c) ==
  /\ Handles(p, c, "joinAnswer") /\ inbox' = Rest(p, c)
  /\ topologyJoined' = topologyJoined \cup {p}
  /\ UNCHANGED <<end, owes, AP, joined, down>> /\ Keeps

\* Slip: an update of anyone completes the joining.
ReceiveUpdate_OfAnyone(p, c) ==
  /\ Handles(p, c, "update") /\ inbox' = Rest(p, c)
  /\ joined' = joined \cup {p}
  /\ UNCHANGED <<end, owes, AP, topologyJoined, down>> /\ Keeps

\* An update of the admitting peer completes the joining, and one that comes
\* before p has an admitting peer does not.  The code then asks
\* isWaitForJoinAns too, which is false of everyone: nothing calls the
\* function that would set it.  The updates that merge() sends on are left
\* to UpdateTick, by which a peer may be sent one at any time.
ReceiveUpdate(p, c) ==
  /\ Handles(p, c, "update") /\ inbox' = Rest(p, c)
  /\ joined' = joined \cup ({p} \cap AP)
  /\ UNCHANGED <<end, owes, AP, topologyJoined, down>> /\ Keeps

ReceiveUpdateRequest(p, c) ==
  /\ Handles(p, c, "updateRequest")
  /\ Reply(p, Registered(p, c), Rest(p, c), <<"update">>)
  /\ UNCHANGED <<end, owes, membership>> /\ Keeps

\* The update interval of addConnection.
UpdateTick(p) ==
  /\ Running(p) /\ table[p] # NoChannel /\ ticks < MaxTicks /\ ticks' = ticks + 1
  /\ Reply(p, table[p], inbox, <<"updateRequest">>)
  /\ UNCHANGED <<stage, offerer, end, table, owes, membership, losses>>

-----------------------------------------------------------------------------
Transaction(c) ==
  \/ CandidatesGathered(c) \/ HandleAttachRequest(c)
  \/ AnswerComputed(c) \/ ProcessAttachAnswer(c)

ChannelEvent(p, c) ==
  \/ Open(p, c) \/ ReceiveIdentity(p, c) \/ ReceiveClose(p, c) \/ CloseEvent(p, c)

Message(p, c) ==
  \/ ReceiveJoinRequest(p, c) \/ ReceiveJoinAnswer(p, c)
  \/ ReceiveUpdate(p, c) \/ ReceiveUpdateRequest(p, c)

Callback ==
  \/ \E c \in Channels : Transaction(c)
  \/ \E p \in Peers, c \in Channels : ChannelEvent(p, c)
  \/ \E p \in Peers, c \in Connections : Message(p, c)

Next ==
  \/ Callback
  \/ \E c \in Channels : AttachTo(c) \/ LoseSignal(c) \/ Fail(c)
  \/ \E p \in Peers : UpdateTick(p)

\* The event loops run the callbacks that are due, in any order.
Spec == Init /\ [][Next]_vars /\ WF_vars(Callback)

-----------------------------------------------------------------------------
\* Nothing is under way between the two peers and both are up.
Settled ==
  /\ down = {}
  /\ \A c \in Channels : /\ stage[c] \in {"unused", "accepted", "lost", "failed"}
                         /\ stage[c] = "accepted" => \A p \in Peers : end[c][p] # "new"
                         /\ \A p \in Peers : ~Ended(p, c)
  /\ \A c \in Connections, p \in Peers : inbox[c][p] = <<>>

(* When nothing is under way, the two tables name the same connection or   *)
(* none: no peer keeps an entry, and the pings and routes that go with it, *)
(* on a connection the other has not registered                            *)
(* (ConnectionManager.js:75-86, 212-274).                                  *)
EndsAgree == Settled => \A p, q \in Peers : table[p] = table[q]

(* When nothing is under way, every channel that is still open is in the   *)
(* table: a redundant one has been closed at both of its ends, whichever   *)
(* end found it redundant (ConnectionManager.js:222-223, 249-252).         *)
RedundantIsClosed ==
  Settled => \A c \in Channels, p \in Peers : end[c][p] = "open" => table[p] = c

Linked == \E c \in Connections : \A p \in Peers : table[p] = c

Alone(c) == losses = 0 /\ \A d \in Channels \ {c} : stage[d] = "unused"

(* An Attach by itself, nothing lost, ends with the peers linked, and a    *)
(* joining peer that made it has joined in both of the code's senses: the  *)
(* channel opens at both ends in either order, the JoinRequest goes over   *)
(* whatever connection was kept, its answer sets topology.joined, and an   *)
(* update that follows the id completes the joining, while one that comes  *)
(* before it, over the bootstrap connection, does not spare the peer its   *)
(* JoinRequest (AttachService.js:24-103, ConnectionManager.js:198-247,     *)
(* MessageDispatcher.js:29-43, 92-114).                                    *)
AttachLinks ==
  \A c \in Channels :
    Alone(c) /\ stage[c] = "offering" /\ Joiner \subseteq {offerer[c]}
      ~> (Linked /\ joined = Peers /\ topologyJoined = Peers) \/ ~Alone(c)

(* When channels have opened, none has failed and nothing is under way,    *)
(* the peers are linked.  AttachService.js:20-21: "Function used to        *)
(* perform an Attach request to directly connect to another peer".         *)
OneLinkRemains ==
  Settled /\ losses = 0 /\ (\E c \in Channels, p \in Peers : end[c][p] # "new")
    => Linked
=============================================================================
