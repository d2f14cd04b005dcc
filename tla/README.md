# A TLA+ model of RELOADjs

RELOADjs is one peer of a RELOAD (RFC 6940) overlay: a Node.js process that
keeps TLS connections and WebRTC data channels to other peers, a CHORD routing
table, and forwards what is not for itself. This directory holds the TLA+
modules, the TLC configurations and the proofs kept beside the code. File names
below are relative to `src/`.

## The system

The process is single-threaded. Every piece of code that runs is a callback
(data on a socket, a channel event, a timer, the end of ICE gathering) and runs
to its end. There are no locks and no threads: what makes the program hard is
what a callback finds changed since it was registered, what it does when a call
in its middle fails, and that all of them share two tables through globals.

| Component | State | Operations | Talks to |
|---|---|---|---|
| Connection table, `Core/ConnectionManager.js` | `connections`: (node id, socket) pairs; a ping and an update interval per entry; `topology.pendingPing` | addConnection, removeConnection, getConnection, sendMessage, connectTo, removeAll, the channel callbacks ICEonConnect / ICEonMessage / ICEonClose | called by everything; calls the routing table, key store and cache |
| CHORD routing table, `Routing/CHORDRoutingTable.js` | `rtable`, `successors`, `predecessors`, node states; finger table and learnedFromTable, which nothing reads | addNeighbor, setNodeState, merge, neighborsFromTotal, attachToAllNeighbors, sendUpdateToAllNeighbors, leave, getNextHops | connection table, attach service |
| Message handler and stack, `Topology/MessageHandler.js`, `Transport/stack/` | none | decode, verify, register the origin, then forward or dispatch | connection table, forwarding, dispatcher |
| Dispatcher, `Core/MessageDispatcher.js` | `global.joined`, `topology.joined`, `global.AP` | one case per message type | routing table, attach service, connection table |
| Forwarding, `Transport/stack/ForwardingHandler.js`, `Transport/MessageRouter.js`, `Topology/DefaultTopologyPlugin.js`, `Transport/messages/header.js`, `messageBuilder.js` | the ttl, via list and destination list of a message | processDestination, isValidDestination, isLocalPeerResponsible, forwardMessage, sendMessage, newResponseMessage | routing and connection tables |
| Attach service, `Services/AttachService.js`, `Transport/ice/ICE.js` | `pendingRequests`, `pcs`, `updateAfterConnection` | attachTo, handleAttachRequest, processAttachAnswer, and the gathering callbacks in between | connection table, router |
| Listener and bootstrap, `Core/NodeListener.js`, `Core/bootstrap.js` | `isConnected`, retry counts | accept, data / close / error handlers; connect with retries | message handler, attach service |
| Bootstrap cache, `Core/bootstrapCache.js` | a list of at most 10 addresses, saved to a file | constructor, addPeer, save | connection table, dispatcher, start-up |
| Start-up, `reload.js`, `Core/peer.js`, `Core/instance.js` | configuration, saved instance (keys, certificate, id) | download or read, parse, read or generate the identity, start services; erase with `-e`; leave on SIGINT | all |
| Codec, `Transport/messages/` | none | serialize, deSerialize per message | message handler |
| Cryptography, `Crypto/` | certificates by node id | sign, verify | message handler |
| Id arithmetic, `utils/utils.js` | none | convertNodeID, getDistance, ElementOfInterval, addNodeID | routing, forwarding, bootstrap |

What makes each correct, in a sentence:

- connection table: one entry per peer; no entry outlives its socket; every
  entry is watched by a ping interval; a failed write costs an entry, not the
  process;
- routing table: everything in it is connected; what leaves the connection table
  leaves it too; the neighbour lists are the nearest nodes known; a change of
  neighbours is followed by attaching and updating;
- dispatcher: joined once, through the admitting peer; after a leave no trace;
- forwarding: a message reaches the responsible peer or is dropped, an answer
  retraces its request; a peer never forwards into a missing socket;
- attach: both ends register the same channel, or both drop it;
- bootstrap: one join even if several bootstrap peers answer, an end to retries;
- identity and cache: what was saved is what the next start reads;
- codec: what is read is what was written.

The hazards, each at its line and with the properties that watch it, are the
list `hazards` of `PROJECT.json`.

## Modules

| Module | Models | State | Actions |
|---|---|---|---|
| `RingIds` | `utils/utils.js` | none | operators only |
| `NeighborList` | `neighborsFromTotal` | the list being built, the nodes still to come | one round of its loop |
| `Peer` | one peer: tables, dispatcher, forwarding, its side of Attach | `peer`, `sockets` | one per callback |
| `PingMonitor` | the intervals, timeouts and counters of `addConnection` | connection objects with timers, counters, time since a sign of life | messages, ticks, timeouts, time |
| `Journey` | a request and its answer over several peers | connections, routing tables, the message | take, forward, drop, answer, lose a connection |
| `Attach` | both ends of the Attach negotiation and of its channels | stage of each channel, its two ends, what is in flight, the two tables | one per callback of either peer |
| `StartUp` | what a start makes of the configuration file and the command line | none | operators only |
| `Bootstrap` | start, saved identities, caches, retries | the files, the list and its attempts | start, start in vain, unlink, attempt, retry, accept, ping |
| `Codec` | writer and reader of every message, signing and verification | none | operators only |
| `Channel` | abstract: a channel that loses messages but neither changes nor reorders them | what was sent, what was got, the place of the last | send, get |
| `Stream` | messages over two TLS connections one behind the other | what waits to be written, what is on the wire, the histories | send, write done, read |
| `ProofLemmas` | facts the proofs share: sequences with a place taken out or put in, sizes of sets counted by places, least numbers, induction | | |
| `PeerProofs`, `PingMonitorProofs`, `NeighborListProofs`, `JourneyProofs`, `AttachProofs`, `BootstrapProofs`, `StreamProofs` | theorems about the module they are named for, the last about `Codec` too | | |
| `MCPeer`, `MCPingMonitor`, `MCJourney`, `MCAttach`, `MCBootstrap`, `MCStream` | values for TLC | | |

`Stream` uses `Codec` and implements `Channel` once for each connection;
`Bootstrap` uses `StartUp`. The modules cut the system at the places where it
can be cut: `PingMonitor`, `Journey`, `Attach`, `Bootstrap` and `Stream` each look
closely at something `Peer` lets happen in any way at all.

`RingIds` is the identifier arithmetic, with the reference reading (distance
clockwise, the nearest k, the number an id writes) it is checked against. It is
checked where it is used: `ElementOfInterval` in `NeighborList`, `addNodeID` in
`Bootstrap`.

`NeighborList` is `neighborsFromTotal` as a state machine: one step per round of
the loop, the order of the JavaScript Set being the nondeterminism. Its result
is checked to be `Nearest`, which is then how `Peer` computes the lists.

`Peer` is the core: one peer against an environment that may do what other peers
and the network can do. The variable `peer` is a record with a field for each
shared variable of the code, named as there (`connections`, `rtable`,
`successors`, `predecessors`, `joined`, `AP`, ...); `sockets` is how far along
its life each socket is. Each function of the code that changes the record is an
operator from record to record (`AddConnection`, `RemoveConnection`, `Merge`,
`Leave`, ...), and each callback one action that chains them in the code's
order: a message handler (`Receive...`, `Forward`), a channel or socket event, a
timer (`PingTick`, `UpdateTick`, `PingTimeout`), the end of an ICE gathering
(`CandidatesGathered`, `AnswerReady`), or the signal to stop (`Interrupt`). An exception nothing catches ends the
process: `status` tells which, and no action is enabled afterwards.

A message is its type and the socket it comes in on. Whoever relays a message
signs it anew (`Transport/messages/MessageEncoder.js:17-45` signs with the local
key whatever it serializes), so the origin that `handleMessage` reads from the
signature and registers is always the neighbour at the other end of the socket.
What makes the connection table hard is one peer on several sockets: its TLS
bootstrap connection and a data channel, say, of which one is in the table while
messages and ends come on both.

`PingMonitor` has time. Every registration of the remote peer makes a connection
object with an interval that pings; every ping sets a timeout of 4 s; every
timeout counts one on all counters that name the peer, whichever connection they
were made for. The module follows all connection objects ever made, since their
timers survive them.

`Journey` follows one message: destination list, via list and ttl, over members
whose routing tables are at rest except for lost connections. `Orders` are the
orders in which a member can have met the others; `NextHop` is `getNextHops`, whose
last resort walks the table in that order (`ClosestPrecedingNode`).

`Attach` has two peers that both run the code. Either may offer channels; the
offer and the answer travel by other peers and may be lost; a channel fails at
its two ends independently. The end of a channel that opens writes its id, the
end that reads an id registers the channel or answers `close`, and the handlers
of JoinRequest, JoinAnswer and update follow. What a peer knows of its joining is
in three variables, as in the code: `AP` is set when an id has been read and the
JoinRequest is out (`Core/ConnectionManager.js:244-245`), `topologyJoined` by the
JoinAnswer (`Core/MessageDispatcher.js:97`), and `joined` by an update of the peer that
is `AP` (`Core/MessageDispatcher.js:109-113`). Over the bootstrap connection an update
may come before each of them. The fourth condition of the code, `isWaitForJoinAns`,
is left out because it bars nobody: nothing calls `setWaitForJoinAnswer`, so it is always
false, and an update that the admitting peer sent before the JoinRequest reached it
completes the joining ahead of the JoinAnswer. `AttachLinks` says that both flags
are set in the end, whichever comes first. A write to
a channel that is closing ends the process, as in `Peer`.

`Bootstrap` has a peer over several lives of its process, in several overlays.
`StartUp` says of each file, origin and command line which overlay the start
enters and with which list, or that it comes to nothing: a check that fails
returns `undefined`, which `checkOverlay` takes for success, and the services die
of what is missing (`StartFails`). A start reads or generates the identity of its
overlay while, with `-e`, an asynchronous `fs.unlink` is under way: the three
orders of the unlink, the look and the read are the three disjuncts of
`ParseConfig`, and `Unlinked` is the one that comes late. What `-e` erases goes by
`--overlay-name` alone. The list of bootstrap peers is tried all at once; each
place of it has its own count of attempts. An entry of the cache is a peer and
whether the port is one it listens at; the address of a data channel is not
known and not cached.

`Codec` writes a message as a sequence of fields, each with the width or kind it
is written with (`U8`, `U16`, `U32`, `Text`, `Raw`); a reader takes from the
front and gets what is there if the kind agrees. A length counts fields and not
bytes. So what the model tells apart is what a decoder could get wrong: a field
missed, swapped, read by another type, a length over the wrong part. A reader
that starts anywhere but at the beginning of a message meets another kind of
field, or bytes that look like the right ones: `Decode` then has the fate
"throws" or is left open. A signature is the signer and what was signed.

`Stream` has three peers in a row. A write while another is under way waits, and
what has waited goes out together; whether Node.js hands it to TLS as one buffer
or one after the other depends on its version, and both are in `WriteDone`. What
goes out is cut into records of at most `RecordSize` fields, and a record is one
`data` event. `handleMessage` decodes one message from it, verifies it and drops
the rest. The peer in the middle forwards an Attach request that is not for it,
and signs it anew. A data channel keeps messages apart and is the special case
in which nothing waits. `First` and `Second` are the refinement mappings to
`Channel`: what was written to a connection, what its reader took for genuine,
and the place of the last such message among those written.

Definitions named `X_Slip` or `X_SomeMistake` stand before `X` and are `X` with a
plausible mistake in it; they are used by nothing but the mutation tests of the
properties, which replace `X` by them and expect TLC to object.

## Runs

| Run | Shows | Bounds |
|---|---|---|
| `neighbor_list` | any order of the pass gives the CACHE_SIZE nearest, the sorted-with-a-duplicate shape of the list on the way, and every interval it asks about is the clockwise arc | 5 ids anywhere on a ring of 6, CACHE_SIZE 3 as in the code, so that one id is truncated; both directions |
| `peer` | a joiner with a peer on two sockets and another on one: tables agree, no entry on a closed channel, drops are complete, leavers forgotten, a carrier always exists, hops missing only without tables, joined once, through the admitting peer, which stays | 3 ids, an accepted and an outgoing socket and a channel, CACHE_SIZE 2 |
| `ping_monitor` | counters agree, nobody is dropped early or late, timers end | Limit 5 as in the code, Period 2 and Timeout 1, three registrations on two sockets |
| `journey` | a request is answered, the answer comes home, the successor is found where the table can find it, nothing circulates for ever | 3 members in every connected graph and insertion order, a joiner at three places of the ring, one connection lost, ttl 6 |
| `attach` | when all is quiet the two ends agree and nothing redundant is open; an Attach by itself links the peers and completes the joining by both flags, whatever updates came before it | two channels from either side, with and without a bootstrap connection, one loss, one periodic update |
| `bootstrap` | one joining Attach per life, to the id after the peer's own; id, list and cache belong to the overlay and survive other lives, failed ones included; retries end and are enough | 3 lives, 2 overlays in 3 files (one, both, and one that begins with a signature), 12 command lines, 2 peers, 2 attempts (6 in the code), a cache of 1 (10), ids with a carry and the wrap |
| `stream` | each connection is a lossy channel; the first message of a record arrives; a reader ends only on a record that begins inside a message; a relay keeps what it relays | two messages out of nine contents and a `close`, all write schedules, the first write possibly behind an earlier one, records of 64 fields so that some pairs of messages fit in one and some are cut, 4 assignments of configuration sequences |

Three ids in `Peer` are the local peer, a neighbour, and one that the neighbour
tells of or that is a neighbour too. A socket is used once (unused, connecting,
open, closing, closed), so the runs of `Peer` are finite without counters. In
`PingMonitor` the ratio of Period and Timeout is what the interleavings depend
on: one ping's timeout is over before the next ping, as it is with 20 s (or the
5 s of one configuration) and 4 s. Its third registration is one on a socket
used before or a new one while both older intervals still run. In `Bootstrap`
the number of attempts only has to be larger than one, and a cache of one can be
empty, full, and asked to take more. Three lives are the fewest in which a peer
returns to an overlay it has left, or in which an id is erased, replaced, and must
then stay. In `Stream` every single message fits in a record, as in practice
(16 kB); two are enough for one to be merged with another or cut by it, and a
third peer for one to be relayed.
`CHECK_DEADLOCK FALSE` is set where the system really may stop: the process may
end, all sockets may be closed, a message has arrived, a pass over a list ends.

### Disagreements

Each of these runs checks one sentence the repository says of the program, and
TLC finds a behaviour of the code against it; `PROJECT.json` quotes the lines.

| Run | Shows |
|---|---|
| `closed_channel_crash` | a timer writes to a channel its other end has closed; the catch block calls `destroy()`, which a channel does not have, and the process ends |
| `same_size_missed` | the neighbours change, their number does not, and `isChangedList`, which indexes Sets, sees no change |
| `ping_unwatched` | the interval of a closed connection uses up the counters of the peer's next connection, whose loss nothing will detect |
| `attach_glare` | of two channels each end keeps the one whose id it read first and closes the other: none is left |
| `journey_circulates` | the last resort of `getNextHops` does not depend on the destination: a joining request goes to and fro until ttl 1 hands it to the wrong member |

### Fairness

- `PingMonitor`: weak fairness of the timers that are due and of time. The event
  loop runs expired timers; time does not stop. Nothing is assumed of messages.
- `Journey`: weak fairness of a peer's handling of what it has received:
  connections are reliable while they last. Losing a connection is never forced.
- `Attach`: weak fairness of callbacks as a whole, which an event loop gives.
  Offers, losses and ticks are free. Weak fairness of their disjunction is
  enough because only finitely many callbacks can be caused.
- `Bootstrap`: weak fairness of attempts: a connection attempt ends one way or
  the other and the 3 s timer of a retry fires. A peer in `Flaky` refuses fewer
  times than it is tried; the others may refuse for ever.
- `Stream`: weak fairness of the end of a write and of a data handler, which the
  event loop calls as long as chunks arrive and somebody reads. A handler is
  enabled exactly when a chunk arrives, so its fairness is written
  `[]<>~Arrives(h) \/ []<><<Read(h)>>_vars` and needs no `ENABLED`. Sending is
  never forced.
- `NeighborList`: weak fairness of the loop. `Peer` states safety only.

## Proofs

A module of proofs states its inductive invariant `IInv` (in `PeerProofs` a second
one, `EInv`, rests on the first), proves that `Init` satisfies it and that each action keeps
it, one lemma per action, and reads the properties off it. TLC checked each of
these invariants on the module's instances before it was proved. The theorems name the
definitions the runs check; the runs show them on an instance and the theorems
for every value of the constants the assumption of the module admits.

All invariants and action properties that passing runs check of `Peer`,
`PingMonitor`, `NeighborList`, `Journey`, `Attach`, `Bootstrap` and `Stream` are
theorems, and that `Stream` implements `Channel` is one:

| Module | Theorems | For any | From |
|---|---|---|---|
| `PeerProofs` | `TypeCorrect`, `OneEntryPerPeer`, `RoutingFollowsConnections`, `CarrierExists`, `HopsAreConnected`, `DropsAreComplete` | ids, sockets, assignment of sockets to peers, CACHE_SIZE, joiner or initiator | `PeerAssumption` |
| | `ClosedSocketsAreForgotten`, `LeaversAreForgotten`, `AdmissionIsKept`, `AdmittingPeerIsConnected` | as above | `PeerAssumption`, and `DistinctValues`: ids have different numbers |
| `PingMonitorProofs` | `TypeCorrect`, `CountersAlwaysAgree`, `LossIsDetected`, `OnlyTheSilentAreDropped` | period, timeout, limit, sockets, registrations | `PingAssumption`: a timeout is shorter than the period |
| `NeighborListProofs` | `IntervalsAreArcs`, `ListIsSorted`, `NeighborsAreTheNearest` | ids, ring, order of the pass, CACHE_SIZE, direction | `NeighborListAssumption`; different ids convert to different numbers, as `Init` has it |
| `JourneyProofs` | `TypeCorrect`, `AnswersReturn`, `JoinerFindsItsSuccessor` | members, joiners, connected graphs, orders of the tables, ttl, lost connections | `JourneyAssumption`, `DistinctValues`; the second also from `NothingBetween`, the third from `NoneHalfway` and `EnoughForAHop` |
| `AttachProofs` | `TypeCorrect`, `TablesAgree`, `NothingRedundant` | number of channels, joiners, losses and ticks | `AttachAssumption` |
| `BootstrapProofs` | `TypeCorrect`, `ListIsOfTheOverlay`, `OneFirstAttempt`, `OneAttach`, `IdentitiesAreKept`, `CachesSurvive` | files, command lines, peers, ids, attempts, cache sizes, lives | `BootstrapAssumption`; `IdAssumption`: ids are of hexadecimal digits and have some |
| `StreamProofs` | `MessageRead`, `WhatVerifies` | message of any type, signer, what follows it in the chunk and where the chunk ends | none: they are about `Codec` |
| | `TypeCorrect`, `OnlyCutsEnd`, `RelayIsFaithful`, `HopsImplementChannels`, `OnlyLosses`, `NothingIsTakenBack` | contents, configuration sequences, number of messages, record size, ttl, schedule of writes | `StreamAssumption` |

### The invariants, and why they are needed

- `Peer`, first half. `Good(peer)` has the type of the record, attached ids in the
  routing table, an id once in the connection table, the routing table within
  the connection table, and no death for want of a carrier. `RoutedAreConnected`
  is not inductive without the uniqueness of entries: `removeConnection` deletes
  one entry and the id's route, and with a second entry of the same id the
  removal of its route would not follow the table. `CarrierExists` needs the
  origin of the current message to have an entry while `attachToAllNeighbors`
  runs, which is why each lemma carries `Has` along. There is a lemma per
  function of the code, saying that it keeps `Good`, what it does to `status`, and
  that what it drops leaves no trace (`NoTrace`); and a lemma per handler that
  composes them in the handler's order.
- `Peer`, second half. `ClosedSocketsHoldNoEntry` needs `EntryNamesRemote`: the id
  of an entry is the peer at the other end of its socket. Without it the handler
  of a channel's end, which removes by socket, and `getConnection`, which looks
  by id, could be about different entries. The updates a handler sends may fail
  one by one; `Sheds` says what they may do together: drop entries on dead
  sockets and bring nobody new into a table. The proof that a leaver is forgotten and the one
  that the admitting peer is connected when the joining ends both rest on it,
  since the socket of the current message is not dead.
- `PingMonitor`. Several intervals count on the same counters, so the property
  is about a rate: in each period since the counters were reset an interval
  counts once. `Counted` bounds a counter by the number of intervals times the
  periods that have passed, and adds those intervals (`Spent`) that have already
  counted in the current period; which these are depends on the phase of each
  timer, and `TimersInStep` keeps timeout and ping of one interval in phase.
  `Alone` is the other direction for a single interval, that the next ping comes soon
  enough: it gives `DetectedInTime`.
- `NeighborList`. In every round the list holds exactly the ids taken so far,
  and all but its last place is strictly sorted by the distance from the local
  peer. That the first places are the nearest is then a fact about ranks:
  `ProofLemmas` counts a set by the places of a sorted list without
  repetition. `ListIsSorted` is what makes the insertion loop stop in bounds.
- `Journey`. A request has paid one of its ttl for each peer that forwarded it
  (`RequestOnItsWay`), and so the answer has as much ttl as it has peers before it
  (`Returning`). The way back exists because each two neighbours in the via list are
  linked (`WayBack`), and links and tables name each other (`TablesFollowLinks`). What
  could go wrong is that a peer on the way back finds itself responsible for the
  id of the sender and takes the answer. No member does for another member's id.
  A joiner's id is in no table, and here `RelayIsNotResponsible` is needed: the first
  relay of a joining request has found that it is not responsible, but for
  the id after the joiner's. That this says something of the joiner's id is
  `NothingBetween`: of two members the one nearer to the joiner is not farther from
  the id after it. It fails when the half-way point of two members lies between the
  two ids, and then the relay does take the answer for its own; it is
  therefore a hypothesis of the theorem and not an assumption of the module.
  `JoinerFindsItsSuccessor` likewise needs that no two members are equally near to
  what the joiner asks for (`NoneHalfway`), that all members fit in a cache
  and that the ttl is good for a hop. `MCJourney` assumes `NothingBetween` and
  `NoneHalfway` (`IdsFit`), so that TLC evaluates them for its members.
- `Attach`. When all is quiet the tables agree because of two facts about the way
  there: while nothing has failed, an end that closes has told the other
  (`ClosingIsTold`), and the id an end tells on opening is under way, or
  registered, or answered by a `close` that is under way (`OpeningIsAnswered`).
  `NegotiatedFirst` and `OnlyTheClosingTell` say that nothing else produces these
  messages; `BootstrapIsShared` that the bootstrap connection leaves both tables
  together.
- `Bootstrap`. `JoinsOnce` ties the one Attach to `isConnected` and, before it, to no
  attempt having connected; `OneIsKept` is about the attempts that were first
  attempts and not told to close, in whatever order they connect. The cache and
  the identity are action properties that need `CacheIsSaved` (memory and
  file agree while the process runs) and `ErasingIsAsked` (the unlink under way
  is the one of this start). `NextNumberIsWritten` is the lemma for the carry of
  `addNodeID`, for ids of any length; it goes by induction on the digits read from the
  left. The next number is stated with the wrap spelled out (`NextNumber`):
  all digits `f` are followed by all digits 0.
- `Codec`. `Fits(chunk, at, fields)` says that a chunk holds these fields from a
  place on, as far as the chunk goes. `FitsJoined` takes a message apart into header,
  content and security block, and there is a lemma for each reader: what it takes
  and where it leaves the cursor, or that it throws. A reader does throw when a
  number is missing at the end of a chunk, but a missing text is read as empty
  and a missing buffer too; so a message whose last field, the signature, is cut
  off reads like a whole one. `MessageRead` says this, and that the
  signature is then empty, from which `WhatVerifies` has it refused.
- `Stream`. `Hop` says what a connection holds. A buffer that waits is a message
  written to it, or `Close` (`BufferRight`). A record that begins with a message begins
  with one of those written, as far as the record goes (`ChunkRight`), and on a connection
  that was never cut every record does and has all of that message
  (`WholeRight`), so that its reader, by `MessageRead`, does not throw. `Rising`
  and `Ahead` keep the order of writing, from the wire to what waits; all of it is past
  the last message the reader has got (`Place`, the `last` of `Channel`). What is in
  the middle of a record is not described: the reader drops it. A chunk that
  begins inside a message has, by `InsideMessage`, another kind of field among its
  first three, so it is never read as a message.
  `ReceivedRight` has a map from what was got to what was written that goes up;
  `WrittenRight` says that what was written is the writer's own or what the relay got
  from the hop before (`Own`, `Relayed`). Places are found by transactions, and for
  that `Numbered` and `Followed` are needed: transactions are given out once, and
  the relay has written on nothing that it has not got yet. The step that is most
  work is `WriteDone`, which joins the buffers that waited and cuts the result anew: `Laid`
  lays messages, and records, one after the other along the same stretch of fields
  and `SamePlace` says that a field belongs to one of them.
- The refinement. `ChannelStep` says what each step is to a hop: one more is
  written, one that was written after those got is got, or nothing. `StepKeeps`
  proves it with the invariant, and `HopsImplementChannels` is then a matter of the
  two mappings. `OnlyLosses` and `NothingIsTakenBack` are what `Channel` comes to,
  stated of the connections: there is a map from the places of what was got to
  the places of what was sent that goes up and does not pass `last`.

`StreamAssumption` asks that a record has room for nine fields, the ninth being
the transaction by which the histories tell messages apart; in bytes they are some hundred
at most, in a record of 16 kB. Its other conjuncts say of what kind the
constants are; `OfClass` lists the members of each content class.

Induction over numbers is available to these proofs in a form without operator
parameters: a nonempty set of naturals has a least element (`LeastNatural`), so a
set of naturals that holds 0 and every successor is all of them (`AllNaturals`).

### Only model-checked

- Liveness, in every module: `JourneyEnds`, `FirstOfRecordArrives` and the like need
  fairness, which is beyond the prover. So are the five disagreements, which are
  counterexamples.

Nothing else that a passing run checks is without a theorem.

## Plan

Modelled in this order: `Peer` with `NeighborList`, `PingMonitor`, `Journey`,
`Attach`, `Bootstrap`, `Codec` with `Stream` and `Channel`, `StartUp`; proved in this
order: `Peer`, `PingMonitor`, `NeighborList`, `Bootstrap`, `Attach`, `Journey`, `Codec`
with `Stream` and its refinement of `Channel`. What is left:

1. `Attach` as the implementation of an abstract link (none, half, both).
2. `Overlay`: several routing tables exchanging updates, and the abstract ring
   they should converge to.

## Not modelled

- The finger table, path compression and storage are stubs. `ErrorResponse` and
  `LeaveAnswer` are never sent. The web view is presentation. Client mode
  (`global.modeClient`) is never set by the code.
- The algorithms of hashing and signing: the code always uses SHA1 and RSA. The
  token at the front of a message and the hash of the overlay name are written
  and never compared, so they tell nothing apart.
- The settings that are copied one by one from the configuration file
  (`Core/instance.js:317-365`), and the fields of the certificate other than the id.
- Ids that convert to one number (`utils/utils.js:9-14`) are excluded by assumption. What
  a collision does to a neighbour list can be seen by dropping `IsInjective` from `Init` of
  `NeighborList`: an id that collides with one of the list is in no interval that begins
  or ends there, goes to the end of the list, and may be cut off while a farther
  one stays.
- Files are written and read whole: a cache cut short by the end of the process
  ends every later start at its `JSON.parse`, to which a model adds nothing.
- `learnedFromTable` grows for ever and is read by nobody.
- A successor without a routing table entry ends the process when `getNextHops`
  chooses it; `Peer` has this as a `status` that its properties allow.
- The `-e` option without `--overlay-name` erases nothing, although `README.md:31`
  speaks of "the previously registered information for this port"; `StartUp` has
  what the code does.
