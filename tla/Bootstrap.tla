------------------------------ MODULE Bootstrap ------------------------------
(***************************************************************************)
(* How a peer that is not the initiator enters the overlay, over several   *)
(* lives of its process: Bootstrap.connect with its retries, the first     *)
(* Attach, and the two files that outlive the process, the saved instance  *)
(* with the peer's id and the cache of bootstrap peers (src/reload.js,     *)
(* src/Core/instance.js, peer.js, bootstrap.js, bootstrapCache.js).        *)
(*                                                                         *)
(* Every peer of the list is tried at once and independently.  A cached    *)
(* entry is whatever address and port a connection had, so that one peer   *)
(* may be cached several times, and by the ephemeral port of a connection  *)
(* it made itself, where nothing listens.                                  *)
(***************************************************************************)
EXTENDS RingIds, SequencesExt, StartUp

CONSTANTS
  Nodes,        \* the other peers
  Names,        \* of the overlays
  Files,        \* what the configuration file may be, see StartUp
  CommandLines, \* how the program may be started
  Origins,      \* where the file may come from
  Digests,      \* of the keys that may be generated
  IdLength,     \* node-id-length
  GivenIds,     \* what may follow --id
  Flaky,        \* peers that refuse fewer than MaxAttempts times in a row
  MaxAttempts,  \* how often a peer is tried (6 in the code)
  MaxPeers,     \* maxPeerToCache (10 in the code)
  MaxLives      \* a bound on the runs of the process

Entries == [node : Nodes, port : {"listening", "ephemeral"}]

ASSUME BootstrapAssumption ==
  /\ Files \subseteq Seq(Elements(Nodes, Names))
  /\ CommandLines \subseteq Arguments(Names) /\ Origins \subseteq Sources
  /\ NoName \notin Names /\ Flaky \subseteq Nodes
  /\ MaxAttempts \in Nat \ {0} /\ MaxPeers \in Nat /\ MaxLives \in Nat \ {0}

\* Digits are hexadecimal, and an id has some: an empty --id counts as none.
ASSUME IdAssumption ==
  /\ Digests \subseteq Seq(0 .. 15) /\ IdLength \in Nat \ {0}
  /\ \A d \in Digests : Len(d) >= IdLength
  /\ GivenIds \subseteq Seq(0 .. 15) \ {<<>>}

VARIABLES
  overlay,      \* the overlay of the process, of the last one when none is up
  nodeID,       \* its id there
  saved,        \* the id in the saved instance of each overlay
  up,           \* the process is running
  erase,        \* the overlay whose identity it was asked to erase
  erasing,      \* the one whose fs.unlink has yet to be done
  list,         \* bootstrapPeerList
  test,         \* of each place of the list: the attempts made
  phase,        \* of each place: what its last attempt has come to
  told,         \* places whose connection was sent "close"
  isConnected,
  attaches,     \* the Attach requests sent on being connected
  connections,  \* the peers in the connection table
  cache,        \* the cached entries in memory
  file,         \* and in the file of each overlay
  refused,      \* how often each flaky peer has refused in this life
  lives
local == <<list, test, phase, told, isConnected, attaches, connections, refused>>
identity == <<overlay, nodeID, saved, up, erase, erasing, lives>>
vars == <<identity, local, cache, file>>

NoId == <<>>

LocalIds == NewIds(Digests, IdLength, GivenIds)

Phases == {"connecting", "waiting", "connected", "gaveUp"}

TypeOK ==
  /\ overlay \in Names \cup {NoName} /\ nodeID \in LocalIds \cup {NoId}
  /\ saved \in [Names -> LocalIds \cup {NoId}]
  /\ up \in BOOLEAN /\ erase \in Names \cup {NoName} /\ erasing \in Names \cup {NoName}
  /\ up => nodeID # NoId /\ overlay # NoName
  /\ list \in Seq(Entries)
  /\ test \in [DOMAIN list -> 1 .. MaxAttempts]
  /\ phase \in [DOMAIN list -> Phases] /\ told \subseteq DOMAIN list
  /\ isConnected \in BOOLEAN /\ attaches \in Seq([to : Nodes, resource : Seq(0 .. 15)])
  /\ connections \subseteq Nodes /\ refused \in [Flaky -> 0 .. MaxAttempts - 1]
  /\ cache \in Seq(Entries) /\ file \in [Names -> Seq(Entries)]
  /\ \A o \in Names : Len(file[o]) <= MaxPeers
  /\ lives \in 0 .. MaxLives

\* Nothing is saved and nothing runs.
Init ==
  /\ overlay = NoName /\ nodeID = NoId /\ saved = [o \in Names |-> NoId]
  /\ up = FALSE /\ erase = NoName /\ erasing = NoName
  /\ file = [o \in Names |-> <<>>] /\ cache = <<>> /\ lives = 0
  /\ list = <<>> /\ test = <<>> /\ phase = <<>>
  /\ told = {} /\ isConnected = FALSE /\ attaches = <<>> /\ connections = {}
  /\ refused = [n \in Flaky |-> 0]

\* A new process tries every peer of its list at once.
Connect(peers) ==
  /\ list' = peers
  /\ test' = [i \in DOMAIN peers |-> 1]
  /\ phase' = [i \in DOMAIN peers |-> "connecting"]
  /\ told' = {} /\ isConnected' = FALSE /\ attaches' = <<>> /\ connections' = {}
  /\ refused' = [n \in Flaky |-> 0]

\* The identity of overlay o is read, or generated and saved.  The saved
\* instance -e is about, that of t, is unlinked meanwhile: if it is the same
\* one, after it was read, before it was looked for, or in between, which ends
\* the process.
ParseConfig(o, t, comesUp) ==
  \/ /\ saved[o] # NoId
     /\ nodeID' = saved[o] /\ up' = comesUp /\ erasing' = t /\ UNCHANGED saved
  \/ /\ saved[o] = NoId \/ t = o
     /\ nodeID' \in LocalIds /\ saved' = [saved EXCEPT ![o] = nodeID'] /\ up' = comesUp
     /\ erasing' = IF t = o THEN NoName ELSE t
  \/ /\ saved[o] # NoId /\ t = o
     /\ saved' = [saved EXCEPT ![o] = NoId] /\ up' = FALSE
     /\ erasing' = NoName /\ UNCHANGED nodeID

\* The constructor of the cache reads the file, or makes an empty one.
LoadCache(o) == cache' = file[o] /\ UNCHANGED file

\* Slip: the overlays share one cache.
InitBootstrap_Shared(peers, o, args) ==
  LET shared == CHOOSE n \in Names : \A m \in Names : Len(file[m]) <= Len(file[n])
  IN  IF args.cache THEN peers \o file[shared] ELSE peers

\* bootstrapPeerList, with or without --cache.
InitBootstrap(peers, o, args) == IF args.cache THEN peers \o file[o] ELSE peers

\* A process that comes up starts its services; the topology plug-in has the
\* bootstrap connect, but for an initiator.
StartServices(peers, o, args) ==
  Connect(IF up' THEN InitBootstrap(peers, o, args) ELSE <<>>)

\* Slip: the cache is only loaded when it is asked for.
Start_ForgetsCache(xml, source, args) ==
  /\ lives < MaxLives /\ lives' = lives + 1
  /\ Starts(xml, source, args)
  /\ LET o == Overlay(xml, args)
         t == Erases(xml, args)
     IN  /\ overlay' = o.name /\ erase' = (IF args.erase THEN args.overlayName ELSE NoName)
         /\ ParseConfig(o.name, t, ComesUp(args))
         /\ cache' = (IF args.cache THEN file[o.name] ELSE <<>>) /\ UNCHANGED file
         /\ StartServices(BootstrapNodes(o), o.name, args)

\* The process, which may end at any point, is started.
Start(xml, source, args) ==
  /\ lives < MaxLives /\ lives' = lives + 1
  /\ Starts(xml, source, args)
  /\ LET o == Overlay(xml, args)
         t == Erases(xml, args)
     IN  /\ overlay' = o.name /\ erase' = (IF args.erase THEN args.overlayName ELSE NoName)
         /\ ParseConfig(o.name, t, ComesUp(args))
         /\ LoadCache(o.name)
         /\ StartServices(BootstrapNodes(o), o.name, args)

\* It is started in vain; a saved instance may still be erased.
StartFails(xml, source, args) ==
  /\ lives < MaxLives /\ lives' = lives + 1
  /\ ~Starts(xml, source, args)
  /\ LET t == Erases(xml, args)
     IN  /\ erase' = (IF args.erase THEN args.overlayName ELSE NoName)
         /\ \/ UNCHANGED saved
            \/ t # NoName /\ saved' = [saved EXCEPT ![t] = NoId]
  /\ overlay' = NoName /\ nodeID' = NoId /\ up' = FALSE /\ erasing' = NoName
  /\ cache' = <<>> /\ Connect(<<>>) /\ UNCHANGED file

\* The unlink is done, after the identity was read.
Unlinked ==
  /\ erasing # NoName /\ erasing' = NoName
  /\ saved' = [saved EXCEPT ![erasing] = NoId]
  /\ UNCHANGED <<overlay, nodeID, up, erase, lives, local, cache, file>>

-----------------------------------------------------------------------------
(* The cache                                                               *)

\* BootstrapCache.addPeer, which saves in any case.
AddPeer(entry) ==
  /\ cache' = IF Len(cache) >= MaxPeers THEN cache ELSE Append(cache, entry)
  /\ file' = [file EXCEPT ![overlay] = cache']

\* addConnection caches the address of a connection it registers; a data
\* channel has none.
AddConnection(node, port) ==
  /\ connections' = connections \cup {node}
  /\ IF node \in connections \/ port = "none"
     THEN UNCHANGED <<cache, file>>
     ELSE AddPeer([node |-> node, port |-> port])

\* A peer connects to the listener, or by a channel, and is registered.
Accept(node) ==
  /\ up /\ node \notin connections
  /\ \E port \in {"ephemeral", "none"} : AddConnection(node, port)
  /\ UNCHANGED <<identity, list, test, phase, told, isConnected, attaches, refused>>

\* A connection ends: its entry leaves the table, what is cached stays, and a
\* new connection of the same peer is cached once more.
RemoveConnection(node) ==
  /\ node \in connections /\ connections' = connections \ {node}
  /\ UNCHANGED <<identity, list, test, phase, told, isConnected, attaches, refused>>
  /\ UNCHANGED <<cache, file>>

\* A PingRequest tells the addresses of its sender, who is registered, and
\* the port it listens at; an address that is cached, with whatever port, is
\* not cached again.
ReceivePing(node) ==
  /\ node \in connections
  /\ ~ \E k \in DOMAIN cache : cache[k].node = node
  /\ AddPeer([node |-> node, port |-> "listening"])
  /\ UNCHANGED <<identity, local>>

-----------------------------------------------------------------------------
(* Attempts                                                                *)

\* Slip: every connection joins.
CallBack_Always(i) ==
  /\ isConnected' = TRUE
  /\ attaches' = Append(attaches, [to |-> list[i].node, resource |-> AddNodeID(nodeID)])
  /\ UNCHANGED told

\* Slip: a redundant connection is left alone.
CallBack_NotTold(i) ==
  /\ isConnected' = TRUE /\ UNCHANGED told
  /\ attaches' = IF isConnected THEN attaches
                 ELSE Append(attaches, [to |-> list[i].node, resource |-> AddNodeID(nodeID)])

\* The callback of connect: the first connection sends the Attach; each later
\* one writes "close", always to the socket of the first attempt.
CallBack(i) ==
  /\ isConnected' = TRUE
  /\ IF isConnected
     THEN told' = (IF test[i] = 1 THEN told \cup {i} ELSE told) /\ UNCHANGED attaches
     ELSE attaches' = Append(attaches, [to |-> list[i].node, resource |-> AddNodeID(nodeID)])
          /\ UNCHANGED told

Connected(i) ==
  /\ phase[i] = "connecting" /\ list[i].port = "listening"
  /\ phase' = [phase EXCEPT ![i] = "connected"]
  /\ AddConnection(list[i].node, "listening")
  /\ CallBack(i)
  /\ UNCHANGED <<identity, list, test, refused>>

\* Slip: off by one.
OnError_OneLess(i) ==
  IF ~isConnected /\ test[i] + 1 < MaxAttempts
  THEN /\ test' = [test EXCEPT ![i] = @ + 1]
       /\ phase' = [phase EXCEPT ![i] = "waiting"]
  ELSE phase' = [phase EXCEPT ![i] = "gaveUp"] /\ UNCHANGED test

\* Slip: the attempt is not counted.
OnError_NotCounted(i) ==
  /\ phase' = [phase EXCEPT ![i] = IF isConnected THEN "gaveUp" ELSE "waiting"]
  /\ UNCHANGED test

\* Slip: off by one.
OnError_OneMore(i) ==
  IF ~isConnected /\ test[i] <= MaxAttempts
  THEN /\ test' = [test EXCEPT ![i] = @ + 1]
       /\ phase' = [phase EXCEPT ![i] = "waiting"]
  ELSE phase' = [phase EXCEPT ![i] = "gaveUp"] /\ UNCHANGED test

\* The error callback: a retry later, unless a peer has been reached or the
\* attempts are used up.
OnError(i) ==
  IF ~isConnected /\ test[i] < MaxAttempts
  THEN /\ test' = [test EXCEPT ![i] = @ + 1]
       /\ phase' = [phase EXCEPT ![i] = "waiting"]
  ELSE phase' = [phase EXCEPT ![i] = "gaveUp"] /\ UNCHANGED test

\* A flaky peer accepts before it has refused MaxAttempts times.
Refuses(i) ==
  LET n == list[i].node
  IN  IF n \in Flaky /\ list[i].port = "listening"
      THEN refused[n] < MaxAttempts - 1 /\ refused' = [refused EXCEPT ![n] = @ + 1]
      ELSE UNCHANGED refused

Failed(i) ==
  /\ phase[i] = "connecting" /\ Refuses(i) /\ OnError(i)
  /\ UNCHANGED <<identity, list, told, isConnected, attaches, connections, cache, file>>

\* The timer of a retry, which asks nothing.
Retry(i) ==
  /\ phase[i] = "waiting" /\ phase' = [phase EXCEPT ![i] = "connecting"]
  /\ UNCHANGED <<identity, list, test, told, isConnected, attaches, connections, refused>>
  /\ UNCHANGED <<cache, file>>

-----------------------------------------------------------------------------
Attempt(i) == Connected(i) \/ Failed(i) \/ Retry(i)

Next ==
  \/ \E i \in DOMAIN list : Attempt(i)
  \/ \E node \in Nodes : Accept(node) \/ ReceivePing(node) \/ RemoveConnection(node)
  \/ \E xml \in Files, source \in Origins, args \in CommandLines :
       Start(xml, source, args) \/ StartFails(xml, source, args)
  \/ Unlinked

\* A connection attempt succeeds or fails and timers fire.
Spec ==
  Init /\ [][Next]_vars /\ WF_vars(\E i \in DOMAIN list : Attempt(i))

-----------------------------------------------------------------------------
(* In one life the peer sends at most one joining Attach, however many of  *)
(* the list it reaches, in whatever order, on first attempts or retries,   *)
(* and it asks for the id that follows its own: one more, modulo the size  *)
(* of the id space (bootstrap.js:136-154, utils.js addNodeID: "used to     *)
(* increment a hash").                                                     *)
OneAttachToTheNextId ==
  /\ Len(attaches) <= 1
  /\ \A k \in DOMAIN attaches :
       /\ Len(attaches[k].resource) = Len(nodeID)
       /\ NumberOf(attaches[k].resource) = NextNumber(nodeID)

(* Of the connections made at the first attempt at most one is not told to *)
(* close; those of a retry are never told, for "close" goes to the socket  *)
(* of the first attempt (bootstrap.js:137-140, 155-165).                   *)
OneFirstAttemptIsKept ==
  Cardinality({i \in DOMAIN list \ told : phase[i] = "connected" /\ test[i] = 1}) <= 1

(* An identity saved for an overlay is neither lost nor passed over by a    *)
(* start that enters the overlay, unless this start or the one before was   *)
(* to erase that very identity: whatever other overlays the peer has been   *)
(* in meanwhile and however their starts ended (instance.js:280-315,        *)
(* reload.js:45-54).                                                        *)
IdentityIsKept ==
  [][\A o \in Names :
       /\ saved[o] # NoId
       /\ \/ saved'[o] # saved[o]
          \/ overlay' = o /\ up' /\ lives' # lives /\ nodeID' # saved[o]
       => o \in {erase, erase'}]_vars

(* The list a process works through is that of its overlay, as some file    *)
(* has it that lets the peer in, and after it peers that were cached in     *)
(* that overlay: nothing of another overlay gets into it                    *)
(* (instance.js:123-166, 249-271, peer.js:141-156, bootstrapCache.js:10-15).*)
ListBelongsToTheOverlay ==
  up => \E xml \in Files : \E k \in DOMAIN xml :
          LET peers == BootstrapNodes(xml[k])
          IN  /\ xml[k].name = overlay /\ xml[k].whole /\ xml[k].permitted # "absent"
              /\ IsPrefix(peers, list)
              /\ \A i \in Len(peers) + 1 .. Len(list) :
                   \E j \in DOMAIN file[overlay] : file[overlay][j] = list[i]

(* The saved cache of an overlay never loses a peer, across lives with and  *)
(* without the --cache option, in this overlay and in others                *)
(* (bootstrapCache.js:10-62, peer.js:141-156).                              *)
CacheSurvives == [][\A o \in Names : IsPrefix(file[o], file'[o])]_vars

(* Retries end: every peer of the list comes to be connected or given up   *)
(* (bootstrap.js:155-163).                                                 *)
RetriesEnd ==
  []<>(\A i \in DOMAIN list : phase[i] \in {"connected", "gaveUp"})

(* A list with a peer that answers one of its MaxAttempts attempts is      *)
(* enough to enter, unless the process is ended or started again with      *)
(* another list (bootstrap.js:118-168).                                    *)
Enterable == \E i \in DOMAIN list : list[i].node \in Flaky /\ list[i].port = "listening"

PatienceIsEnough == Enterable ~> (isConnected \/ ~up \/ ~Enterable)
=============================================================================
