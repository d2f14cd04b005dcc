-------------------------------- MODULE Stream --------------------------------
(***************************************************************************)
(* Messages on TLS connections, from one peer over a second to a third.    *)
(*                                                                         *)
(* TLS keeps the order of the bytes and not the ends of the writes.  What  *)
(* is written while an earlier write is under way waits, and goes out      *)
(* together when that is done; what goes out together is cut into records, *)
(* and a record is the chunk that the reader's data handler gets.  The     *)
(* handler takes one message from a chunk (Topology/MessageHandler.js).    *)
(* The data channels of WebRTC keep every message apart: they are the case *)
(* in which no write has to wait.                                          *)
(***************************************************************************)
EXTENDS Codec, FiniteSets

CONSTANTS
  Route,       \* the peers: hop h leads from Route[h] to Route[h + 1]
  Contents,    \* what may be sent: records of code and body
  Configurations, \* what configuration sequences, as digits, the peers may have
  Target,      \* a resource that the last peer is responsible for
  Redundant,   \* the hops that are redundant bootstrap connections
  RecordSize,  \* the fields of the largest record
  InitialTtl,  \* initial-ttl of the configuration
  MaxMessages  \* a bound on the messages that are sent

Hops  == 1 .. Len(Route) - 1
Peers == Range(Route)

ASSUME StreamAssumption ==
  /\ Route \in Seq(Peers) /\ Len(Route) = 3 /\ IsInjective(Route) /\ Redundant \subseteq Hops
  /\ Configurations \subseteq [Peers -> Seq(Nat)]
  /\ \A c \in Contents : /\ c = [code |-> c.code, body |-> c.body]
                         /\ c.code \in Range(MessageCode) /\ OfClass(c.code, c.body)
  /\ RecordSize \in Nat /\ RecordSize >= 9  \* a message begins with more fields
  /\ InitialTtl \in Nat \ {0, 1} /\ MaxMessages \in Nat

VARIABLES
  sequence,  \* global.configuration_sequence of each peer
  waiting,   \* the buffers of each hop that wait for the write under way
  busy,      \* whether one is under way
  wire,      \* the chunks on the way to the reader of a hop
  state,     \* a hop is open, or its reader has read "close"
  ended,     \* the peers whose process has ended
  written,   \* history: the messages written to a hop
  opening,   \* history: the transactions that began a record of a hop
  cut,       \* history: the hops with a record that begins inside a message
  received   \* history: the messages that a reader has taken for genuine

vars == <<sequence, waiting, busy, wire, state, ended, written, opening, cut, received>>

\* A message in the hands of a peer, and who signed it for this hop.
BySigner(p, m) == [signer |-> p, message |-> m]

Message ==
  [overlay : {"overlay"}, sequence : UNION {Range(c) : c \in Configurations}, ttl : 1 .. InitialTtl,
   transaction : 1 .. MaxMessages, via : Seq({NodeID(p) : p \in Peers}),
   dest : Seq({NodeID(p) : p \in Peers} \cup {ResourceID(Target)}),
   code : Range(MessageCode), body : {c.body : c \in Contents}]

SignedMessage == [signer : Peers, message : Message]

TypeOK ==
  /\ sequence \in Configurations
  /\ DOMAIN waiting = Hops /\ DOMAIN wire = Hops
  /\ busy \in [Hops -> BOOLEAN] /\ \A h \in Hops : waiting[h] # <<>> => busy[h]
  /\ state \in [Hops -> {"open", "closing", "closed"}]
  /\ ended \subseteq Peers /\ cut \subseteq Hops
  /\ opening \in [Hops -> SUBSET (1 .. MaxMessages)]
  /\ written \in [Hops -> Seq(SignedMessage)]
  /\ received \in [Hops -> Seq(SignedMessage)]

\* The connections are up and nothing is on its way, but the write of what
\* went before may still be under way.
Init ==
  /\ sequence \in Configurations
  /\ waiting = [h \in Hops |-> <<>>] /\ busy \in [Hops -> BOOLEAN]
  /\ wire = [h \in Hops |-> <<>>] /\ state = [h \in Hops |-> "open"]
  /\ ended = {} /\ cut = {} /\ opening = [h \in Hops |-> {}]
  /\ written = [h \in Hops |-> <<>>] /\ received = [h \in Hops |-> <<>>]

-----------------------------------------------------------------------------
(* Writing to a stream                                                     *)

Reader(h) == Route[h + 1]

Close == <<"bytes", "close">>

Records(buffer) ==
  [i \in 1 .. (Len(buffer) + RecordSize - 1) \div RecordSize |->
     SubSeq(buffer, (i - 1) * RecordSize + 1,
            IF i * RecordSize < Len(buffer) THEN i * RecordSize ELSE Len(buffer))]

\* For the histories: a record begins with a message, or inside one.  Nothing
\* but the beginning of a message is a number of four bytes and two texts.
Begins(record) ==
  Len(record) >= 3 /\ [i \in 1 .. 3 |-> record[i][1]] = <<"u32", "text", "text">>
TransactionOf(record) == record[9][2]

\* The chunks of a write join the others on their way.
Emit(chunks, h, records) ==
  /\ wire' = [chunks EXCEPT ![h] = @ \o records]
  /\ opening' = [opening EXCEPT ![h] =
                   @ \cup {TransactionOf(r) : r \in {q \in Range(records) : Begins(q)}}]
  /\ cut' = IF \E r \in Range(records) : ~Begins(r) /\ r # <<Close>>
            THEN cut \cup {h} ELSE cut

\* A write: at once, or after the one under way.  "chunks" is the wire
\* without what the same callback has read.
Write(chunks, h, buffer) ==
  IF busy[h]
  THEN /\ waiting' = [waiting EXCEPT ![h] = Append(@, buffer)]
       /\ wire' = chunks /\ UNCHANGED <<busy, opening, cut>>
  ELSE /\ Emit(chunks, h, Records(buffer))
       /\ busy' = [busy EXCEPT ![h] = TRUE] /\ UNCHANGED waiting

\* sendMessage: serialize signs with the key of whoever writes.
SendMessage(chunks, h, m) ==
  /\ Write(chunks, h, Serialize(m, Route[h]))
  /\ written' = [written EXCEPT ![h] = Append(@, BySigner(Route[h], m))]

Transactions == {s.message.transaction : s \in UNION {Range(written[h]) : h \in Hops}}

\* newMessage: the writer is the whole via list.
NewMessage(p, content, dest) ==
  [overlay |-> "overlay", sequence |-> sequence[p], ttl |-> InitialTtl,
   transaction |-> Cardinality(Transactions) + 1, via |-> <<NodeID(p)>>, dest |-> dest,
   code |-> content.code, body |-> content.body]

\* A message for the peer at the other end, or, as an Attach request may be,
\* for whoever is responsible for a resource behind it.
Destinations(h, content) ==
  {<<NodeID(Reader(h))>>} \cup
  (IF h = 1 /\ content.code = MessageCode.attach_req
   THEN {<<NodeID(Reader(h)), ResourceID(Target)>>} ELSE {})

Send(h) ==
  /\ Route[h] \notin ended /\ state[h] # "closed"
  /\ Cardinality(Transactions) < MaxMessages
  /\ \E content \in Contents : \E dest \in Destinations(h, content) :
       SendMessage(wire, h, NewMessage(Route[h], content, dest))
  /\ UNCHANGED <<sequence, state, ended, received>>

\* The callback of a bootstrap connection made after the first: it is told
\* to go away.  The pings of its table entry go on.
SendClose(h) ==
  /\ h \in Redundant /\ state[h] = "open" /\ Route[h] \notin ended
  /\ Write(wire, h, <<Close>>)
  /\ state' = [state EXCEPT ![h] = "closing"]
  /\ UNCHANGED <<sequence, ended, written, received>>

\* The write under way is done.  What waits goes out as one buffer, or
\* buffer by buffer: that depends on the version of the runtime.
WriteDone(h) ==
  /\ busy[h] /\ Route[h] \notin ended
  /\ IF waiting[h] = <<>>
     THEN /\ busy' = [busy EXCEPT ![h] = FALSE]
          /\ UNCHANGED <<waiting, wire, opening, cut>>
     ELSE /\ waiting' = [waiting EXCEPT ![h] = <<>>]
          /\ \/ Emit(wire, h, Records(FlattenSeq(waiting[h])))
             \/ Emit(wire, h, FlattenSeq([i \in DOMAIN waiting[h] |-> Records(waiting[h][i])]))
          /\ UNCHANGED busy
  /\ UNCHANGED <<sequence, state, ended, written, received>>

-----------------------------------------------------------------------------
(* Reading a chunk                                                         *)

\* The next chunk of hop h, for a reader that still reads, and what is left
\* on the wire.
Arrives(h) == wire[h] # <<>> /\ state[h] # "closed" /\ Reader(h) \notin ended
Chunk(h)   == Head(wire[h])
Remaining(h) == [wire EXCEPT ![h] = Tail(@)]

\* The whole chunk is the text "close": the connection is removed.
ReadClose(h) ==
  /\ Arrives(h) /\ Chunk(h) = <<Close>>
  /\ state' = [state EXCEPT ![h] = "closed"] /\ wire' = Remaining(h)
  /\ UNCHANGED <<sequence, waiting, busy, ended, written, opening, cut, received>>

Genuine(h, d) == d.fate = "reads" /\ Verify(d, sequence[Reader(h)])

\* Nothing catches what a decoder throws.  Bytes read as something else than
\* they are throw somewhere, or do not verify.
ReadThrows(h, d) ==
  /\ d.fate # "reads"
  /\ ended' = ended \cup {Reader(h)} /\ wire' = Remaining(h)
  /\ UNCHANGED <<sequence, waiting, busy, state, written, opening, cut, received>>

\* "Bad signature received": the chunk is dropped.
ReadRefused(h, d) ==
  /\ d.fate # "throws" /\ ~Genuine(h, d)
  /\ wire' = Remaining(h)
  /\ UNCHANGED <<sequence, waiting, busy, state, ended, written, opening, cut, received>>

\* processDestination and the check that follows: the reader takes its own
\* id off a longer list; the last peer is responsible for Target.
Stripped(p, dest) == IF dest[1] = NodeID(p) /\ Len(dest) > 1 THEN Tail(dest) ELSE dest

IsLocal(p, dest) ==
  Len(dest) = 1 /\ dest[1] \in {NodeID(p)} \cup
                               (IF p = Last(Route) THEN {ResourceID(Target)} ELSE {})

\* Slip: the ttl goes up.
Forwarded_CountsUp(p, m) ==
  [m EXCEPT !.ttl = @ + 1, !.via = Append(@, NodeID(p)), !.dest = Stripped(p, @)]

\* toForward.
Forwarded(p, m) ==
  [m EXCEPT !.ttl = @ - 1, !.via = Append(@, NodeID(p)), !.dest = Stripped(p, @)]

\* A genuine message is for the reader, or goes on over the next hop.
Receive(h, d) ==
  /\ Genuine(h, d)
  /\ received' = [received EXCEPT ![h] = Append(@, BySigner(Owner(d.certificate), d.message))]
  /\ LET m == d.message
         p == Reader(h)
     IN  IF IsLocal(p, Stripped(p, m.dest)) \/ m.ttl = 1
         THEN /\ wire' = Remaining(h)
              /\ UNCHANGED <<waiting, busy, written, opening, cut>>
         ELSE SendMessage(Remaining(h), h + 1, Forwarded(p, m))
  /\ UNCHANGED <<sequence, state, ended>>

ReadMessage(h) ==
  /\ Arrives(h) /\ Chunk(h) # <<Close>>
  /\ \E d \in {Decode(Chunk(h))} :
       ReadThrows(h, d) \/ ReadRefused(h, d) \/ Receive(h, d)

Read(h) == ReadClose(h) \/ ReadMessage(h)

Next == \E h \in Hops : Send(h) \/ SendClose(h) \/ WriteDone(h) \/ Read(h)

\* Weak fairness of the ends of writes and of the data handlers.  Read(h) is
\* enabled whenever a chunk arrives, and this says so in place of ENABLED.
Fairness ==
  \A h \in Hops : /\ WF_vars(WriteDone(h))
                  /\ []<>~Arrives(h) \/ []<><<Read(h)>>_vars

Spec == Init /\ [][Next]_vars /\ Fairness

-----------------------------------------------------------------------------
(* Properties                                                              *)

Has(messages, t) == \E i \in DOMAIN messages : messages[i].message.transaction = t

\* The place, among the messages written to a hop, of the last that its
\* reader got.
Place(h) ==
  IF received[h] = <<>> THEN 0
  ELSE SelectInSeq(written[h],
         LAMBDA s : s.message.transaction = Last(received[h]).message.transaction)

First  == INSTANCE Channel WITH Messages <- SignedMessage,
            sent <- written[1], got <- received[1], last <- Place(1)
Second == INSTANCE Channel WITH Messages <- SignedMessage,
            sent <- written[2], got <- received[2], last <- Place(2)

\* A connection loses messages but does nothing else to them: every message
\* a handler takes for genuine is one its peer wrote, unchanged in every
\* part and with its signer, none twice, none before one written earlier.
HopsAreChannels == First!Spec /\ Second!Spec

\* What is lost is lost by merging alone: a message that is the first of its
\* record is received, if its reader has the same configuration and has not
\* stopped reading.
FirstOfRecordArrives ==
  <>[](\A h \in Hops : \A t \in opening[h] :
         \/ Has(received[h], t) \/ Reader(h) \in ended \/ state[h] = "closed"
         \/ sequence[Route[h]] # sequence[Reader(h)])

\* No sequence of messages ends the process of their reader while every
\* record begins with a message: it takes a record that begins inside one.
EndsOnlyInsideAMessage ==
  \A h \in Hops : Reader(h) \in ended => h \in cut

\* A message that comes over a relay is the one the relay has received, of
\* one configuration with all who have seen it: the content is what its
\* origin signed although the signature is the relay's, the ttl has paid for
\* every peer in the via list, and the via list leads back to the origin.
RelayKeepsTheMessage ==
  \A h \in Hops : \A i \in DOMAIN received[h] :
    LET s == received[h][i]  m == s.message
    IN  /\ m.sequence = sequence[Reader(h)] /\ s.signer = Route[h]
        /\ m.ttl + Len(m.via) = InitialTtl + 1
        /\ Last(m.via) = NodeID(s.signer)
        /\ m.via[1] # NodeID(s.signer) =>
             /\ m.via = <<NodeID(Route[h - 1]), NodeID(Route[h])>>
             /\ \E j \in DOMAIN received[h - 1] :
                  LET o == received[h - 1][j].message
                  IN  /\ o.transaction = m.transaction /\ o.overlay = m.overlay
                      /\ o.code = m.code /\ o.body = m.body
=============================================================================
