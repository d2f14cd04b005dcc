----------------------------- MODULE AttachProofs -----------------------------
(***************************************************************************)
(* Proofs about Attach, for any number of channels, joining peers, losses  *)
(* and ticks, with and without a bootstrap connection.                     *)
(***************************************************************************)
EXTENDS Attach, ProofLemmas

\* m is on its way to p on connection c.
Under(box, c, p, m) == \E i \in DOMAIN box[c][p] : box[c][p][i] = m

\* A channel opens after its negotiation.
NegotiatedFirst ==
  \A c \in Channels, p \in Peers :
    stage[c] \notin {"accepted", "failed"} => end[c][p] = "new"

\* Only an end that closes tells so.
OnlyTheClosingTell ==
  \A c \in Channels, p \in Peers :
    Under(inbox, c, p, "end") => end[c][Other(p)] \in {"closing", "closed"}

\* While nothing has failed, the other end of one that closes will know.
ClosingIsTold ==
  down = {} =>
    \A c \in Channels, p \in Peers :
      /\ stage[c] = "accepted"
      /\ end[c][p] \in {"new", "open"} /\ end[c][Other(p)] \in {"closing", "closed"}
      => Under(inbox, c, p, "end")

\* The id p tells on opening is under way, or registered, or has been found
\* redundant, of which p is going to hear.
OpeningIsAnswered ==
  down = {} =>
    \A c \in Channels, p \in Peers :
      /\ stage[c] = "accepted"
      /\ end[c][p] = "open" /\ end[c][Other(p)] \in {"new", "open"}
      => \/ Under(inbox, c, Other(p), "id")
         \/ table[Other(p)] = c
         \/ Under(inbox, c, p, "close")

\* The bootstrap connection is the entry of both peers, or nobody uses it.
BootstrapIsShared ==
  \/ \A p \in Peers : table[p] = Bootstrap
  \/ \A p \in Peers : table[p] # Bootstrap /\ \A m \in Messages : ~Under(inbox, Bootstrap, p, m)

IInv ==
  /\ TypeOK /\ NegotiatedFirst /\ OnlyTheClosingTell /\ ClosingIsTold
  /\ OpeningIsAnswered /\ BootstrapIsShared

Boxes == [Connections -> [Peers -> Seq(Messages)]]
Ends == [Channels -> [Peers -> {"new", "open", "closing", "closed"}]]

-----------------------------------------------------------------------------
LEMMA TwoPeers ==
  /\ \A p \in Peers : /\ Other(p) \in Peers /\ Other(p) # p /\ Other(Other(p)) = p
                      /\ \A q \in Peers : q = p \/ q = Other(p)
  /\ Peers # {}
  <1>1. IsFiniteSet(Peers) /\ Cardinality(Peers) = 2
    BY AttachAssumption
  <1>2. \E a, b \in Peers : a # b /\ Peers = {a, b}
    <2>1. Peers # {}
      BY <1>1, FS_EmptySet
    <2>2. PICK a \in Peers : TRUE
      BY <2>1
    <2>3. IsFiniteSet(Peers \ {a}) /\ Cardinality(Peers \ {a}) = 1
      BY <1>1, <2>2, FS_RemoveElement
    <2>4. \E b : Peers \ {a} = {b}
      BY <2>3, FS_Singleton
    <2> QED BY <2>2, <2>4
  <1>3. PICK a, b \in Peers : a # b /\ Peers = {a, b}
    BY <1>2
  <1>4. Other(a) = b /\ Other(b) = a
    BY <1>3 DEF Other
  <1> QED BY <1>3, <1>4

LEMMA ConnectionTypes ==
  /\ \A c \in Channels : c \in Connections /\ c # Bootstrap /\ c # NoChannel
  /\ Bootstrap \in Connections /\ Bootstrap # NoChannel /\ Bootstrap \notin Channels
  /\ \A c \in Connections : c \in Channels \/ c = Bootstrap
  /\ NoChannel \notin Connections /\ MaxLosses \in Nat /\ MaxTicks \in Nat
  BY AttachAssumption DEF Connections

\* Messages are appended to those under way.
Posted(box, c, q, msgs) == [box EXCEPT ![c][q] = @ \o msgs]

LEMMA Appended ==
  ASSUME NEW box \in Boxes, NEW c \in Connections, NEW q \in Peers,
         NEW msgs \in Seq(Messages), NEW after,
         after = Posted(box, c, q, msgs)
  PROVE  /\ after \in Boxes
         /\ \A d \in Connections, r \in Peers, m \in Messages :
              Under(after, d, r, m) <=>
                \/ Under(box, d, r, m)
                \/ d = c /\ r = q /\ \E i \in DOMAIN msgs : msgs[i] = m
  <1> DEFINE old == box[c][q]
             new == old \o msgs
  <1>1. old \in Seq(Messages)
    BY DEF Boxes
  <1>2. /\ new \in Seq(Messages) /\ Len(new) = Len(old) + Len(msgs)
        /\ \A i \in 1 .. Len(old) + Len(msgs) :
             new[i] = IF i <= Len(old) THEN old[i] ELSE msgs[i - Len(old)]
    <2> HIDE DEF old
    <2> QED BY <1>1, ConcatProperties
  <1>3. \A m : (\E i \in DOMAIN new : new[i] = m) <=>
                 (\E i \in DOMAIN old : old[i] = m) \/ (\E i \in DOMAIN msgs : msgs[i] = m)
    <2> HIDE DEF old, new
    <2>1. /\ Len(old) \in Nat /\ Len(msgs) \in Nat /\ DOMAIN old = 1 .. Len(old)
          /\ DOMAIN msgs = 1 .. Len(msgs) /\ DOMAIN new = 1 .. Len(old) + Len(msgs)
      BY <1>1, <1>2
    <2>2. \A i \in DOMAIN old : i \in DOMAIN new /\ new[i] = old[i]
      BY <1>2, <2>1
    <2>3. \A i \in DOMAIN msgs : i + Len(old) \in DOMAIN new /\ new[i + Len(old)] = msgs[i]
      BY <1>2, <2>1
    <2>4. \A i \in DOMAIN new : \/ i \in DOMAIN old /\ new[i] = old[i]
                                \/ i - Len(old) \in DOMAIN msgs /\ new[i] = msgs[i - Len(old)]
      BY <1>2, <2>1
    <2> QED BY <2>2, <2>3, <2>4
  <1> HIDE DEF new
  <1>4. after = [box EXCEPT ![c][q] = new]
    BY DEF new, old, Posted
  <1>5. after \in Boxes
    BY <1>2, <1>4 DEF Boxes
  <1>6. \A d \in Connections, r \in Peers :
          after[d][r] = IF d = c /\ r = q THEN new ELSE box[d][r]
    <2>1. \A d \in Connections : box[d] \in [Peers -> Seq(Messages)]
      BY DEF Boxes
    <2>2. after[c] = [box[c] EXCEPT ![q] = new] /\ \A d \in Connections \ {c} : after[d] = box[d]
      BY <1>4 DEF Boxes
    <2> QED BY <2>1, <2>2
  <1>7. ASSUME NEW d \in Connections, NEW r \in Peers, NEW m \in Messages
        PROVE  Under(after, d, r, m) <=>
                 \/ Under(box, d, r, m)
                 \/ d = c /\ r = q /\ \E i \in DOMAIN msgs : msgs[i] = m
    <2>1. CASE d = c /\ r = q
      <3>1. after[d][r] = new /\ box[d][r] = old
        BY <1>6, <2>1 DEF old
      <3>2. /\ Under(after, d, r, m) <=> \E i \in DOMAIN new : new[i] = m
            /\ Under(box, d, r, m) <=> \E i \in DOMAIN old : old[i] = m
        <4> HIDE DEF old
        <4> QED BY <3>1 DEF Under
      <3> HIDE DEF old
      <3> QED BY <1>3, <2>1, <3>2
    <2>2. CASE ~(d = c /\ r = q)
      BY <1>6, <2>2 DEF Under
    <2> QED BY <2>1, <2>2
  <1> QED BY <1>5, <1>7

LEMMA PutProperties ==
  ASSUME NEW box \in Boxes, NEW c \in Connections, NEW q \in Peers,
         NEW msgs \in Seq(Messages), NEW after, after = Put(box, c, q, msgs)
  PROVE  /\ after \in Boxes
         /\ \A d \in Connections, r \in Peers, m \in Messages :
              Under(after, d, r, m) <=>
                \/ Under(box, d, r, m)
                \/ /\ d = c /\ r = q /\ Reaches(c, q)
                   /\ \E i \in DOMAIN msgs : msgs[i] = m
  <1>1. CASE Reaches(c, q)
    <2>1. after = Posted(box, c, q, msgs)
      BY <1>1 DEF Put, Posted
    <2>2. /\ after \in Boxes
          /\ \A d \in Connections, r \in Peers, m \in Messages :
               Under(after, d, r, m) <=>
                 \/ Under(box, d, r, m)
                 \/ d = c /\ r = q /\ \E i \in DOMAIN msgs : msgs[i] = m
      BY <2>1, Appended
    <2> QED BY <1>1, <2>2
  <1>2. CASE ~Reaches(c, q)
    BY <1>2 DEF Put
  <1> QED BY <1>1, <1>2

\* The message that p takes is gone, the others stay.
LEMMA RestProperties ==
  ASSUME inbox \in Boxes, NEW p \in Peers, NEW c \in Connections, NEW m \in Messages,
         Takes(p, c, m), NEW after, after = Rest(p, c)
  PROVE  /\ after \in Boxes /\ Under(inbox, c, p, m)
         /\ \A d \in Connections, r \in Peers, n \in Messages :
              /\ Under(after, d, r, n) => Under(inbox, d, r, n)
              /\ Under(inbox, d, r, n) /\ (d # c \/ r # p \/ n # m) => Under(after, d, r, n)
  <1> DEFINE old == inbox[c][p]
             new == Tail(old)
  <1>1. old \in Seq(Messages) /\ old # <<>> /\ Head(old) = m
    BY DEF Boxes, Takes
  <1>2. /\ new \in Seq(Messages) /\ DOMAIN old = 1 .. Len(old) /\ Len(old) \in Nat
        /\ DOMAIN new = 1 .. Len(old) - 1 /\ Len(old) >= 1 /\ old[1] = m
        /\ \A i \in 1 .. Len(old) - 1 : new[i] = old[i + 1]
    <2> HIDE DEF old
    <2> QED BY <1>1
  <1>3. /\ \A i \in DOMAIN new : i + 1 \in DOMAIN old /\ new[i] = old[i + 1]
        /\ \A i \in DOMAIN old : i = 1 \/ (i - 1 \in DOMAIN new /\ new[i - 1] = old[i])
        /\ 1 \in DOMAIN old
    <2> HIDE DEF old, new
    <2> QED BY <1>2
  <1>4. /\ after = [inbox EXCEPT ![c][p] = new]
    BY DEF Rest
  <1> HIDE DEF new
  <1>5. after \in Boxes
    BY <1>2, <1>4 DEF Boxes
  <1>6. \A d \in Connections, r \in Peers :
          after[d][r] = IF d = c /\ r = p THEN new ELSE inbox[d][r]
    BY <1>4 DEF Boxes
  <1>7. Under(inbox, c, p, m)
    BY <1>2, <1>3 DEF Under
  <1>8. ASSUME NEW d \in Connections, NEW r \in Peers, NEW n \in Messages
        PROVE  /\ Under(after, d, r, n) => Under(inbox, d, r, n)
               /\ Under(inbox, d, r, n) /\ (d # c \/ r # p \/ n # m) => Under(after, d, r, n)
    <2>1. CASE d = c /\ r = p
      <3>1. after[d][r] = new /\ inbox[d][r] = old
        BY <1>6, <2>1
      <3> HIDE DEF old
      <3>2. /\ Under(after, d, r, n) <=> \E i \in DOMAIN new : new[i] = n
            /\ Under(inbox, d, r, n) <=> \E i \in DOMAIN old : old[i] = n
        BY <3>1 DEF Under
      <3>3. Under(after, d, r, n) => Under(inbox, d, r, n)
        BY <1>3, <3>2
      <3>4. ASSUME Under(inbox, d, r, n), n # m PROVE Under(after, d, r, n)
        <4>1. PICK i \in DOMAIN old : old[i] = n
          BY <3>2, <3>4
        <4>2. i # 1
          BY <1>2, <3>4, <4>1
        <4> QED BY <1>3, <3>2, <4>1, <4>2
      <3> QED BY <2>1, <3>3, <3>4
    <2>2. CASE ~(d = c /\ r = p)
      BY <1>6, <2>2 DEF Under
    <2> QED BY <2>1, <2>2
  <1> QED BY <1>5, <1>7, <1>8

\* What a peer answers is not about the channel it answers on.
Answers == Messages \ {"id", "close", "end"}

\* From box, p has sent at most some answers, all on its entry.
Answered(box, after, p, entry) ==
  /\ after \in Boxes
  /\ \A d \in Connections, r \in Peers, m \in Messages :
       /\ Under(box, d, r, m) => Under(after, d, r, m)
       /\ Under(after, d, r, m) => Under(box, d, r, m) \/ (d = entry /\ m \in Answers)

LEMMA ReplyProperties ==
  ASSUME NEW box \in Boxes, NEW p \in Peers, NEW entry \in Connections,
         NEW msgs \in Seq(Answers), down \subseteq Peers, Reply(p, entry, box, msgs)
  PROVE  /\ Answered(box, inbox', p, entry)
         /\ down' \subseteq Peers /\ down \subseteq down'
  <1>1. CASE inbox' = Put(box, entry, Other(p), msgs) /\ UNCHANGED down
    <2>1. msgs \in Seq(Messages) /\ \A i \in DOMAIN msgs : msgs[i] \in Answers
      BY DEF Answers
    <2>2. Other(p) \in Peers
      BY TwoPeers
    <2> DEFINE after == Put(box, entry, Other(p), msgs)
    <2>3. /\ after \in Boxes
          /\ \A d \in Connections, r \in Peers, m \in Messages :
               Under(after, d, r, m) <=>
                 \/ Under(box, d, r, m)
                 \/ /\ d = entry /\ r = Other(p) /\ Reaches(entry, Other(p))
                    /\ \E i \in DOMAIN msgs : msgs[i] = m
      BY <2>1, <2>2, PutProperties
    <2> HIDE DEF after
    <2>4. Answered(box, after, p, entry)
      BY <2>1, <2>3 DEF Answered
    <2> QED BY <1>1, <2>4 DEF after
  <1>2. CASE inbox' = box /\ down' = down \cup {p}
    BY <1>2 DEF Answered
  <1> QED BY <1>1, <1>2 DEF Reply

-----------------------------------------------------------------------------
(* The actions, each of which keeps the invariant.                         *)

\* The types, taken apart.
LEMMA Types ==
  ASSUME IInv
  PROVE  /\ stage \in [Channels -> Stages] /\ offerer \in [Channels -> Peers]
         /\ end \in Ends /\ inbox \in Boxes
         /\ table \in [Peers -> Connections \cup {NoChannel}]
         /\ owes \subseteq Peers /\ down \subseteq Peers
         /\ AP \subseteq Peers /\ joined \subseteq Peers /\ topologyJoined \subseteq Peers
         /\ losses \in 0 .. MaxLosses /\ ticks \in 0 .. MaxTicks
         /\ \A p \in Peers \ down :
              table[p] \in Channels => end[table[p]][p] \in {"open", "closing"}
  BY DEF IInv, TypeOK, Ends, Boxes

LEMMA Negotiation ==
  ASSUME IInv, NEW c \in Channels, NEW from, NEW to \in Stages, Negotiate(c, from, to),
         from \notin {"accepted", "failed"} \/ to = "failed",
         owes' \subseteq Peers, losses' \in 0 .. MaxLosses
  PROVE  IInv'
  <1>1. /\ stage[c] = from /\ stage' = [stage EXCEPT ![c] = to]
        /\ UNCHANGED <<offerer, end, inbox, table, AP, joined, topologyJoined, down, ticks>>
    BY DEF Negotiate, membership
  <1>2. stage' \in [Channels -> Stages] /\ stage'[c] = to
        /\ \A d \in Channels \ {c} : stage'[d] = stage[d]
    BY <1>1, Types
  <1>3. TypeOK'
    BY <1>1, <1>2, Types DEF TypeOK, Ends, Boxes
  <1>4. NegotiatedFirst'
    BY <1>1, <1>2 DEF IInv, NegotiatedFirst
  <1>5. OnlyTheClosingTell' /\ BootstrapIsShared'
    BY <1>1 DEF IInv, OnlyTheClosingTell, BootstrapIsShared, Under
  <1>6. \A d \in Channels : stage'[d] = "accepted" =>
          stage[d] = "accepted" \/ \A p \in Peers : end[d][p] = "new"
    BY <1>1, <1>2 DEF IInv, NegotiatedFirst
  <1>7. \A p \in Peers : Other(p) \in Peers
    BY TwoPeers
  <1>8. ClosingIsTold'
    BY <1>1, <1>6, <1>7 DEF IInv, ClosingIsTold, Under
  <1>9. OpeningIsAnswered'
    BY <1>1, <1>6, <1>7 DEF IInv, OpeningIsAnswered, Under
  <1> QED BY <1>3, <1>4, <1>5, <1>8, <1>9 DEF IInv

LEMMA AttachToKeeps ==
  ASSUME IInv, NEW c \in Channels,
         \/ AttachTo(c) \/ CandidatesGathered(c) \/ HandleAttachRequest(c)
         \/ AnswerComputed(c) \/ ProcessAttachAnswer(c) \/ LoseSignal(c) \/ Fail(c)
  PROVE  IInv'
  <1>1. PICK from, to \in Stages :
          Negotiate(c, from, to) /\ (from \notin {"accepted", "failed"} \/ to = "failed")
    BY DEF AttachTo, CandidatesGathered, HandleAttachRequest, AnswerComputed,
           ProcessAttachAnswer, LoseSignal, Fail, Stages
  <1>2. offerer[c] \in Peers /\ Other(offerer[c]) \in Peers
    BY Types, TwoPeers
  <1>3. owes' \subseteq Peers
    BY <1>2, Types DEF AttachTo, CandidatesGathered, HandleAttachRequest, AnswerComputed,
                       ProcessAttachAnswer, LoseSignal, Fail
  <1>4. losses' \in 0 .. MaxLosses
    <2>1. losses \in 0 .. MaxLosses /\ MaxLosses \in Nat
      BY Types, ConnectionTypes
    <2>2. losses' = losses \/ (losses < MaxLosses /\ losses' = losses + 1)
      BY DEF AttachTo, CandidatesGathered, HandleAttachRequest, AnswerComputed,
             ProcessAttachAnswer, LoseSignal, Fail
    <2> QED BY <2>1, <2>2
  <1> QED BY <1>1, <1>3, <1>4, Negotiation

\* A peer takes an answer from a connection, or nothing, registers it unless
\* it has another one, and answers on its entry.
LEMMA Answering ==
  ASSUME IInv, NEW p \in Peers, NEW entry \in Connections, NEW box \in Boxes,
         \A d \in Connections, r \in Peers, m \in Messages :
           /\ Under(box, d, r, m) => Under(inbox, d, r, m)
           /\ Under(inbox, d, r, m) /\ m \notin Answers => Under(box, d, r, m),
         Answered(box, inbox', p, entry), table' = [table EXCEPT ![p] = entry],
         \/ table[p] = entry
         \/ /\ table[p] = NoChannel
            /\ entry \in Channels => end[entry][p] = "open"
            /\ entry = Bootstrap => \E m \in Messages : Under(inbox, Bootstrap, p, m),
         UNCHANGED <<stage, offerer, end, losses>>, ticks' \in 0 .. MaxTicks,
         down \subseteq down', down' \subseteq Peers, owes' \subseteq Peers,
         AP' \subseteq Peers, joined' \subseteq Peers, topologyJoined' \subseteq Peers
  PROVE  IInv'
  <1>1. /\ \A r \in Peers : table'[r] = IF r = p THEN entry ELSE table[r]
        /\ table' \in [Peers -> Connections \cup {NoChannel}]
    BY Types
  <1>2. inbox' \in Boxes
    BY DEF Answered
  <1>3. TypeOK'
    <2>1. \A r \in Peers \ down' :
            table'[r] \in Channels => end[table'[r]][r] \in {"open", "closing"}
      BY <1>1, Types
    <2> QED BY <1>1, <1>2, <2>1, Types DEF TypeOK, Ends, Boxes
  <1>4. \A d \in Channels, r \in Peers, m \in {"id", "close", "end"} :
          Under(inbox', d, r, m) <=> Under(inbox, d, r, m)
    <2>1. \A m \in {"id", "close", "end"} : m \in Messages /\ m \notin Answers
      BY DEF Messages, Answers
    <2>2. \A d \in Channels : d \in Connections
      BY ConnectionTypes
    <2> QED BY <2>1, <2>2 DEF Answered
  <1>5. \A r \in Peers : Other(r) \in Peers
    BY TwoPeers
  <1>6. NegotiatedFirst'
    BY DEF IInv, NegotiatedFirst
  <1>7. OnlyTheClosingTell'
    BY <1>4 DEF IInv, OnlyTheClosingTell
  <1>8. ClosingIsTold'
    BY <1>4 DEF IInv, ClosingIsTold
  <1>9. OpeningIsAnswered'
    <2>1. \A d \in Channels, r \in Peers : table[r] = d => table'[r] = d
      BY <1>1, ConnectionTypes
    <2>2. down' = {} => down = {}
      OBVIOUS
    <2> QED BY <1>4, <1>5, <2>1, <2>2 DEF IInv, OpeningIsAnswered
  <1>10. BootstrapIsShared'
    <2>1. CASE \A r \in Peers : table[r] = Bootstrap
      <3>1. entry = Bootstrap
        BY <2>1, ConnectionTypes
      <3> QED BY <1>1, <2>1, <3>1 DEF BootstrapIsShared
    <2>2. CASE \A r \in Peers : /\ table[r] # Bootstrap
                                /\ \A m \in Messages : ~Under(inbox, Bootstrap, r, m)
      <3>1. entry # Bootstrap
        BY <2>2
      <3>2. \A r \in Peers, m \in Messages : ~Under(inbox', Bootstrap, r, m)
        BY <2>2, <3>1, ConnectionTypes DEF Answered
      <3> QED BY <1>1, <2>2, <3>1, <3>2 DEF BootstrapIsShared
    <2> QED BY <2>1, <2>2 DEF IInv, BootstrapIsShared
  <1> QED BY <1>3, <1>6, <1>7, <1>8, <1>9, <1>10 DEF IInv

LEMMA MessageKeeps ==
  ASSUME IInv, NEW p \in Peers, NEW c \in Connections, Message(p, c)
  PROVE  IInv'
  <1> DEFINE box == Rest(p, c)
             entry == Registered(p, c)
  <1>1. PICK m \in Answers : Handles(p, c, m)
    BY DEF Message, ReceiveJoinRequest, ReceiveJoinAnswer, ReceiveUpdate, ReceiveUpdateRequest,
           Answers, Messages
  <1>2. m \in Messages /\ Takes(p, c, m) /\ table' = [table EXCEPT ![p] = entry]
    BY <1>1 DEF Handles, Answers
  <1>3. /\ box \in Boxes /\ Under(inbox, c, p, m)
        /\ \A d \in Connections, r \in Peers, n \in Messages :
             /\ Under(box, d, r, n) => Under(inbox, d, r, n)
             /\ Under(inbox, d, r, n) /\ n \notin Answers => Under(box, d, r, n)
    BY <1>1, <1>2, Types, RestProperties
  <1>4. /\ entry \in Connections
        /\ \/ table[p] = entry
           \/ /\ table[p] = NoChannel
              /\ entry \in Channels => end[entry][p] = "open"
              /\ entry = Bootstrap => \E n \in Messages : Under(inbox, Bootstrap, p, n)
    <2>1. CASE table[p] = NoChannel
      BY <1>2, <1>3, <2>1 DEF Registered, Takes
    <2>2. CASE table[p] # NoChannel
      BY <2>2, Types DEF Registered
    <2> QED BY <2>1, <2>2
  <1>5. /\ UNCHANGED <<stage, offerer, end, losses>> /\ ticks' \in 0 .. MaxTicks
        /\ owes' \subseteq Peers
        /\ AP' \subseteq Peers /\ joined' \subseteq Peers /\ topologyJoined' \subseteq Peers
    BY Types DEF Message, ReceiveJoinRequest, ReceiveJoinAnswer, ReceiveUpdate,
                 ReceiveUpdateRequest, Keeps, membership
  <1> HIDE DEF entry
  <1>6. /\ Answered(box, inbox', p, entry)
        /\ down' \subseteq Peers /\ down \subseteq down'
    <2>1. ASSUME inbox' = box, UNCHANGED down
          PROVE  /\ Answered(box, inbox', p, entry)
                 /\ down' \subseteq Peers /\ down \subseteq down'
      <3> HIDE DEF box
      <3> QED BY <1>3, <2>1, Types DEF Answered
    <2>2. ASSUME NEW msgs \in Seq(Answers), Reply(p, entry, box, msgs)
          PROVE  /\ Answered(box, inbox', p, entry)
                 /\ down' \subseteq Peers /\ down \subseteq down'
      <3> HIDE DEF box
      <3> QED BY <1>3, <1>4, <2>2, Types, ReplyProperties
    <2>3. /\ <<"joinAnswer", "update">> \in Seq(Answers) /\ <<"joinAnswer">> \in Seq(Answers)
          /\ <<"update">> \in Seq(Answers)
      <3>1. "joinAnswer" \in Answers /\ "update" \in Answers
        BY DEF Answers, Messages
      <3> HIDE DEF Answers
      <3> QED BY <3>1
    <2>4. CASE ReceiveJoinRequest(p, c)
      <3>1. Reply(p, entry, box, IF p \in owes THEN <<"joinAnswer", "update">>
                                               ELSE <<"joinAnswer">>)
        BY <2>4 DEF ReceiveJoinRequest, entry
      <3> HIDE DEF box
      <3> QED BY <2>2, <2>3, <3>1
    <2>5. CASE ReceiveUpdateRequest(p, c)
      <3>1. Reply(p, entry, box, <<"update">>)
        BY <2>5 DEF ReceiveUpdateRequest, entry
      <3> HIDE DEF box
      <3> QED BY <2>2, <2>3, <3>1
    <2>6. CASE ReceiveJoinAnswer(p, c) \/ ReceiveUpdate(p, c)
      BY <2>1, <2>6 DEF ReceiveJoinAnswer, ReceiveUpdate
    <2> QED BY <2>4, <2>5, <2>6 DEF Message
  <1>7. table' = [table EXCEPT ![p] = entry]
    BY <1>2 DEF entry
  <1> HIDE DEF box
  <1> QED BY <1>3, <1>4, <1>5, <1>6, <1>7, Answering

LEMMA UpdateTickKeeps ==
  ASSUME IInv, NEW p \in Peers, UpdateTick(p)
  PROVE  IInv'
  <1>1. /\ table[p] # NoChannel /\ ticks < MaxTicks /\ ticks' = ticks + 1
        /\ Reply(p, table[p], inbox, <<"updateRequest">>)
        /\ UNCHANGED <<stage, offerer, end, table, owes, AP, joined, topologyJoined, losses>>
    BY DEF UpdateTick, membership
  <1>2. table[p] \in Connections /\ ticks' \in 0 .. MaxTicks
    BY <1>1, Types, ConnectionTypes
  <1>3. <<"updateRequest">> \in Seq(Answers)
    <2>1. "updateRequest" \in Answers
      BY DEF Answers, Messages
    <2> HIDE DEF Answers
    <2> QED BY <2>1
  <1>4. /\ Answered(inbox, inbox', p, table[p])
        /\ down' \subseteq Peers /\ down \subseteq down'
    BY <1>1, <1>2, <1>3, Types, ReplyProperties
  <1>5. table' = [table EXCEPT ![p] = table[p]]
    BY <1>1, Types
  <1> QED BY <1>1, <1>2, <1>4, <1>5, Types, Answering

LEMMA OpenKeeps ==
  ASSUME IInv, NEW p \in Peers, NEW c \in Channels, Open(p, c)
  PROVE  IInv'
  <1> DEFINE q == Other(p)
  <1>1. /\ stage[c] = "accepted" /\ end[c][p] = "new" /\ p \notin down
        /\ end' = [end EXCEPT ![c][p] = "open"]
        /\ inbox' = Put(inbox, c, q, <<"id">>)
        /\ UNCHANGED <<table, owes, AP, joined, topologyJoined, down, stage, offerer,
                     losses, ticks>>
    BY DEF Open, Keeps, Running, membership
  <1>2. q \in Peers /\ q # p /\ (\A r \in Peers : r = p \/ r = q) /\ Other(q) = p
    BY TwoPeers
  <1> HIDE DEF q
  <1>3. /\ inbox' \in Boxes
        /\ \A d \in Connections, r \in Peers, m \in Messages :
             Under(inbox', d, r, m) <=>
               Under(inbox, d, r, m) \/ (d = c /\ r = q /\ Reaches(c, q) /\ m = "id")
    <2>1. <<"id">> \in Seq(Messages)
      <3>1. "id" \in Messages
        BY DEF Messages
      <3> HIDE DEF Messages
      <3> QED BY <3>1
    <2>2. \A m : (\E i \in DOMAIN <<"id">> : <<"id">>[i] = m) <=> m = "id"
      OBVIOUS
    <2> DEFINE msgs == <<"id">>
    <2> HIDE DEF msgs
    <2>3. c \in Connections
      BY ConnectionTypes
    <2>4. inbox' = Put(inbox, c, q, msgs)
      BY <1>1 DEF msgs
    <2>5. /\ inbox' \in Boxes
          /\ \A d \in Connections, r \in Peers, m \in Messages :
              Under(inbox', d, r, m) <=>
                \/ Under(inbox, d, r, m)
                \/ /\ d = c /\ r = q /\ Reaches(c, q)
                   /\ \E i \in DOMAIN msgs : msgs[i] = m
      <3>1. msgs \in Seq(Messages) /\ inbox \in Boxes
        BY <2>1, Types DEF msgs
      <3> QED BY <1>2, <2>3, <2>4, <3>1, PutProperties
    <2> QED BY <2>2, <2>5 DEF msgs
  <1>4. /\ end' \in Ends
        /\ \A d \in Channels, r \in Peers :
             end'[d][r] = IF d = c /\ r = p THEN "open" ELSE end[d][r]
    <2>1. end \in Ends
      BY Types
    <2> QED BY <1>1, <2>1 DEF Ends
  <1>5. TypeOK'
    <2>1. \A r \in Peers \ down :
            table[r] \in Channels => end'[table[r]][r] \in {"open", "closing"}
      BY <1>4, Types
    <2> QED BY <1>1, <1>3, <1>4, <2>1, Types DEF TypeOK, Ends, Boxes
  <1>6. /\ \A d \in Channels : d \in Connections /\ d # Bootstrap
        /\ \A r \in Peers : Other(r) \in Peers
        /\ \A m \in {"id", "close", "end"} : m \in Messages
        /\ Bootstrap \in Connections
    BY ConnectionTypes, TwoPeers DEF Messages
  <1>7. NegotiatedFirst'
    BY <1>1, <1>4 DEF IInv, NegotiatedFirst
  <1>8. OnlyTheClosingTell'
    <2> SUFFICES ASSUME NEW d \in Channels, NEW r \in Peers, Under(inbox', d, r, "end")
                 PROVE  end'[d][Other(r)] \in {"closing", "closed"}
      BY DEF OnlyTheClosingTell
    <2>1. Under(inbox, d, r, "end")
      BY <1>3, <1>6
    <2>2. end[d][Other(r)] \in {"closing", "closed"}
      BY <2>1 DEF IInv, OnlyTheClosingTell
    <2> QED BY <1>1, <1>4, <1>6, <2>2
  <1>9. ClosingIsTold'
    <2> SUFFICES ASSUME down = {}, NEW d \in Channels, NEW r \in Peers, stage[d] = "accepted",
                        end'[d][r] \in {"new", "open"},
                        end'[d][Other(r)] \in {"closing", "closed"}
                 PROVE  Under(inbox', d, r, "end")
      BY <1>1 DEF ClosingIsTold
    <2>1. end[d][r] \in {"new", "open"} /\ end[d][Other(r)] \in {"closing", "closed"}
      BY <1>1, <1>4, <1>6
    <2>2. Under(inbox, d, r, "end")
      BY <2>1 DEF IInv, ClosingIsTold
    <2> QED BY <1>3, <1>6, <2>2
  <1>10. OpeningIsAnswered'
    <2> SUFFICES ASSUME down = {}, NEW d \in Channels, NEW r \in Peers, stage[d] = "accepted",
                        end'[d][r] = "open", end'[d][Other(r)] \in {"new", "open"}
                 PROVE  \/ Under(inbox', d, Other(r), "id")
                        \/ table[Other(r)] = d
                        \/ Under(inbox', d, r, "close")
      BY <1>1 DEF OpeningIsAnswered
    <2>1. CASE d = c /\ r = p
      <3>1. Reaches(c, q)
        BY <1>1, <1>2, <1>4, <2>1 DEF Reaches, q
      <3> QED BY <1>2, <1>3, <1>6, <2>1, <3>1 DEF q
    <2>2. CASE ~(d = c /\ r = p)
      <3>1. end[d][r] = "open" /\ end[d][Other(r)] \in {"new", "open"}
        BY <1>1, <1>4, <1>6, <2>2
      <3> QED BY <1>3, <1>6, <3>1 DEF IInv, OpeningIsAnswered
    <2> QED BY <2>1, <2>2
  <1>11. BootstrapIsShared'
    BY <1>1, <1>3, <1>6 DEF IInv, BootstrapIsShared
  <1> QED BY <1>5, <1>7, <1>8, <1>9, <1>10, <1>11 DEF IInv

\* One message that is put.
LEMMA PutOne ==
  ASSUME NEW box \in Boxes, NEW c \in Connections, NEW q \in Peers, NEW m \in Messages,
         NEW after, after = Put(box, c, q, <<m>>)
  PROVE  /\ after \in Boxes
         /\ \A d \in Connections, r \in Peers, n \in Messages :
              Under(after, d, r, n) <=>
                Under(box, d, r, n) \/ (d = c /\ r = q /\ Reaches(c, q) /\ n = m)
  <1> DEFINE msgs == <<m>>
  <1>1. msgs \in Seq(Messages)
    OBVIOUS
  <1>2. \A n : (\E i \in DOMAIN msgs : msgs[i] = n) <=> n = m
    OBVIOUS
  <1>3. after = Put(box, c, q, msgs)
    OBVIOUS
  <1> HIDE DEF msgs
  <1>4. after \in Boxes
    BY <1>1, <1>3, PutProperties
  <1>5. ASSUME NEW d \in Connections, NEW r \in Peers, NEW n \in Messages
        PROVE  Under(after, d, r, n) <=>
                 Under(box, d, r, n) \/ (d = c /\ r = q /\ Reaches(c, q) /\ n = m)
    <2>1. Under(after, d, r, n) <=>
            \/ Under(box, d, r, n)
            \/ /\ d = c /\ r = q /\ Reaches(c, q)
               /\ \E i \in DOMAIN msgs : msgs[i] = n
      BY <1>1, <1>3, PutProperties
    <2> QED BY <1>2, <2>1
  <1> QED BY <1>4, <1>5

LEMMA Words == {"id", "close", "end", "join"} \subseteq Messages /\ "join" \in Answers
  BY DEF Messages, Answers

LEMMA ReceiveCloseKeeps ==
  ASSUME IInv, NEW p \in Peers, NEW c \in Channels, ReceiveClose(p, c)
  PROVE  IInv'
  <1> DEFINE q == Other(p)
             box == Rest(p, c)
  <1>1. /\ Takes(p, c, "close")
        /\ end' = [end EXCEPT ![c][p] = "closing"]
        /\ inbox' = Put(box, c, q, <<"end">>)
        /\ UNCHANGED <<table, owes, AP, joined, topologyJoined, down, stage, offerer,
                     losses, ticks>>
    BY DEF ReceiveClose, Keeps, membership
  <1>2. q \in Peers /\ q # p /\ (\A r \in Peers : r = p \/ r = q) /\ Other(q) = p
        /\ \A r \in Peers : Other(r) \in Peers
    BY TwoPeers
  <1>3. /\ c \in Connections /\ c # Bootstrap /\ Bootstrap \in Connections
        /\ \A d \in Channels : d \in Connections /\ d # Bootstrap
    BY ConnectionTypes
  <1>4. end[c][p] = "open" /\ end \in Ends
    BY <1>1, Types DEF Takes
  <1>5. /\ box \in Boxes
        /\ \A d \in Connections, r \in Peers, n \in Messages :
             /\ Under(box, d, r, n) => Under(inbox, d, r, n)
             /\ Under(inbox, d, r, n) /\ n # "close" => Under(box, d, r, n)
             /\ Under(inbox, d, r, n) /\ d # c => Under(box, d, r, n)
    BY <1>1, <1>3, Types, Words, RestProperties
  <1> HIDE DEF q, box
  <1>6. /\ inbox' \in Boxes
        /\ \A d \in Connections, r \in Peers, n \in Messages :
             Under(inbox', d, r, n) <=>
               Under(box, d, r, n) \/ (d = c /\ r = q /\ Reaches(c, q) /\ n = "end")
    BY <1>1, <1>2, <1>3, <1>5, Words, PutOne
  <1>7. /\ end' \in Ends
        /\ \A d \in Channels, r \in Peers :
             end'[d][r] = IF d = c /\ r = p THEN "closing" ELSE end[d][r]
    BY <1>1, <1>4 DEF Ends
  <1>8. TypeOK'
    <2>1. \A r \in Peers \ down :
            table[r] \in Channels => end'[table[r]][r] \in {"open", "closing"}
      BY <1>7, Types
    <2> QED BY <1>1, <1>6, <1>7, <2>1, Types DEF TypeOK, Ends, Boxes
  <1>9. NegotiatedFirst'
    BY <1>1, <1>4, <1>7 DEF IInv, NegotiatedFirst
  <1>10. OnlyTheClosingTell'
    <2> SUFFICES ASSUME NEW d \in Channels, NEW r \in Peers, Under(inbox', d, r, "end")
                 PROVE  end'[d][Other(r)] \in {"closing", "closed"}
      BY DEF OnlyTheClosingTell
    <2>1. CASE d = c /\ r = q
      BY <1>2, <1>7, <2>1
    <2>2. CASE ~(d = c /\ r = q)
      <3>1. Under(inbox, d, r, "end")
        BY <1>3, <1>5, <1>6, <2>2, Words
      <3>2. end[d][Other(r)] \in {"closing", "closed"}
        BY <3>1 DEF IInv, OnlyTheClosingTell
      <3> QED BY <1>2, <1>4, <1>7, <3>2
    <2> QED BY <2>1, <2>2
  <1>11. ClosingIsTold'
    <2> SUFFICES ASSUME down = {}, NEW d \in Channels, NEW r \in Peers, stage[d] = "accepted",
                        end'[d][r] \in {"new", "open"},
                        end'[d][Other(r)] \in {"closing", "closed"}
                 PROVE  Under(inbox', d, r, "end")
      BY <1>1 DEF ClosingIsTold
    <2>1. ~(d = c /\ r = p)
      BY <1>7
    <2>2. end[d][r] \in {"new", "open"}
      BY <1>7, <2>1
    <2>3. CASE d = c /\ r = q
      BY <1>2, <1>3, <1>6, <2>2, <2>3, Words DEF Reaches
    <2>4. CASE ~(d = c /\ r = q)
      <3>1. end[d][Other(r)] \in {"closing", "closed"}
        BY <1>2, <1>7, <2>1, <2>4
      <3>2. Under(inbox, d, r, "end")
        BY <2>2, <3>1 DEF IInv, ClosingIsTold
      <3> QED BY <1>3, <1>5, <1>6, <3>2, Words
    <2> QED BY <2>3, <2>4
  <1>12. OpeningIsAnswered'
    <2> SUFFICES ASSUME down = {}, NEW d \in Channels, NEW r \in Peers, stage[d] = "accepted",
                        end'[d][r] = "open", end'[d][Other(r)] \in {"new", "open"}
                 PROVE  \/ Under(inbox', d, Other(r), "id")
                        \/ table[Other(r)] = d
                        \/ Under(inbox', d, r, "close")
      BY <1>1 DEF OpeningIsAnswered
    <2>1. d # c
      BY <1>2, <1>7
    <2>2. end[d][r] = "open" /\ end[d][Other(r)] \in {"new", "open"}
      BY <1>2, <1>7, <2>1
    <2> QED BY <1>2, <1>3, <1>5, <1>6, <2>1, <2>2, Words DEF IInv, OpeningIsAnswered
  <1>13. BootstrapIsShared'
    BY <1>1, <1>3, <1>5, <1>6 DEF IInv, BootstrapIsShared
  <1> QED BY <1>8, <1>9, <1>10, <1>11, <1>12, <1>13 DEF IInv

LEMMA CloseEventKeeps ==
  ASSUME IInv, NEW p \in Peers, NEW c \in Channels, CloseEvent(p, c)
  PROVE  IInv'
  <1>1. /\ Running(p) /\ Ended(p, c)
        /\ end' = [end EXCEPT ![c][p] = "closed"]
        /\ inbox' = [inbox EXCEPT ![c][p] = <<>>]
        /\ table' = [table EXCEPT ![p] = IF table[p] = c THEN NoChannel ELSE table[p]]
        /\ UNCHANGED <<owes, AP, joined, topologyJoined, down, stage, offerer, losses, ticks>>
    BY DEF CloseEvent, Keeps, membership
  <1>2. \A r \in Peers : Other(r) \in Peers /\ Other(r) # r /\ Other(Other(r)) = r
    BY TwoPeers
  <1>3. /\ c \in Connections /\ c # Bootstrap /\ Bootstrap \in Connections
        /\ \A d \in Channels : d \in Connections /\ d # Bootstrap /\ d # NoChannel
        /\ NoChannel # Bootstrap
    BY ConnectionTypes
  <1>4. end[c][p] \in {"open", "closing"} /\ end \in Ends /\ inbox \in Boxes
    BY <1>1, Types DEF Ended
  <1>5. /\ inbox' \in Boxes
        /\ \A d \in Connections, r \in Peers :
             inbox'[d][r] = IF d = c /\ r = p THEN <<>> ELSE inbox[d][r]
    <2> DEFINE none == <<>>
    <2>1. none \in Seq(Messages) /\ inbox' = [inbox EXCEPT ![c][p] = none]
      BY <1>1
    <2> HIDE DEF none
    <2>2. /\ inbox' \in Boxes
          /\ \A d \in Connections, r \in Peers :
               inbox'[d][r] = IF d = c /\ r = p THEN none ELSE inbox[d][r]
      BY <1>3, <1>4, <2>1 DEF Boxes
    <2> QED BY <2>2 DEF none
  <1>6. \A d \in Connections, r \in Peers, n \in Messages :
          Under(inbox', d, r, n) <=> Under(inbox, d, r, n) /\ ~(d = c /\ r = p)
    BY <1>5 DEF Under
  <1>7. /\ end' \in Ends
        /\ \A d \in Channels, r \in Peers :
             end'[d][r] = IF d = c /\ r = p THEN "closed" ELSE end[d][r]
    BY <1>1, <1>4 DEF Ends
  <1>8. /\ table' \in [Peers -> Connections \cup {NoChannel}]
        /\ \A r \in Peers : table'[r] = IF r = p /\ table[r] = c THEN NoChannel ELSE table[r]
    BY <1>1, Types
  <1>9. TypeOK'
    <2>1. \A r \in Peers \ down :
            table'[r] \in Channels => end'[table'[r]][r] \in {"open", "closing"}
      BY <1>3, <1>7, <1>8, Types
    <2> QED BY <1>1, <1>5, <1>7, <1>8, <2>1, Types DEF TypeOK, Ends, Boxes
  <1>10. NegotiatedFirst'
    BY <1>1, <1>4, <1>7 DEF IInv, NegotiatedFirst
  <1>11. OnlyTheClosingTell'
    <2> SUFFICES ASSUME NEW d \in Channels, NEW r \in Peers, Under(inbox', d, r, "end")
                 PROVE  end'[d][Other(r)] \in {"closing", "closed"}
      BY DEF OnlyTheClosingTell
    <2>1. end[d][Other(r)] \in {"closing", "closed"}
      BY <1>3, <1>6, Words DEF IInv, OnlyTheClosingTell
    <2> QED BY <1>2, <1>7, <2>1
  <1>12. ClosingIsTold'
    <2> SUFFICES ASSUME down = {}, NEW d \in Channels, NEW r \in Peers, stage[d] = "accepted",
                        end'[d][r] \in {"new", "open"},
                        end'[d][Other(r)] \in {"closing", "closed"}
                 PROVE  Under(inbox', d, r, "end")
      BY <1>1 DEF ClosingIsTold
    <2>1. ~(d = c /\ r = p) /\ end[d][r] \in {"new", "open"}
      BY <1>7
    <2>2. end[d][Other(r)] \in {"closing", "closed"}
      <3>1. CASE d = c /\ Other(r) = p
        <4>1. ~Under(inbox, c, p, "end")
          BY <1>2, <2>1, <3>1, Words DEF IInv, OnlyTheClosingTell
        <4>2. inbox[c][p] # <<>> => Under(inbox, c, p, Head(inbox[c][p]))
          <5>1. inbox[c][p] \in Seq(Messages)
            BY <1>3, <1>4 DEF Boxes
          <5>2. inbox[c][p] # <<>> => /\ 1 \in DOMAIN inbox[c][p]
                                      /\ inbox[c][p][1] = Head(inbox[c][p])
            BY <5>1
          <5> QED BY <5>2 DEF Under
        <4>3. ~(inbox[c][p] # <<>> /\ Head(inbox[c][p]) = "end")
          BY <4>1, <4>2
        <4>4. stage[c] # "failed" /\ Other(p) \notin down
          BY <3>1
        <4> QED BY <1>1, <3>1, <4>3, <4>4 DEF Ended
      <3>2. CASE ~(d = c /\ Other(r) = p)
        BY <1>2, <1>7, <3>2
      <3> QED BY <3>1, <3>2
    <2>3. Under(inbox, d, r, "end")
      BY <2>1, <2>2 DEF IInv, ClosingIsTold
    <2> QED BY <1>3, <1>6, <2>1, <2>3, Words
  <1>13. OpeningIsAnswered'
    <2> SUFFICES ASSUME down = {}, NEW d \in Channels, NEW r \in Peers, stage[d] = "accepted",
                        end'[d][r] = "open", end'[d][Other(r)] \in {"new", "open"}
                 PROVE  \/ Under(inbox', d, Other(r), "id")
                        \/ table'[Other(r)] = d
                        \/ Under(inbox', d, r, "close")
      BY <1>1 DEF OpeningIsAnswered
    <2>1. ~(d = c /\ r = p) /\ ~(d = c /\ Other(r) = p)
      BY <1>2, <1>7
    <2>2. end[d][r] = "open" /\ end[d][Other(r)] \in {"new", "open"}
      BY <1>2, <1>7, <2>1
    <2>3. table[Other(r)] = d => table'[Other(r)] = d
      BY <1>2, <1>8, <2>1
    <2> QED BY <1>2, <1>3, <1>6, <2>1, <2>2, <2>3, Words DEF IInv, OpeningIsAnswered
  <1>14. BootstrapIsShared'
    BY <1>3, <1>6, <1>8 DEF IInv, BootstrapIsShared
  <1> QED BY <1>9, <1>10, <1>11, <1>12, <1>13, <1>14 DEF IInv

LEMMA ReceiveIdentityKeeps ==
  ASSUME IInv, NEW p \in Peers, NEW c \in Channels, ReceiveIdentity(p, c)
  PROVE  IInv'
  <1> DEFINE q == Other(p)
             box == Rest(p, c)
             entry == Registered(p, c)
             told == IF table[p] = NoChannel THEN box ELSE Put(box, c, q, <<"close">>)
             msgs == IF p \in joined THEN <<>> ELSE <<"join">>
  <1>1. /\ Takes(p, c, "id") /\ table' = [table EXCEPT ![p] = entry]
        /\ Reply(p, entry, told, msgs)
        /\ UNCHANGED <<end, owes, joined, topologyJoined, stage, offerer, losses, ticks>>
        /\ RemembersAP(p)
    BY DEF ReceiveIdentity, Keeps
  <1>2. q \in Peers /\ q # p /\ (\A r \in Peers : r = p \/ r = q) /\ Other(q) = p
        /\ \A r \in Peers : Other(r) \in Peers
    BY TwoPeers
  <1>3. /\ c \in Connections /\ c # Bootstrap /\ c # NoChannel /\ Bootstrap \in Connections
        /\ \A d \in Channels : d \in Connections /\ d # Bootstrap /\ d # NoChannel
    BY ConnectionTypes
  <1>4. end[c][p] = "open"
    BY <1>1 DEF Takes
  <1>5. /\ entry \in Connections /\ entry = IF table[p] = NoChannel THEN c ELSE table[p]
    BY <1>3, Types DEF Registered
  <1>6. /\ box \in Boxes
        /\ \A d \in Connections, r \in Peers, n \in Messages :
             /\ Under(box, d, r, n) => Under(inbox, d, r, n)
             /\ Under(inbox, d, r, n) /\ (d # c \/ r # p \/ n # "id") => Under(box, d, r, n)
    BY <1>1, <1>3, Types, Words, RestProperties
  <1>7. msgs \in Seq(Answers)
    <2>1. "join" \in Answers
      BY Words
    <2> HIDE DEF Answers
    <2> QED BY <2>1
  <1> HIDE DEF q, box, entry, msgs
  <1>8. /\ told \in Boxes
        /\ \A d \in Connections, r \in Peers, n \in Messages :
             Under(told, d, r, n) <=>
               \/ Under(box, d, r, n)
               \/ table[p] # NoChannel /\ d = c /\ r = q /\ Reaches(c, q) /\ n = "close"
    <2>1. CASE table[p] = NoChannel
      BY <1>6, <2>1
    <2>2. CASE table[p] # NoChannel
      BY <1>2, <1>3, <1>6, <2>2, Words, PutOne
    <2> QED BY <2>1, <2>2
  <1> HIDE DEF told
  <1>9. Answered(told, inbox', p, entry) /\ down' \subseteq Peers /\ down \subseteq down'
    BY <1>1, <1>5, <1>7, <1>8, Types, ReplyProperties
  <1>10. ASSUME NEW d \in Channels, NEW r \in Peers
         PROVE  /\ Under(inbox', d, r, "end") <=> Under(inbox, d, r, "end")
                /\ Under(inbox, d, r, "close") => Under(inbox', d, r, "close")
                /\ Under(inbox, d, r, "id") => Under(inbox', d, r, "id") \/ (d = c /\ r = p)
                /\ table[p] # NoChannel /\ d = c /\ r = q /\ Reaches(c, q)
                     => Under(inbox', d, r, "close")
    <2>1. \A n \in {"id", "close", "end"} : n \in Messages /\ n \notin Answers
      BY Words DEF Answers
    <2>2. \A n \in {"id", "close", "end"} : Under(inbox', d, r, n) <=> Under(told, d, r, n)
      BY <1>3, <1>9, <2>1 DEF Answered
    <2> QED BY <1>3, <1>6, <1>8, <2>1, <2>2
  <1>11. /\ table' \in [Peers -> Connections \cup {NoChannel}]
         /\ \A r \in Peers : table'[r] = IF r = p THEN entry ELSE table[r]
    BY <1>1, <1>5, Types
  <1>12. TypeOK'
    <2>1. \A r \in Peers \ down' :
            table'[r] \in Channels => end[table'[r]][r] \in {"open", "closing"}
      BY <1>4, <1>5, <1>9, <1>11, Types
    <2>2. inbox' \in Boxes
      BY <1>9 DEF Answered
    <2>3. AP' \subseteq Peers
      BY <1>1, Types DEF RemembersAP
    <2> QED BY <1>1, <1>9, <1>11, <2>1, <2>2, <2>3, Types DEF TypeOK, Ends, Boxes
  <1>13. NegotiatedFirst'
    BY <1>1 DEF IInv, NegotiatedFirst
  <1>14. OnlyTheClosingTell'
    BY <1>1, <1>10 DEF IInv, OnlyTheClosingTell
  <1>15. ClosingIsTold'
    BY <1>1, <1>9, <1>10 DEF IInv, ClosingIsTold
  <1>16. OpeningIsAnswered'
    <2> SUFFICES ASSUME down' = {}, NEW d \in Channels, NEW r \in Peers, stage[d] = "accepted",
                        end[d][r] = "open", end[d][Other(r)] \in {"new", "open"}
                 PROVE  \/ Under(inbox', d, Other(r), "id")
                        \/ table'[Other(r)] = d
                        \/ Under(inbox', d, r, "close")
      BY <1>1 DEF OpeningIsAnswered
    <2>1. down = {}
      BY <1>9
    <2>2. \/ Under(inbox, d, Other(r), "id")
          \/ table[Other(r)] = d
          \/ Under(inbox, d, r, "close")
      BY <2>1 DEF IInv, OpeningIsAnswered
    <2>3. table[Other(r)] = d => table'[Other(r)] = d
      BY <1>2, <1>3, <1>5, <1>11
    <2>4. CASE d = c /\ Other(r) = p
      <3>1. r = q
        BY <1>2, <2>4 DEF q
      <3>2. Reaches(c, q)
        BY <2>4, <3>1 DEF Reaches
      <3>3. table[p] = NoChannel => table'[p] = c
        BY <1>5, <1>11
      <3> QED BY <1>10, <2>4, <3>1, <3>2, <3>3
    <2>5. CASE ~(d = c /\ Other(r) = p)
      BY <1>2, <1>10, <2>2, <2>3, <2>5
    <2> QED BY <2>4, <2>5
  <1>17. BootstrapIsShared'
    <2>1. CASE \A r \in Peers : table[r] = Bootstrap
      <3>1. entry = Bootstrap
        BY <1>5, <2>1, ConnectionTypes
      <3> QED BY <1>11, <2>1, <3>1 DEF BootstrapIsShared
    <2>2. CASE \A r \in Peers : /\ table[r] # Bootstrap
                                /\ \A m \in Messages : ~Under(inbox, Bootstrap, r, m)
      <3>1. entry # Bootstrap
        BY <1>3, <1>5, <2>2
      <3>2. \A r \in Peers, m \in Messages : ~Under(told, Bootstrap, r, m)
        BY <1>3, <1>6, <1>8, <2>2
      <3>3. \A r \in Peers, m \in Messages : ~Under(inbox', Bootstrap, r, m)
        BY <1>3, <1>9, <3>1, <3>2 DEF Answered
      <3> QED BY <1>11, <2>2, <3>1, <3>3 DEF BootstrapIsShared
    <2> QED BY <2>1, <2>2 DEF IInv, BootstrapIsShared
  <1> QED BY <1>12, <1>13, <1>14, <1>15, <1>16, <1>17 DEF IInv

-----------------------------------------------------------------------------
LEMMA InitSatisfies == Init => IInv
  <1> SUFFICES ASSUME Init PROVE IInv
    OBVIOUS
  <1>1. /\ stage = [c \in Channels |-> "unused"] /\ offerer \in [Channels -> Peers]
        /\ end = [c \in Channels |-> [p \in Peers |-> "new"]]
        /\ inbox = [c \in Connections |-> [p \in Peers |-> <<>>]]
        /\ owes = {} /\ down = {} /\ losses = 0 /\ ticks = 0
        /\ AP = {} /\ joined = Peers \ Joiner /\ topologyJoined = Peers \ Joiner
    BY DEF Init
  <1>2. PICK first \in {Bootstrap, NoChannel} : table = [p \in Peers |-> first]
    BY DEF Init
  <1>3. \A p \in Peers : Other(p) \in Peers
    BY TwoPeers
  <1>4. /\ \A c \in Channels, p \in Peers : end[c][p] = "new"
        /\ \A m : \A c \in Connections, p \in Peers : ~Under(inbox, c, p, m)
    BY <1>1 DEF Under
  <1>5. end \in Ends /\ inbox \in Boxes
    BY <1>1 DEF Ends, Boxes
  <1>6. TypeOK
    <2>1. stage \in [Channels -> Stages]
      BY <1>1 DEF Stages
    <2>2. table \in [Peers -> Connections \cup {NoChannel}] /\ \A p \in Peers : table[p] \notin Channels
      BY <1>2, ConnectionTypes
    <2>3. losses \in 0 .. MaxLosses /\ ticks \in 0 .. MaxTicks
      BY <1>1, ConnectionTypes
    <2> QED BY <1>1, <1>5, <2>1, <2>2, <2>3 DEF TypeOK, Ends, Boxes
  <1>7. NegotiatedFirst /\ OnlyTheClosingTell /\ ClosingIsTold /\ OpeningIsAnswered
    BY <1>3, <1>4, ConnectionTypes
    DEF NegotiatedFirst, OnlyTheClosingTell, ClosingIsTold, OpeningIsAnswered
  <1>8. BootstrapIsShared
    BY <1>2, <1>4, ConnectionTypes DEF BootstrapIsShared
  <1> QED BY <1>6, <1>7, <1>8 DEF IInv

LEMMA NextKeeps ==
  ASSUME IInv, [Next]_vars
  PROVE  IInv'
  <1>1. ASSUME NEW c \in Channels,
               Transaction(c) \/ AttachTo(c) \/ LoseSignal(c) \/ Fail(c)
        PROVE  IInv'
    BY <1>1, AttachToKeeps DEF Transaction
  <1>2. ASSUME NEW p \in Peers, NEW c \in Channels, ChannelEvent(p, c)
        PROVE  IInv'
    BY <1>2, OpenKeeps, ReceiveIdentityKeeps, ReceiveCloseKeeps, CloseEventKeeps
    DEF ChannelEvent
  <1>3. ASSUME NEW p \in Peers, NEW c \in Connections, Message(p, c)
        PROVE  IInv'
    BY <1>3, MessageKeeps
  <1>4. ASSUME NEW p \in Peers, UpdateTick(p)
        PROVE  IInv'
    BY <1>4, UpdateTickKeeps
  <1>5. CASE UNCHANGED vars
    <2>1. UNCHANGED <<stage, offerer, end, inbox, table, owes, AP, joined, topologyJoined,
                     down, losses, ticks>>
      BY <1>5 DEF vars, membership
    <2>2. TypeOK'
      BY <2>1 DEF IInv, TypeOK
    <2>3. NegotiatedFirst' /\ BootstrapIsShared' /\ OnlyTheClosingTell'
      BY <2>1 DEF IInv, NegotiatedFirst, BootstrapIsShared, OnlyTheClosingTell, Under
    <2>4. ClosingIsTold'
      BY <2>1 DEF IInv, ClosingIsTold, Under
    <2>5. OpeningIsAnswered'
      BY <2>1 DEF IInv, OpeningIsAnswered, Under
    <2> QED BY <2>2, <2>3, <2>4, <2>5 DEF IInv
  <1> QED BY <1>1, <1>2, <1>3, <1>4, <1>5 DEF Next, Callback

(* The invariant that the results below rest on.  The two that carry them   *)
(* are about a channel that works: whoever closes it tells the other end,   *)
(* and the id told on opening it is under way, registered, or answered by   *)
(* a close that is under way.                                               *)
THEOREM Invariance == Spec => []IInv
  <1> QED BY InitSatisfies, NextKeeps, PTL DEF Spec

(* The variables keep their types, and an entry is on a channel that is     *)
(* open or closing at its peer.                                             *)
THEOREM TypeCorrect == Spec => []TypeOK
  <1>1. IInv => TypeOK
    BY DEF IInv
  <1> QED BY <1>1, Invariance, PTL

\* A channel that is open when nothing is under way is so at both ends, and
\* both have registered it.
LEMMA OpenIsRegistered ==
  ASSUME IInv, Settled, NEW c \in Channels, NEW p \in Peers, end[c][p] = "open"
  PROVE  \A q \in Peers : table[q] = c
  <1> DEFINE o == Other(p)
  <1>1. o \in Peers /\ (\A r \in Peers : r = p \/ r = o) /\ Other(o) = p /\ c \in Connections
    BY TwoPeers, ConnectionTypes
  <1> HIDE DEF o
  <1>2. down = {} /\ \A m : \A r \in Peers : ~Under(inbox, c, r, m)
    BY <1>1 DEF Settled, Under
  <1>3. stage[c] \in {"accepted", "failed"}
    BY DEF IInv, NegotiatedFirst
  <1>4. stage[c] = "accepted"
    BY <1>3 DEF Settled, Ended
  <1>5. end[c][o] \in {"open", "closing", "closed"}
    <2>1. end[c][o] # "new"
      BY <1>1, <1>4 DEF Settled
    <2>2. end[c][o] \in {"new", "open", "closing", "closed"}
      BY <1>1, Types DEF Ends
    <2> QED BY <2>1, <2>2
  <1>6. end[c][o] = "open"
    BY <1>1, <1>2, <1>4, <1>5 DEF IInv, ClosingIsTold, o
  <1>7. table[o] = c
    BY <1>1, <1>2, <1>4, <1>6 DEF IInv, OpeningIsAnswered, o
  <1>8. table[p] = c
    BY <1>1, <1>2, <1>4, <1>6 DEF IInv, OpeningIsAnswered
  <1> QED BY <1>1, <1>7, <1>8

(* When nothing is under way the two tables name the same connection.       *)
THEOREM TablesAgree == Spec => []EndsAgree
  <1>1. IInv => EndsAgree
    <2> SUFFICES ASSUME IInv, Settled, NEW p \in Peers, NEW q \in Peers
                 PROVE  table[p] = table[q]
      BY DEF EndsAgree
    <2>1. ASSUME NEW r \in Peers, table[r] \in Channels
          PROVE  \A s \in Peers : table[s] = table[r]
      <3>1. down = {} /\ ~Ended(r, table[r])
        BY <2>1 DEF Settled
      <3>2. end[table[r]][r] = "open"
        BY <2>1, <3>1, Types DEF Ended
      <3> QED BY <2>1, <3>2, OpenIsRegistered
    <2>2. ASSUME NEW r \in Peers, table[r] = Bootstrap
          PROVE  \A s \in Peers : table[s] = Bootstrap
      BY <2>2 DEF IInv, BootstrapIsShared
    <2>3. \A r \in Peers : table[r] \in Channels \/ table[r] = Bootstrap \/ table[r] = NoChannel
      BY Types, ConnectionTypes
    <2> QED BY <2>1, <2>2, <2>3
  <1> QED BY <1>1, Invariance, PTL

(* When nothing is under way no redundant channel is open at either end.    *)
THEOREM NothingRedundant == Spec => []RedundantIsClosed
  <1>1. IInv => RedundantIsClosed
    BY OpenIsRegistered DEF RedundantIsClosed
  <1> QED BY <1>1, Invariance, PTL
=============================================================================
