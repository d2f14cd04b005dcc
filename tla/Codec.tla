-------------------------------- MODULE Codec --------------------------------
(***************************************************************************)
(* What a message is between two peers: the buffer its writer makes of it, *)
(* and what a reader makes of a chunk of a stream.  (Transport/messages,   *)
(* the decoding half of MessageHandler, and the signing of Crypto.)        *)
(*                                                                         *)
(* A buffer is a sequence of fields <<kind, value>>: integers of one, two  *)
(* and four bytes, zero-terminated texts, and the bytes of a signature.    *)
(* Lengths count fields where the code counts bytes.  Writer and reader    *)
(* are separate code and separate definitions: nothing but their           *)
(* agreement makes a message arrive as it was.                             *)
(***************************************************************************)
EXTENDS Integers, SequencesExt

MessageCode ==
  [attach_req |-> 3, attach_ans |-> 4, join_req |-> 15, join_ans |-> 16,
   leave_req |-> 17, update_req |-> 19, update_ans |-> 20, ping_req |-> 23,
   ping_ans |-> 24]

U8(v)   == <<"u8", v>>
U16(v)  == <<"u16", v>>
U32(v)  == <<"u32", v>>
Text(v) == <<"text", v>>
Raw(v)  == <<"raw", v>>

\* JSON.stringify of a list, and JSON.parse of a text it made or of none.
Json(list)  == <<"json", list>>
Parse(text) == IF text = <<>> THEN <<>> ELSE text[2]

\* The certificate of a peer as PEM text, the peer it was made for, and the
\* hash of the certificate, by which a signature names its signer.
Pem(p)      == <<"certificate", p>>
Owner(cert) == cert[2]
Sha1(cert)  == <<"sha1", cert>>

\* The codes that stand for SHA1, RSA and cert_hash on the wire.
HashAlgorithm      == [SHA1 |-> 2]
SignatureAlgorithm == [RSA |-> 1]
SignerIdentityType == [cert_hash |-> 1]

\* The types of routable ids.
NodeID(id)     == [type |-> 1, id |-> id]
ResourceID(id) == [type |-> 2, id |-> id]

-----------------------------------------------------------------------------
(* The writer                                                              *)

SerializeIds(list) ==
  FlattenSeq([i \in DOMAIN list |-> <<U8(list[i].type), Text(list[i].id)>>])

SerializeOptions == <<U16(0), U8(0), U16(0)>>

\* Slip: the second length is taken from the same start as the first.
SerializeHeader_LengthOfBoth(h) ==
  LET via == SerializeIds(h.via)  dest == SerializeIds(h.dest)
  IN  <<U32("relo"), Text(h.overlay), Text(h.sequence), U8(1), U8(h.ttl),
        U16(32768), U16(0), U32(0), U32(h.transaction), U32(5000),
        U16(Len(via)), U16(Len(via) + Len(dest)), U16(Len(SerializeOptions))>>
      \o via \o dest \o SerializeOptions

\* The length of the message is never filled in, those of the lists are,
\* after the lists.
SerializeHeader(h) ==
  LET via == SerializeIds(h.via)  dest == SerializeIds(h.dest)
  IN  <<U32("relo"), Text(h.overlay), Text(h.sequence), U8(1), U8(h.ttl),
        U16(32768), U16(0), U32(0), U32(h.transaction), U32(5000),
        U16(Len(via)), U16(Len(dest)), U16(Len(SerializeOptions))>>
      \o via \o dest \o SerializeOptions

\* The contents, each as its class writes it.
SerializeAttach(code, b)  == <<U8(code), Text(b.candidates), U8(IF b.sendUpdate THEN 1 ELSE 0)>>
SerializeJoinRequest(b)   == <<U8(MessageCode.join_req), Text(b.localNodeID)>>
SerializeJoinAnswer       == <<U8(MessageCode.join_ans), Text(<<>>)>>
SerializeLeaveRequest(b)  == <<U8(MessageCode.leave_req), U8(b.type), Text(b.id), Text(Json(b.list))>>
SerializeUpdateRequest    == <<U8(MessageCode.update_req)>>
SerializeUpdateAnswer(b)  ==
  <<U8(MessageCode.update_ans), Text(Json(b.predecessors)), Text(Json(b.successors)),
    Text(b.startTime)>>
SerializePingRequest(b)   == <<U8(MessageCode.ping_req), Text(Json(b.ips)), U32(b.port)>>
SerializePingAnswer(b)    == <<U8(MessageCode.ping_ans), U32(b.number), Text(b.time)>>

SerializeContent(m) ==
  CASE m.code \in {MessageCode.attach_req, MessageCode.attach_ans} ->
                                        SerializeAttach(m.code, m.body)
    [] m.code = MessageCode.join_req   -> SerializeJoinRequest(m.body)
    [] m.code = MessageCode.join_ans   -> SerializeJoinAnswer
    [] m.code = MessageCode.leave_req  -> SerializeLeaveRequest(m.body)
    [] m.code = MessageCode.update_req -> SerializeUpdateRequest
    [] m.code = MessageCode.update_ans -> SerializeUpdateAnswer(m.body)
    [] m.code = MessageCode.ping_req   -> SerializePingRequest(m.body)
    [] m.code = MessageCode.ping_ans   -> SerializePingAnswer(m.body)

\* The body of a message has the members of its class.
OfClass(code, b) ==
  CASE code \in {MessageCode.attach_req, MessageCode.attach_ans} ->
         /\ b = [candidates |-> b.candidates, sendUpdate |-> b.sendUpdate]
         /\ b.sendUpdate \in BOOLEAN
    [] code = MessageCode.join_req   -> b = [localNodeID |-> b.localNodeID]
    [] code = MessageCode.leave_req  -> b = [type |-> b.type, id |-> b.id, list |-> b.list]
    [] code = MessageCode.update_ans -> b = [predecessors |-> b.predecessors,
                                             successors |-> b.successors,
                                             startTime |-> b.startTime]
    [] code = MessageCode.ping_req   -> b = [ips |-> b.ips, port |-> b.port]
    [] code = MessageCode.ping_ans   -> b = [number |-> b.number, time |-> b.time]
    [] OTHER -> b = [empty |-> TRUE]

\* What only the holder of a key can make of the texts fed to the signer.
Sign(key, overlay, transaction, content, identity) ==
  <<"signed", key, overlay, transaction, content, identity>>

\* Whoever serializes a message signs it, with its own key and certificate.
ComputeSignature(m, signer) ==
  Sign(signer, m.overlay, m.transaction, SerializeContent(m), Sha1(Pem(signer)))

SerializeIdentity(signer) ==
  <<U8(SignerIdentityType.cert_hash), U8(HashAlgorithm.SHA1), Text(Sha1(Pem(signer)))>>

SerializeSignature(m, signer) ==
  <<U8(HashAlgorithm.SHA1), U8(SignatureAlgorithm.RSA)>>
  \o SerializeIdentity(signer) \o <<U16(1), Raw(ComputeSignature(m, signer))>>

SerializeSecBlock(m, signer) ==
  <<U8(1), Text(Pem(signer))>> \o SerializeSignature(m, signer)

Serialize(m, signer) ==
  SerializeHeader(m) \o SerializeContent(m) \o SerializeSecBlock(m, signer)

-----------------------------------------------------------------------------
(* The reader.  A cursor is a chunk, the place of the next field, what the *)
(* last reads returned, and whether reading still makes sense.  A field of *)
(* another kind than the one asked for is bytes of something else, and     *)
(* what follows is "garbled".  Past the end an integer throws, a text is   *)
(* empty and a buffer is cut.                                              *)

Cursor(chunk) == [chunk |-> chunk, at |-> 1, got |-> <<>>, fate |-> "reads"]

Take(c, kinds) ==
  LET There(i)   == c.at + i - 1 <= Len(c.chunk)
      Field(i)   == c.chunk[c.at + i - 1]
      Foreign(i) == There(i) /\ Field(i)[1] # kinds[i]
      Empty(i)   == kinds[i] \in {"text", "raw"}
      fate == CASE c.fate # "reads" -> c.fate
                [] \E i \in DOMAIN kinds : Foreign(i) -> "garbled"
                [] \E i \in DOMAIN kinds : ~There(i) /\ ~Empty(i) -> "throws"
                [] OTHER -> "reads"
  IN  [chunk |-> c.chunk, at |-> c.at + Len(kinds), fate |-> fate,
       got |-> [i \in DOMAIN kinds |->
                  IF fate = "reads" /\ There(i) THEN Field(i)[2]
                  ELSE IF Empty(i) THEN <<>> ELSE 0]]

\* A routable id by its type.
IdOfType(type, id) == IF type = 1 THEN NodeID(id) ELSE ResourceID(id)

\* Ids are read while fewer fields than "len" are behind.
DeSerializeIds(c, len) ==
  LET pairs == (len + 1) \div 2
      r == Take(c, [i \in 1 .. 2 * pairs |-> IF i % 2 = 1 THEN "u8" ELSE "text"])
  IN  [cursor |-> r, list |-> [i \in 1 .. pairs |-> IdOfType(r.got[2 * i - 1], r.got[2 * i])]]

DeSerializeOptions(c) == Take(c, <<"u16", "u8", "u16">>)

DeSerializeHeader(c) ==
  LET r == Take(c, <<"u32", "text", "text", "u8", "u8", "u16", "u16", "u32", "u32", "u32",
                     "u16", "u16", "u16">>)
      via  == DeSerializeIds(r, r.got[11])
      dest == DeSerializeIds(via.cursor, r.got[12])
  IN  [cursor |-> DeSerializeOptions(dest.cursor),
       overlay |-> r.got[2], sequence |-> r.got[3], ttl |-> r.got[5],
       transaction |-> r.got[9], via |-> via.list, dest |-> dest.list]

\* The decoders of the contents, behind the code.
Decoded(c, body) == [cursor |-> c, body |-> body]
Empty == [empty |-> TRUE]

DeSerializeAttach(c) ==
  LET r == Take(c, <<"text", "u8">>)
  IN  Decoded(r, [candidates |-> r.got[1], sendUpdate |-> r.got[2] = 1])

DeSerializeJoinRequest(c) ==
  LET r == Take(c, <<"text">>) IN Decoded(r, [localNodeID |-> r.got[1]])

DeSerializeJoinAnswer(c) == Decoded(Take(c, <<"text">>), Empty)

DeSerializeLeaveRequest(c) ==
  LET r == Take(c, <<"u8", "text", "text">>)
  IN  Decoded(r, [type |-> r.got[1], id |-> r.got[2], list |-> Parse(r.got[3])])

DeSerializeUpdateRequest(c) == Decoded(c, Empty)

\* Slip: successors first.
DeSerializeUpdateAnswer_Swapped(c) ==
  LET r == Take(c, <<"text", "text", "text">>)
  IN  Decoded(r, [predecessors |-> Parse(r.got[2]), successors |-> Parse(r.got[1]),
                  startTime |-> r.got[3]])

DeSerializeUpdateAnswer(c) ==
  LET r == Take(c, <<"text", "text", "text">>)
  IN  Decoded(r, [predecessors |-> Parse(r.got[1]), successors |-> Parse(r.got[2]),
                  startTime |-> r.got[3]])

DeSerializePingRequest(c) ==
  LET r == Take(c, <<"text", "u32">>)
  IN  Decoded(r, [ips |-> Parse(r.got[1]), port |-> r.got[2]])

DeSerializePingAnswer(c) ==
  LET r == Take(c, <<"u32", "text">>)
  IN  Decoded(r, [number |-> r.got[1], time |-> r.got[2]])

\* getDecoder; a code that no class has throws.
Decoder(code, c) ==
  CASE code \in {MessageCode.attach_req, MessageCode.attach_ans} -> DeSerializeAttach(c)
    [] code = MessageCode.join_req   -> DeSerializeJoinRequest(c)
    [] code = MessageCode.join_ans   -> DeSerializeJoinAnswer(c)
    [] code = MessageCode.leave_req  -> DeSerializeLeaveRequest(c)
    [] code = MessageCode.update_req -> DeSerializeUpdateRequest(c)
    [] code = MessageCode.update_ans -> DeSerializeUpdateAnswer(c)
    [] code = MessageCode.ping_req   -> DeSerializePingRequest(c)
    [] code = MessageCode.ping_ans   -> DeSerializePingAnswer(c)
    [] OTHER -> Decoded([c EXCEPT !.fate = IF @ = "reads" THEN "throws" ELSE @], Empty)

DeSerializeContent(c) ==
  LET r == Take(c, <<"u8">>)
      decoded == Decoder(r.got[1], r)
  IN  [cursor |-> decoded.cursor, code |-> r.got[1], body |-> decoded.body]

DeSerializeIdentity(c) == Take(c, <<"u8", "u8", "text">>)

DeSerializeSignature(c) ==
  LET identity == DeSerializeIdentity(Take(c, <<"u8", "u8">>))
      size     == Take(identity, <<"u16">>)
  IN  Take(size, [i \in 1 .. size.got[1] |-> "raw"])

DeSerializeSecBlock(c) ==
  LET count == Take(c, <<"u8">>)
      certs == Take(count, [i \in 1 .. count.got[1] |-> "text"])
      signature == DeSerializeSignature(certs)
  IN  [cursor |-> signature, certificates |-> certs.got, digest |-> signature.got]

\* Slip: contentStart is taken when the code has been read.
ContentOf_Late(chunk, start, end) == SubSeq(chunk, start + 1, end - 1)

\* The bytes that the signature is checked over: the content as it came.
ContentOf(chunk, start, end) == SubSeq(chunk, start, end - 1)

\* Header, content and security block, one after the other.  What is behind
\* the first message of the chunk is not looked at.
Decode(chunk) ==
  LET h == DeSerializeHeader(Cursor(chunk))
      c == DeSerializeContent(h.cursor)
      b == DeSerializeSecBlock(c.cursor)
  IN  IF b.cursor.fate # "reads" THEN [fate |-> b.cursor.fate]
      ELSE [fate |-> "reads",
            message |-> [overlay |-> h.overlay, sequence |-> h.sequence, ttl |-> h.ttl,
                         transaction |-> h.transaction, via |-> h.via, dest |-> h.dest,
                         code |-> c.code, body |-> c.body],
            content |-> ContentOf(chunk, h.cursor.at, c.cursor.at),
            certificate |-> b.certificates[1], digest |-> b.digest]

\* JavaScript's < on two texts, here sequences of digits.
Before(s, t) ==
  \E i \in 1 .. Len(t) :
    /\ i <= Len(s) + 1 /\ \A j \in 1 .. i - 1 : s[j] = t[j]
    /\ i = Len(s) + 1 \/ s[i] < t[i]

\* Slip: only messages of an older configuration are refused.
Verify_NewerPasses(d, configuration_sequence) ==
  /\ ~Before(d.message.sequence, configuration_sequence)
  /\ d.digest = <<Sign(Owner(d.certificate), d.message.overlay, d.message.transaction,
                       d.content, Sha1(d.certificate))>>

\* The message has the configuration sequence of its reader, and the
\* signature is one of the peer that the certificate in it names.
Verify(d, configuration_sequence) ==
  /\ ~Before(d.message.sequence, configuration_sequence)
  /\ ~Before(configuration_sequence, d.message.sequence)
  /\ d.digest = <<Sign(Owner(d.certificate), d.message.overlay, d.message.transaction,
                       d.content, Sha1(d.certificate))>>
=============================================================================
