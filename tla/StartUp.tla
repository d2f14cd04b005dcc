-------------------------------- MODULE StartUp --------------------------------
(***************************************************************************)
(* What a start of the program makes of its configuration file and its     *)
(* command line (src/reload.js, src/Core/peer.js, src/Core/instance.js,    *)
(* src/Crypto/X509Utils.js): which overlay it enters, with which list of   *)
(* bootstrap peers, whose saved identity an -e erases, and the many ways   *)
(* in which nothing comes of it.                                           *)
(*                                                                         *)
(* A file is the sequence of the children of its root, configurations and  *)
(* their signatures; one that lacks its namespaces, or is no XML, comes to *)
(* the same as one without configurations. Almost every check that fails   *)
(* logs an error and returns undefined, which run() takes for success: the *)
(* services start, miss what was not set, and the TypeError ends the       *)
(* process.  So a check that fails and one that ends the process come to   *)
(* the same here.                                                          *)
(***************************************************************************)
EXTENDS Sequences, FiniteSets, Naturals

NoName == "undefined"

DefaultPort == "listening"

\* A child of the root of an overlay file.
Elements(Nodes, Names) ==
  [tag       : {"configuration", "signature"},
   name      : Names \cup {NoName},        \* its instance-name
   whole     : BOOLEAN,                    \* it has an expiration and a sequence
   permitted : {"true", "false", "absent"},  \* self-signed-permitted
   nodes     : Seq([address : Nodes, port : {NoName, "listening", "ephemeral"}])]

\* The command line, what the user answers when asked for an overlay, and how
\* many IPv4 addresses the interface has.
Arguments(Names) ==
  [overlayName : Names \cup {NoName}, answer : Nat, erase : BOOLEAN,
   cache : BOOLEAN, addresses : 0 .. 2]

\* How the file is come by: it is local, or the HTTPS request fails or brings
\* it, and what a failure is followed by.
Sources == [forceLocalConfig : BOOLEAN, https : BOOLEAN, enableHTTP : BOOLEAN, http : BOOLEAN]

-----------------------------------------------------------------------------
\* run(): the file is read, or downloaded by HTTPS, or by HTTP when that fails
\* and it is allowed.
Fetched(source) ==
  \/ source.forceLocalConfig
  \/ source.https
  \/ source.enableHTTP /\ source.http

Configurations(xml) == {k \in DOMAIN xml : xml[k].tag = "configuration"}

\* The last element of this name: the ones before it are overwritten.
Named(xml, name) ==
  xml[CHOOSE k \in DOMAIN xml : /\ xml[k].name = name
                                /\ \A j \in k + 1 .. Len(xml) : xml[j].name # name]

\* The index is one among all the children, and an invalid one is the first.
Indexed(xml, answer) == xml[IF answer \in DOMAIN xml THEN answer ELSE 1]

\* parseConfig finds an overlay to enter.
Selects(xml, args) ==
  LET several == Cardinality(Configurations(xml)) > 1
  IN  /\ Configurations(xml) # {}
      /\ several /\ args.overlayName # NoName
           => \E k \in DOMAIN xml : xml[k].name = args.overlayName

\* parseConfig: the first child of a file with one configuration, whatever name
\* was given; otherwise the one named, or the one the user points at.
Overlay(xml, args) ==
  IF Cardinality(Configurations(xml)) = 1 THEN xml[1]
  ELSE IF args.overlayName # NoName THEN Named(xml, args.overlayName)
  ELSE Indexed(xml, args.answer)

\* checkOverlayValidity: without its attributes, or without the element on
\* self-signed certificates, there is no identity to start with; an overlay
\* that does not permit them is refused only when the file is the local one.
Valid(overlay, source) ==
  /\ overlay.whole /\ overlay.name # NoName
  /\ \/ overlay.permitted = "true"
     \/ overlay.permitted = "false" /\ ~source.forceLocalConfig

\* The bootstrap-node list of the overlay; the port is optional.
BootstrapNodes(overlay) ==
  [k \in DOMAIN overlay.nodes |->
     [node |-> overlay.nodes[k].address,
      port |-> IF overlay.nodes[k].port = NoName THEN DefaultPort
                                                 ELSE overlay.nodes[k].port]]

\* run() is called once for each address of the interface, and the second call
\* listens at the same ports: it ends the process, but only after both have
\* parsed the file.  (What the first may have served until then is left out.)
ComesUp(args) == args.addresses = 1

Starts(xml, source, args) ==
  /\ args.addresses > 0 /\ Fetched(source)
  /\ Selects(xml, args) /\ Valid(Overlay(xml, args), source)

\* Slip: the identity of the overlay about to be entered.
Erases_Entered(xml, args) ==
  IF ~args.erase THEN NoName
  ELSE IF Selects(xml, args) THEN Overlay(xml, args).name ELSE NoName

\* The saved instance -e is about goes by --overlay-name alone, before the
\* file is read: without that option it is none, and in a file with one
\* configuration it need not be the one that is entered.
Erases(xml, args) == IF args.erase THEN args.overlayName ELSE NoName

\* generateSelfSignedCertificate: the id of a new identity is the digest of a
\* fresh key, cut to node-id-length digits, or what --id says, whatever its
\* length.
NewIds(digests, length, given) == {SubSeq(d, 1, length) : d \in digests} \cup given
=============================================================================
