----------------------------- MODULE MCBootstrap -----------------------------
EXTENDS Bootstrap

CONSTANTS n1, n2

Home  == [tag |-> "configuration", name |-> "home", whole |-> TRUE, permitted |-> "true",
          nodes |-> <<[address |-> n1, port |-> NoName]>>]
Other == [Home EXCEPT !.name = "other", !.permitted = "false",
                      !.nodes = <<[address |-> n2, port |-> "ephemeral"]>>]
Seal  == [Home EXCEPT !.tag = "signature", !.name = NoName, !.whole = FALSE,
                      !.permitted = "absent", !.nodes = <<>>]

\* One overlay, two of them, and a file that lacks what it should have.
MCFiles == {<<Home, Seal>>, <<Home, Seal, Other, Seal>>, <<Seal, Other>>}

\* Asked for or not, with and without -e and --cache, and an interface with
\* none, one or two addresses.
MCCommandLines ==
  {[overlayName |-> name, answer |-> 2, erase |-> e, cache |-> c, addresses |-> 1] :
     name \in {"home", "other"}, e \in BOOLEAN, c \in BOOLEAN}
  \cup {[overlayName |-> NoName, answer |-> i, erase |-> TRUE, cache |-> FALSE,
         addresses |-> 1] : i \in {2, 3}}
  \cup {[overlayName |-> "home", answer |-> 1, erase |-> FALSE, cache |-> FALSE,
         addresses |-> i] : i \in {0, 2}}

MCOrigins ==
  {[forceLocalConfig |-> TRUE, https |-> FALSE, enableHTTP |-> FALSE, http |-> FALSE],
   [forceLocalConfig |-> FALSE, https |-> FALSE, enableHTTP |-> TRUE, http |-> TRUE]}

\* A carry, and the wrap.
MCDigests == {<<3, 15, 9>>}
MCGivenIds == {<<15, 15>>}
=============================================================================
