------------------------------- MODULE Channel -------------------------------
(***************************************************************************)
(* What a connection between two peers promises the layers above it: of    *)
(* the messages sent, some are got, each as it was sent, at most once, and *)
(* in the order of sending.  Stream.tla implements it with buffers, chunks *)
(* and signatures.                                                         *)
(***************************************************************************)
EXTENDS Integers, SequencesExt

CONSTANT Messages  \* all that may be sent

VARIABLES
  sent,  \* the messages sent
  got,   \* the messages got
  last   \* the place in sent of the last of these, 0 at first

Init == sent = <<>> /\ got = <<>> /\ last = 0

Send ==
  /\ sent' \in Seq(Messages) /\ Len(sent') = Len(sent) + 1 /\ Front(sent') = sent
  /\ UNCHANGED <<got, last>>

Get ==
  \E k \in last + 1 .. Len(sent) :
    /\ last' = k /\ got' = Append(got, sent[k])
    /\ UNCHANGED sent

Next == Send \/ Get

vars == <<sent, got, last>>

Spec == Init /\ [][Next]_vars

\* What was got is a selection of what was sent: f says which place of sent a
\* message was got from, and f goes up.
Selection ==
  \E f \in [DOMAIN got -> DOMAIN sent] :
    /\ \A i \in DOMAIN got : got[i] = sent[f[i]] /\ f[i] <= last
    /\ \A i, j \in DOMAIN got : i < j => f[i] < f[j]

\* And nothing is taken back or made up for later: what was got stays, and a
\* message got next was sent after all of these.
OnlyLaterOnes ==
  [][got' # got =>
       /\ Front(got') = got
       /\ \E k \in DOMAIN sent : k > last /\ got'[Len(got')] = sent[k]]_vars
=============================================================================
