------------------------------ MODULE MCJourney ------------------------------
EXTENDS Journey

CONSTANTS a, b, c, d, early, late, last, early1, late1, last1

\* Members are 8 apart on a ring of 32.  The joiners sit behind a member,
\* before one, and before the wrap; no id lies halfway between two members.
Position ==
  a :> 4 @@ b :> 12 @@ c :> 20 @@ d :> 28
    @@ early :> 5 @@ late :> 10 @@ last :> 29
    @@ early1 :> 6 @@ late1 :> 11 @@ last1 :> 30

MCValue == [n \in Peers \cup {early1, late1, last1} |-> Position[n]]
MCIncrement ==
  [n \in Joiners |-> (early :> early1 @@ late :> late1 @@ last :> last1)[n]]

\* What the theorems about Journey ask of the ids.
ASSUME IdsFit == NothingBetween /\ NoneHalfway
=============================================================================
