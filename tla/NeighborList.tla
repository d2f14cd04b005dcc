----------------------------- MODULE NeighborList -----------------------------
(***************************************************************************)
(* neighborsFromTotal of src/Routing/CHORDRoutingTable.js: how a peer      *)
(* computes its successor list or its predecessor list from the set of     *)
(* all the nodes it has heard of.                                          *)
(*                                                                         *)
(* The code makes one pass over a JavaScript Set, whose order is the order *)
(* in which the nodes were heard of; here each step takes any node not     *)
(* taken yet, so a behaviour is the pass over one order.  The first node   *)
(* is pushed and then falls through to the insertion loop, which inserts   *)
(* it again: the list always ends with that duplicate.                     *)
(***************************************************************************)
EXTENDS RingIds, SequencesExt

CONSTANTS
  Ids,         \* node ids
  Local,       \* the id of this peer
  RingSize,    \* the numbers convertNodeID may produce are 0 .. RingSize - 1
  CACHE_SIZE   \* neighbours kept on each side

ASSUME NeighborListAssumption ==
  /\ Local \in Ids
  /\ RingSize \in Nat \ {0}
  /\ CACHE_SIZE \in Nat \ {0}

VARIABLES
  value,        \* what convertNodeID makes of each id
  isSuccessors, \* which side is being computed
  heardOf,      \* the total list merge() has put together
  remaining,    \* the part of it the pass has not reached
  newList       \* the list built so far
vars == <<value, isSuccessors, heardOf, remaining, newList>>

-----------------------------------------------------------------------------
\* No two ids convert to the same number: when two do, the interval between
\* them is the whole ring, and the list depends on the order of the pass.
Init ==
  /\ value \in [Ids -> 0 .. RingSize - 1] /\ IsInjective(value)
  /\ isSuccessors \in BOOLEAN
  /\ heardOf \in SUBSET Ids
  /\ remaining = heardOf
  /\ newList = <<>>

\* Slip: the predecessor side forgets to swap the ends of the interval.
Fits_Slip(list, i, node) ==
  LET before == IF i = 1 THEN value[Local] ELSE value[list[i - 1]]
  IN  ElementOfInterval(value[node], before, value[list[i]], FALSE)

\* Does node lie between place i - 1 of the list and place i (the local peer
\* standing before place 1)?
Fits(list, i, node) ==
  LET before == IF i = 1 THEN value[Local] ELSE value[list[i - 1]]
  IN  IF isSuccessors
      THEN ElementOfInterval(value[node], before, value[list[i]], FALSE)
      ELSE ElementOfInterval(value[node], value[list[i]], before, FALSE)

\* Slip: always push at the end.
Insert_Slip(list, node) == Append(list, node)

\* Insert at the first place that fits, push at the end when none does.
Insert(list, node) ==
  LET places == {i \in DOMAIN list : Fits(list, i, node)}
  IN  IF places = {} THEN Append(list, node)
                     ELSE InsertAt(list, Min(places), node)

\* One round of the loop.  (The guard the code puts first, node ==
\* global.nodeID[0], compares a string with an object and never holds: the
\* local id is inserted like any other when it is in the total.)
TakeNode(node) ==
  /\ node \in remaining
  /\ remaining' = remaining \ {node}
  /\ newList' = Insert(IF newList = <<>> THEN <<node>> ELSE newList, node)
  /\ UNCHANGED <<value, isSuccessors, heardOf>>

Next == \E node \in Ids : TakeNode(node)
Spec == Init /\ [][Next]_vars /\ WF_vars(Next)

\* Slip: truncate one short.
Neighbors_Slip == ToSet(SubSeq(newList, 1, Min({Len(newList), CACHE_SIZE - 1})))

\* The Set that is returned, truncated to CACHE_SIZE.
Neighbors == ToSet(SubSeq(newList, 1, Min({Len(newList), CACHE_SIZE})))

-----------------------------------------------------------------------------
\* How far each id is from the local peer, on the side being computed.
Rank == [n \in Ids |->
           IF isSuccessors THEN Clockwise(value[Local], value[n], RingSize)
                           ELSE Clockwise(value[n], value[Local], RingSize)]

Done == remaining = {}

(* ElementOfInterval agrees with walking clockwise from start, on every     *)
(* interval between ids of the list: an element is inside when the walk    *)
(* meets it strictly before it meets end; an interval that starts where it *)
(* ends is the whole ring, so that an id may even lie between itself and   *)
(* itself.  The loop relies on this last case to end its scan              *)
(* (utils.js:20-41).                                                       *)
IntervalIsClockwise ==
  \A n \in remaining, from, to \in {Local} \cup ToSet(newList), incl \in BOOLEAN :
    LET Ahead(m) == Clockwise(value[from], value[m], RingSize)
    IN  ElementOfInterval(value[n], value[from], value[to], incl)
          <=> Ahead(n) < Ahead(to) \/ from = to \/ (incl /\ n = to)

(* Whatever the order of the pass, all of the list but its last place is   *)
(* sorted away from the local peer, strictly, and the last place repeats   *)
(* an earlier one: the state the insertion loop of neighborsFromTotal      *)
(* (CHORDRoutingTable.js:557-588) needs to be in before each round.        *)
SortedWithSentinel ==
  newList # <<>> =>
    LET last == Len(newList)
    IN  /\ \A i, j \in 1 .. last - 1 :
             i < j => Rank[newList[i]] < Rank[newList[j]]
        /\ \E i \in 1 .. last - 1 : newList[i] = newList[last]

(* The pass returns the CACHE_SIZE nodes nearest the local peer on its     *)
(* side, independently of the order in which the nodes were heard of; the  *)
(* peer itself, if its id is in the total, counts as farthest              *)
(* (CHORDRoutingTable.js:553-594; the neighbours a peer attaches to and    *)
(* sends its updates to).                                                  *)
NeighborsAreNearest == Done => Neighbors = Nearest(heardOf, Rank, CACHE_SIZE)
=============================================================================
