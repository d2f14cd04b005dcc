------------------------------- MODULE RingIds -------------------------------
(***************************************************************************)
(* The identifier arithmetic of src/utils/utils.js.                        *)
(*                                                                         *)
(* A node id is a string of hexadecimal digits.  The code never compares   *)
(* the strings themselves: it folds an id into one number (convertNodeID)  *)
(* and takes distances and intervals of these numbers.  The last function  *)
(* increments an id digit by digit.                                        *)
(***************************************************************************)
EXTENDS Integers, Sequences, FiniteSets, Functions

-----------------------------------------------------------------------------
(* Distances and intervals, on the numbers the ids convert to.             *)

GetDistance(v, w) == IF v >= w THEN v - w ELSE w - v

\* Slip: the wrap-around arc asks for both sides at once.
ElementOfInterval_Slip(v, start, end, endIncluded) ==
  \/ v = end /\ endIncluded
  \/ start = end
  \/ v > start /\ v < end

\* The open interval from start to end, clockwise; the whole ring when the
\* two ends coincide.  The result for end itself is endIncluded's choice.
ElementOfInterval(v, start, end, endIncluded) ==
  \/ v = end /\ endIncluded
  \/ start = end
  \/ start > end /\ (v > start \/ v < end)
  \/ start < end /\ v > start /\ v < end

-----------------------------------------------------------------------------
(* Ids as sequences of hexadecimal digits 0 .. 15.                         *)

\* charCodeAt of a digit as node ids print it ('0'..'9', 'a'..'f').
CharCode(d) == IF d < 10 THEN 48 + d ELSE 87 + d

\* convertNodeID: the digit i places from the end weighs 7^i.
ConvertNodeID(id) ==
  FoldFunction(LAMBDA d, acc : acc + d, 0,
               [i \in DOMAIN id |-> CharCode(id[i]) * 7 ^ (Len(id) - i + 1)])

\* Slip: no carry out of the last digit.
AddNodeID_Slip(id) == [id EXCEPT ![Len(id)] = (id[Len(id)] + 1) % 16]

\* addNodeID: add one to the last digit and carry leftwards while a digit
\* wraps to 0; an id of all f's wraps to all 0's.
AddNodeID(id) ==
  LET Wraps(i) == (id[i] + 1) % 16 = 0
      Reached(i) == \A j \in i + 1 .. Len(id) : Wraps(j)
  IN  [i \in DOMAIN id |-> IF Reached(i) THEN (id[i] + 1) % 16 ELSE id[i]]

-----------------------------------------------------------------------------
(* The reading of the ring that the operators above are checked against.   *)

\* How far clockwise v lies after start on a ring of size m, at least 1: a
\* value is a full turn away from itself.
Clockwise(start, v, m) == IF v > start THEN v - start ELSE m - (start - v)

\* The k members of S of lowest rank.
Nearest(S, rank, k) ==
  {x \in S : Cardinality({y \in S : rank[y] < rank[x]}) < k}

\* The number that the hexadecimal digits of an id write.
NumberOf(id) ==
  LET upTo[k \in 0 .. Len(id)] == IF k = 0 THEN 0 ELSE 16 * upTo[k - 1] + id[k]
  IN  upTo[Len(id)]

\* Its successor among the ids of its length: after the highest comes 0.
NextNumber(id) == IF \A i \in DOMAIN id : id[i] = 15 THEN 0 ELSE NumberOf(id) + 1
=============================================================================
