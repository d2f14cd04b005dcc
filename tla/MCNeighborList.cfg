CONSTANTS
  Ids = {a, b, c, d, e}
  Local = a
  RingSize = 6
  CACHE_SIZE = 3
SPECIFICATION Spec
INVARIANTS
  IntervalIsClockwise
  SortedWithSentinel
  NeighborsAreNearest
CHECK_DEADLOCK FALSE
