CONSTANTS
  a = a
  b = b
  c = c
  d = d
  early = early
  late = late
  last = last
  early1 = early1
  late1 = late1
  last1 = last1
  Members = {a, b, c, d}
  Joiners = {early}
  Increment <- MCIncrement
  Value <- MCValue
  RingSize = 32
  CACHE_SIZE = 3
  InitialTtl = 6
  MaxLosses = 0
  FullMesh = TRUE
SPECIFICATION Spec
INVARIANTS
  NearestIsReached
CHECK_DEADLOCK FALSE
