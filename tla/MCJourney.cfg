CONSTANTS
  a = a
  b = b
  c = c
  d = d
  early = early
  late = late
  last = last
  early1 = early1
  late1 = late1
  last1 = last1
  Members = {a, b, c}
  Joiners = {early, late, last}
  Increment <- MCIncrement
  Value <- MCValue
  RingSize = 32
  CACHE_SIZE = 2
  InitialTtl = 6
  MaxLosses = 1
  FullMesh = FALSE
SPECIFICATION Spec
INVARIANTS
  TypeOK
  AnswerRetracesRequest
  SuccessorIsFound
PROPERTIES
  EveryRequestIsAnswered
  JourneyEnds
CHECK_DEADLOCK FALSE
