CONSTANTS
  local = local
  a = a
  b = b
  res = res
  inA = inA
  inB = inB
  outA = outA
  outB = outB
  iceA = iceA
  iceB = iceB
  Local = local
  NoId = NoId
  Ids = {local, a, b}
  Resources = {res}
  Value <- MCValue
  RingSize = 8
  CACHE_SIZE = 1
  Sockets = {inA, inB}
  Kind <- MCKind
  Remote <- MCRemote
  Initiator = TRUE
SPECIFICATION Spec
PROPERTIES
  NewNeighborsAreProcessed
CHECK_DEADLOCK FALSE
