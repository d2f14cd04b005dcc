CONSTANTS
  local = local
  a = a
  b = b
  res = res
  inA = inA
  inB = inB
  outA = outA
  outB = outB
  iceA = iceA
  iceB = iceB
  Local = local
  NoId = NoId
  Ids = {local, a, b}
  Resources = {res}
  Value <- MCValue
  RingSize = 8
  CACHE_SIZE = 2
  Sockets = {inA, iceA, outB}
  Kind <- MCKind
  Remote <- MCRemote
  Initiator = FALSE
SPECIFICATION Spec
INVARIANTS
  TypeOK
  OneConnectionPerPeer
  RoutedAreConnected
  AlwaysACarrier
  ClosedSocketsHoldNoEntry
  LeaverIsForgotten
PROPERTIES
  NullHopOnlyWithoutTable
  DropLeavesNoTrace
  AdmittingPeerIsKept
  JoinedThroughAdmittingPeer
CHECK_DEADLOCK FALSE
