CONSTANTS
  n1 = n1
  n2 = n2
  Nodes = {n1, n2}
  Names = {"home", "other"}
  Files <- MCFiles
  CommandLines <- MCCommandLines
  Origins <- MCOrigins
  Digests <- MCDigests
  IdLength = 2
  GivenIds <- MCGivenIds
  Flaky = {n1}
  MaxAttempts = 2
  MaxPeers = 1
  MaxLives = 3
SPECIFICATION Spec
INVARIANTS
  TypeOK
  OneAttachToTheNextId
  OneFirstAttemptIsKept
  ListBelongsToTheOverlay
PROPERTIES
  IdentityIsKept
  CacheSurvives
  RetriesEnd
  PatienceIsEnough
CHECK_DEADLOCK FALSE
