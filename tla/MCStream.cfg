SPECIFICATION Spec
CONSTANTS
  Route <- MCRoute
  Configurations <- MCConfigurations
  Contents <- MCContents
  Target = "resource"
  Redundant = {1}
  RecordSize = 64
  InitialTtl = 100
  MaxMessages = 2
CHECK_DEADLOCK FALSE
INVARIANTS
  TypeOK
  EndsOnlyInsideAMessage
  RelayKeepsTheMessage
PROPERTIES
  HopsAreChannels
  FirstOfRecordArrives
