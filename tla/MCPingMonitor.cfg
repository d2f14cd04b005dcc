CONSTANTS
  s1 = s1
  s2 = s2
  Sockets = {s1, s2}
  Period = 2
  Timeout = 1
  Limit = 5
  MaxConns = 3
SPECIFICATION Spec
INVARIANTS
  TypeOK
  CountersAgree
  DetectedInTime
PROPERTIES
  DropsOnlyTheSilent
  TimersEnd
CHECK_DEADLOCK FALSE
