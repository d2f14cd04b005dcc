CONSTANTS
  s1 = s1
  s2 = s2
  Sockets = {s1, s2}
  Period = 3
  Timeout = 1
  Limit = 5
  MaxConns = 2
SPECIFICATION Spec
INVARIANTS
  EntryIsMonitored
CHECK_DEADLOCK FALSE
