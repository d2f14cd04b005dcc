CONSTANTS
  a = a
  b = b
  c1 = c1
  c2 = c2
  tls = tls
  NoChannel = NoChannel
  Peers = {a, b}
  Joiner = {a}
  Channels = {c1, c2}
  Bootstrap = tls
  MaxLosses = 0
  MaxTicks = 1
SPECIFICATION Spec
INVARIANTS
  OneLinkRemains
CHECK_DEADLOCK FALSE
