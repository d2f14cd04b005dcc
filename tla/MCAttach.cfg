CONSTANTS
  a = a
  b = b
  c1 = c1
  c2 = c2
  tls = tls
  NoChannel = NoChannel
  Peers = {a, b}
  Joiner = {a}
  Channels = {c1, c2}
  Bootstrap = tls
  MaxLosses = 1
  MaxTicks = 1
SPECIFICATION Spec
INVARIANTS
  TypeOK
  EndsAgree
  RedundantIsClosed
PROPERTIES
  AttachLinks
CHECK_DEADLOCK FALSE
