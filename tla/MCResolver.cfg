SPECIFICATION Spec
CONSTANTS
  t = t
  b1 = b1
  b2 = b2
  x = x
  y = y
  z = z
  Target = t
  Binding = {b1, b2}
  Port <- SamePort
  Lookups <- TwoRound
  Addr = {x, y, z}
  Record <- Records
  Unresolved = Unresolved
  Peer <- OnePeer
  Intervals = {TRUE, FALSE}
  PipeCapacity = 1
  MayNotStart = TRUE
  MaxChanges = 1
  MaxSignals = 2
CHECK_DEADLOCK FALSE
INVARIANTS
  TypeOK
  KeysUnique
  SocketsFollowTarget
PROPERTIES
  SighupRefreshes
