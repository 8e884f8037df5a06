SPECIFICATION Spec
CONSTANTS
  c1 = c1
  c2 = c2
  c3 = c3
  Listen = Listen
  Unasked = Unasked
  Client = {c1, c3}
  StaticClient = {c3}
  MaxClients = 2
  AllowClean = FALSE
  Masking = "stun"
  HandshakeTimeout = 1
  IdleTimeout = 2
  InTimeout = 0
  IterateInterval = 1
  PollTimeout = 1
  MaskingTimer = 1
  StartTime = 2
  MaxTime = 4
  MaxInterrupts = 0
  ClientForms <- AllPlain
  ServerForm <- Stun1
INVARIANTS
  PeersUnderstand
  TableSound
PROPERTIES
  ImplementsRelay
