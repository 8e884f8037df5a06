SPECIFICATION HSpec
CONSTANTS
  c1 = c1
  c2 = c2
  c3 = c3
  Listen = Listen
  Unasked = Unasked
  Client = {c1}
  StaticClient = {}
  MaxClients = 1
  AllowClean = FALSE
  Masking = "none"
  HandshakeTimeout = 2
  IdleTimeout = 4
  InTimeout = 3
  IterateInterval = 2
  PollTimeout = 2
  MaskingTimer = 3
  StartTime = 3
  MaxTime = 12
  MaxInterrupts = 1
  ClientForms <- AllObfuscated
  ServerForm <- Plain
PROPERTIES
  InTimeoutHonoured
