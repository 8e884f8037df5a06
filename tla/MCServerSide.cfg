SPECIFICATION Spec
CONSTANTS
  c1 = c1
  Unasked = Unasked
  c2 = c2
  c3 = c3
  Listen = Listen
  Client = {c1, c2, c3}
  StaticClient = {}
  MaxClients = 1
  AllowClean = TRUE
  Masking = "auto"
  HandshakeTimeout = 1
  IdleTimeout = 4
  InTimeout = 3
  IterateInterval = 1
  PollTimeout = 2
  MaskingTimer = 3
  StartTime = 2
  MaxTime = 9
  MaxInterrupts = 1
  ClientForms <- ChangingOldClean
  ServerForm <- Plain
INVARIANTS
  TypeOK
  TableSound
  CleanupPunctual
  IdleSessionsExpire
  HalfOpenSessionsExpire
  SilentTargetsExpire
  PeersUnderstand
  AnswersLastRequest
