SPECIFICATION Spec
CONSTANTS
  Half = 20
  IdleTimeout = 4
  IterateInterval = 1
  PollTimeout = 3
  MaxRun = 30
CHECK_DEADLOCK FALSE
INVARIANTS
  IdleSessionExpires
