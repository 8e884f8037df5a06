SPECIFICATION Spec
CONSTANTS
  Files <- ThreeServers
  Block = 8
  FcloseSeeks = TRUE
  MaxForks = 4
CHECK_DEADLOCK FALSE
INVARIANTS
  EverySectionOnce
