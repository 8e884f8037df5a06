SPECIFICATION Spec
CONSTANTS
  Files <- ThreeSections
  Block = 4
  FcloseSeeks = FALSE
  Sections = 3
  MaxRotations = 2
  MaxFailures = 1
  MaxExits = 1
CHECK_DEADLOCK FALSE
INVARIANTS
  TypeOK
  OwnOptions
  EverySectionOnce
  NoReloadLost
PROPERTIES
  ReloadReachesAll
  SignalsSettle
