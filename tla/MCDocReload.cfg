SPECIFICATION Spec
CONSTANTS
  Sections = 2
  MaxRotations = 1
  MaxFailures = 0
  MaxExits = 0
INVARIANTS
  ReloadKillsNobody
