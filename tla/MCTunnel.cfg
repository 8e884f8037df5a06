SPECIFICATION Spec
CONSTANTS
  Modes = {"one-way", "two-way"}
  MaxClients = 2
  Capacity = 2
  MaxFlows = 3
  MaxFaults = 2
  MaxReverse = 1
INVARIANTS
  TypeOK
  HandshakeWouldComplete
PROPERTIES
  UpStaysUp
  TunnelRecovers
