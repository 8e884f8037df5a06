SPECIFICATION Spec
CONSTANTS
  XorBytes <- BitXor
  Key <- Love
  Classes = 3
  RowMax = 6
  Chunk = 4
  Lengths <- Short
INVARIANTS
  StreamExact
  RowsSound
