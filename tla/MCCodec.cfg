SPECIFICATION Spec
CONSTANTS
  XorBytes <- BitXor
  Lengths <- Boundaries
  Rand = {0, 2, 254, 256}
  MaxDummyTotal = 1024
  MaxDummyHandshake = 512
  MaxDummyData = 4
  BufferSize = 65535
  PrebufferSize = 1024
  MaxDatagram = 65507
CHECK_DEADLOCK FALSE
INVARIANTS
  RoundTrip
  StaysInBuffer
