CONSTANTS
  Conns = {c1, c2}
  Buffers = {b1, b2}
  NoConn = NoConn
  NoBuffer = NoBuffer
  HashLen = 1
  MaxBytes = 3
SPECIFICATION Spec
INVARIANTS
  TrojanIffHash
  OnlySiteWithoutPassword
  ServedItsOwnBytes
PROPERTY PushedIsServedOrClosed
CHECK_DEADLOCK FALSE
