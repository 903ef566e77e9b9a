SPECIFICATION Spec
CONSTANTS
  PIPE_BUF = 6
  HEADER = 2
  Byte = {0, 1}
INVARIANTS
  RingOK
  Framed
  ReadsOldest
PROPERTY ImplementsByteQueue
