SPECIFICATION Spec
CONSTANTS
  Q = 2
  IrqLag = 1
  StampLag = 1
  BUF_SZ = 2
  MaxSec = 1
  MaxMsgs = 3
  MaxSets = 1
INVARIANT ClockRight
INVARIANT StampRight
INVARIANT LastStampsFound
CHECK_DEADLOCK FALSE
