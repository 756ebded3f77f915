SPECIFICATION Spec
CONSTANTS
  FIFO_SIZE = 2
  RXMARK = 1
  BURST_MAX = 16
  Lengths = {1, 6, 7, 18, 35}
  DLens = {1, 2, 3}
  LateLengths = {1, 7}
  MaxXfers = 2
  MaxLate = 1
INVARIANTS FullResult TcOnce
PROPERTY Completes
CHECK_DEADLOCK FALSE
