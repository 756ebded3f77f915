SPECIFICATION SpecDown
CONSTANTS
  N = 3
  QMax = 3
  MaxFrames = 4
  MaxParts = 2
  Avb = {2}
  FlowTx = TRUE
INVARIANT WholeFrames
INVARIANT InOrder
INVARIANT MaskedWhileReceiving
INVARIANT QueuedHasRunner
INVARIANT Rearmed
CHECK_DEADLOCK FALSE
