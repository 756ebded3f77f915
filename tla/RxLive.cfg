SPECIFICATION FairSpecScarce
CONSTANTS
  N = 2
  QMax = 2
  MaxFrames = 3
  MaxParts = 2
  Avb = {2}
  FlowTx = FALSE
INVARIANT NothingLeftBehind
PROPERTY RingServed
CHECK_DEADLOCK FALSE
