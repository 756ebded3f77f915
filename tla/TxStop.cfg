SPECIFICATION Spec
CONSTANTS
  N = 5
  MaxFrags = 2
  Mbufs = {m1, m2}
  m1 = m1
  m2 = m2
  None = None
SYMMETRY MbufSymmetry
INVARIANT NicOwnsLiveBuffer
INVARIANT HwInStep
CONSTRAINT CleanStops
