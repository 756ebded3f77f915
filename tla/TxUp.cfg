SPECIFICATION FairSpecUp
CONSTANTS
  N = 4
  MaxFrags = 2
  Mbufs = {m1, m2}
  m1 = m1
  m2 = m2
  None = None
INVARIANT TypeOK
INVARIANT RingAccounting
INVARIANT NeverHitsEnd
INVARIANT FrameWhole
INVARIANT MbufOnce
INVARIANT OactiveHasWaker
PROPERTY PostedSent
