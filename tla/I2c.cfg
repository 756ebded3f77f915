SPECIFICATION Spec
CONSTANTS
  Slaves = {s1, s2}
  TenBit = {s2}
  MaxLen = 3
  MaxCalls = 3
INVARIANT FrameRight
INVARIANT BusReleased
INVARIANT NoStalePulse
CHECK_DEADLOCK FALSE
