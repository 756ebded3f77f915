SPECIFICATION Spec
CONSTANTS
  Card = {c1, c2}
  NoCard = NoCard
  Boot = {c1}
  Clocks = 2
  ResetRetries = 2
  CmdRetries = 1
  MaxQueued = 1
  MaxPulses = 1
  MaxLate = 1
  MaxFaults = 2
INVARIANTS OneIssuer DeviceOutlivesUsers RightCard RightUnlessLate NoticedUnlessWiped
PROPERTY RemovalCompletes
CHECK_DEADLOCK FALSE
