SPECIFICATION Spec
CONSTANTS
  p1 = p1
  p2 = p2
  NoProc = NoProc
  Proc <- MCProc
  Chan = {1, 2}
  Event = {0, 1}
  EventsOf <- MCEventsOf
  MaxUsers = 2
  MaxExtras = 1
INVARIANT ReadyForUse
INVARIANT OwnContext
INVARIANT NoLostCompletion
INVARIANT PendingIsClaimed
PROPERTY ChannelsSpec
CHECK_DEADLOCK FALSE
