SPECIFICATION Spec
CONSTANTS
  p1 = p1
  p2 = p2
  NoProc = NoProc
  Proc <- MCProc
  Chan = {1, 2}
  Event = {0, 1}
  EventsOf <- MCEventsOf
  MaxUsers = 2
  MaxExtras = 0
INVARIANT EventsEnabled
CHECK_DEADLOCK FALSE
