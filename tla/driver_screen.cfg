SPECIFICATION Spec
CONSTANTS
  None = None
  Rides = {x1}
  Polls = {p1, p2}
  MaxEvents = 1
CHECK_DEADLOCK FALSE
INVARIANTS
  TypeOK
PROPERTIES
  ScreenCatchesUp
