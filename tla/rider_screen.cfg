SPECIFICATION Spec
CONSTANTS
  None = None
  Rides = {x1, x2}
  Visited = {"requested", "offered_to_driver", "accepted", "cancelled_by_rider"}
  MaxEvents = 2
CHECK_DEADLOCK FALSE
INVARIANTS
  TypeOK
  ScreenIsInformed
