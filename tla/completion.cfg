SPECIFICATION Spec
CONSTANTS
  None = None
  r1 = r1
  d1 = d1
  d2 = d2
  ra = ra
  rb = rb
  da = da
  db = db
  dc = dc
  Riders = {r1}
  Drivers = {d1}
  RiderSessions = {ra}
  DriverSessions = {da, db}
  RiderOf <- OneRider
  DriverOf <- OneDriver
  Rides = {x1}
  Keys = {k1}
  MaxClock = 0
  MaxTrail = 10
CHECK_DEADLOCK FALSE
CONSTRAINT ReachesDestination
INVARIANTS
  TypeOK
  Settled
