SPECIFICATION CompletionSpec
CONSTANTS
  None = None
  r1 = r1
  d1 = d1
  d2 = d2
  ra = ra
  rb = rb
  da = da
  db = db
  dc = dc
  Riders = {r1}
  Drivers = {d1}
  RiderSessions = {ra}
  DriverSessions = {da}
  RiderOf <- OneRider
  DriverOf <- OneDriver
  Rides = {x1}
  Keys = {k1}
  MaxClock = 0
  MaxTrail = 20
CHECK_DEADLOCK FALSE
CONSTRAINT ReachesDestination
PROPERTIES
  PaymentIsFinished
