SPECIFICATION PollSpec
CONSTANTS
  None = None
  r1 = r1
  d1 = d1
  d2 = d2
  ra = ra
  rb = rb
  da = da
  db = db
  dc = dc
  Riders = {r1}
  Drivers = {d1}
  RiderSessions = {ra}
  DriverSessions = {da}
  RiderOf <- OneRider
  DriverOf <- OneDriver
  Rides = {x1, x2}
  Keys = {k1, k2}
  MaxClock = 1
  MaxTrail = 4
CONSTRAINT EarlyCancels
CHECK_DEADLOCK FALSE
PROPERTIES
  OldestIsOffered
