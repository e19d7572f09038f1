SPECIFICATION Spec
CONSTANTS
  None = None
  r1 = r1
  d1 = d1
  d2 = d2
  ra = ra
  rb = rb
  da = da
  db = db
  dc = dc
  Riders = {r1}
  Drivers = {d1, d2}
  RiderSessions = {ra}
  DriverSessions = {da, db, dc}
  RiderOf <- OneRider
  DriverOf <- TwoDrivers
  Rides = {x1}
  Keys = {k1}
  MaxClock = 0
  MaxTrail = 7
CHECK_DEADLOCK FALSE
CONSTRAINT SecondDeclines
ACTION_CONSTRAINT StaysOnDuty
INVARIANTS
  AuditTrail
  OfferHasDriver
  DrivenByItsAccepter
PROPERTIES
  PassesThroughPool
  NeverRedispatched
  OnlyStaleWritesBreakTheTrail
  ImplementsLedger
