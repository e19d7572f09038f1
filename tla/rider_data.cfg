SPECIFICATION FairSpec
CONSTANTS
  None = None
  ann = ann
  bob = bob
  Callers = {ann}
  city = city
  name = name
  Riders = {ann, bob}
  Fields = {city, name}
  City = city
  Past <- PastOf
  MaxPlaces = 6
  MaxRequests = 3
CHECK_DEADLOCK FALSE
INVARIANTS
  TypeOK
  LostOnlyToOverlap
  FieldsComeBackByOverlap
PROPERTIES
  OneOperationAtATime
  RequestsAreAnswered
