SPECIFICATION FairSpec
CONSTANTS
  None = None
  ali = ali
  baber = baber
  carl = carl
  Rider = ali
  Drivers = {baber, carl}
  Followed = {"requested", "offered_to_driver", "accepted", "completed",
    "cancelled_by_rider"}
  Quotas <- QuotasOf
  Slots = {1, 2}
  PageSize = 1
  Recent = 2
CHECK_DEADLOCK FALSE
INVARIANTS
  TypeOK
  MessagesAreOfTheParties
  NoticeMissedForAReason
  SheetKeepsItsMessages
  PagesCoverTheHistory
PROPERTIES
  ListsMissOnlyTheMoved
  DashboardCatchesUp
