SPECIFICATION FairSpec
CONSTANTS
  None = None
  NoMaximum = NoMaximum
  home = home
  park = park
  mall = mall
  taxi = taxi
  later = later
  v1 = v1
  v2 = v2
  near = near
  far = far
  Places = {home, park, mall}
  Nearby = {home, park}
  Queries = {near, far}
  Matches <- MatchesOf
  Saved = {}
  MaxTyping = 2
  TieUp <- EitherWay
  Categories = {taxi, later}
  Scheduled = later
  Policies = {v1, v2}
  Terms <- TermsOf
  Roads <- RoadsOf
  MaxCalls = 4
  MaxChanges = 1
CHECK_DEADLOCK FALSE
INVARIANTS
  TypeOK
  ConfirmShowsTheChosen
  FareChangesForAReason
  QuotesKeepThePolicy
  SearchAnswersTheField
PROPERTIES
  ProgressEnds
