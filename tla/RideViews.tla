----------------------------- MODULE RideViews ------------------------------
(***************************************************************************)
(* Everyone's lists of rides: the rider's trips and their pages, the       *)
(* driver's earnings, and the operators' dashboard.  What a screen shows   *)
(* comes from several queries, each of which sees the rides as they are    *)
(* then; an answer is a set of rides.                                      *)
(***************************************************************************)
EXTENDS RideTraffic

CONSTANTS
  Slots,      \* for the reads that are underway at the same time
  PageSize,
  Recent    \* take of recentRides

ASSUME PageAssumption == PageSize \in Nat \ {0}

VARIABLES
  reads,       \* the reads underway; "moved", kept for checking: what changed since
  pager,       \* a rider going through the pages of the history
  trips,       \* what RiderTripsScreen shows
  earnings,    \* what DriverEarningsScreen shows
  dashboard    \* what OverviewDashboard shows

views == << reads, pager, trips, earnings, dashboard >>

Screen == {"trips", "earnings", "overview"}

terminalRideStates ==
  { "completed", "cancelled_by_rider", "cancelled_by_driver",
    "cancelled_by_admin", "no_show", "disputed" }
activeRideStates == normalRideStates \ {"completed"}

QueriesOf ==
  [ trips |-> {"upcoming", "history"}, earnings |-> {"today", "week"},
    overview |-> {"byState", "completedToday", "recent"} ]

InState(states) == {r \in RideIds : rides[r].state \in states}

\* The last n of a set of rides, newest first in the code.
Newest(set, n) == {r \in set : Cardinality({q \in set : q > r}) < n}

-----------------------------------------------------------------------------
(***************************************************************************)
(* The queries.                                                            *)
(***************************************************************************)

\* Mutant: rides that are over are not left out.
UpcomingOfAll == {r \in RideIds : rides[r].ahead}

\* findUpcomingRidesForRider.
Upcoming == {r \in RideIds \ InState(terminalRideStates) : rides[r].ahead}

\* Mutant: nothing is skipped.
HistoryFromTheCursor(cursor) ==
  {r \in InState(terminalRideStates) : cursor = None \/ r <= cursor}

\* The rows findRideHistoryForRider goes through: from the ride of the cursor on,
\* which need not be over any more, skipping the first of those that are.
HistoryFrom(cursor) ==
  LET rows == {r \in InState(terminalRideStates) : cursor = None \/ r <= cursor}
  IN IF cursor = None THEN rows ELSE rows \ Newest(rows, 1)

HistoryPage(cursor) == Newest(HistoryFrom(cursor), PageSize)

\* The ride to go on from, when the query found one more than fits.
NextCursor(cursor) ==
  LET page == HistoryPage(cursor)
  IN IF page = HistoryFrom(cursor) THEN None
     ELSE CHOOSE r \in page : \A q \in page : r <= q

\* Mutant: a window of one day.
EarnedOnTheDay(d, since) ==
  {r \in InState({"completed"}) : rides[r].driver = d /\ rides[r].day = since}

\* The windows of earningsForDriver.
Earned(d, since) ==
  {r \in InState({"completed"}) : rides[r].driver = d /\ rides[r].day >= since}

\* rideCountsByState, as far as AdminOverviewService adds it up; completedToday.
Active == InState(activeRideStates)
CompletedSince(since) == {r \in InState({"completed"}) : rides[r].day >= since}

Result(query, of, today) ==
  CASE query = "upcoming" -> Upcoming
    [] query = "history" -> HistoryPage(None)
    [] query = "today" -> Earned(of, today)
    [] query = "week" -> Earned(of, 0)
    [] query = "byState" -> Active
    [] query = "completedToday" -> CompletedSince(today)
    [] query = "recent" -> Newest(RideIds, Recent)

-----------------------------------------------------------------------------
(***************************************************************************)
(* Reading.                                                                *)
(***************************************************************************)

Reading(screen) == {k \in Slots : reads[k] # None /\ reads[k].screen = screen}

\* Mutant: the day begins in a zone ahead of UTC.
RequestLocalDay(screen, of) ==
  LET free == {k \in Slots : reads[k] = None}
      k == CHOOSE f \in free : \A g \in free : f <= g
  IN
    /\ Open(screen) /\ free # {}
    /\ reads' = [reads EXCEPT ![k] =
         [ screen |-> screen, of |-> of, today |-> day + 1, moved |-> {},
           got |-> [query \in QueriesOf[screen] |-> None] ]]
    /\ UNCHANGED << pager, trips, earnings, dashboard >>

\* A screen asks; the day is taken then.
Request(screen, of) ==
  LET free == {k \in Slots : reads[k] = None}
      k == CHOOSE f \in free : \A g \in free : f <= g
  IN
    /\ Open(screen) /\ free # {}
    /\ reads' = [reads EXCEPT ![k] =
         [ screen |-> screen, of |-> of, today |-> day, moved |-> {},
           got |-> [query \in QueriesOf[screen] |-> None] ]]
    /\ UNCHANGED << pager, trips, earnings, dashboard >>

\* _load of the two screens of the app: first, then when the rider tries again
\* after an error, or when the driver pulls the list down at any time.
LoadTrips == Reading("trips") = {} /\ Request("trips", None)
LoadEarnings == \E d \in quota.drivers : Request("earnings", d)

\* Mutant: the interval is never set.
PollOnce == dashboard = None /\ Reading("overview") = {} /\ Request("overview", None)

\* Every five seconds, whether or not the last answer has come.
Poll == Request("overview", None)

\* The queries of a Promise.all or a Future.wait, in any order.
RunQuery(k, query) ==
  /\ reads[k] # None /\ query \in DOMAIN reads[k].got
  /\ reads[k].got[query] = None
  /\ reads' = [reads EXCEPT ![k].got[query] =
                 Result(query, reads[k].of, reads[k].today)]
  /\ UNCHANGED << pager, trips, earnings, dashboard >>

\* The answer reaches its screen, in whatever order answers come.
Shown(k) == [got |-> reads[k].got, moved |-> reads[k].moved]

Deliver(k) ==
  /\ reads[k] # None /\ \A query \in DOMAIN reads[k].got : reads[k].got[query] # None
  /\ reads' = [reads EXCEPT ![k] = None]
  /\ trips' = IF reads[k].screen = "trips" THEN Shown(k) ELSE trips
  /\ earnings' = IF reads[k].screen = "earnings" THEN Shown(k) ELSE earnings
  /\ dashboard' = IF reads[k].screen = "overview" THEN reads[k].got ELSE dashboard
  /\ UNCHANGED pager

\* A query or the connection fails: an error in its place.
FailRead(k) ==
  /\ reads[k] # None /\ reads' = [reads EXCEPT ![k] = None]
  /\ trips' = IF reads[k].screen = "trips" THEN None ELSE trips
  /\ earnings' = IF reads[k].screen = "earnings" THEN None ELSE earnings
  /\ dashboard' = IF reads[k].screen = "overview" THEN None ELSE dashboard
  /\ UNCHANGED pager

\* A client of GET /rides/history asks for the first page, or for the next.
ReadPage ==
  /\ Open("pages")
  /\ pager # None => pager.cursor # None
  /\ LET cursor == IF pager = None THEN None ELSE pager.cursor
         page == HistoryPage(cursor)
     IN pager' = [ cursor |-> NextCursor(cursor),
                   got |-> page \cup (IF pager = None THEN {} ELSE pager.got),
                   twice |-> IF pager = None THEN {} ELSE pager.twice \cup (page \cap pager.got),
                   first |-> IF pager = None THEN InState(terminalRideStates) ELSE pager.first,
                   back |-> IF pager = None THEN {} ELSE pager.back ]
  /\ UNCHANGED << reads, trips, earnings, dashboard >>

\* What a read underway may have missed, the moves of r, and whether r came back
\* from the end while someone was paging.
Touched(r) ==
  /\ reads' = [k \in Slots |-> IF reads[k] = None \/ reads[k].screen = "overview"
                               THEN reads[k]
                               ELSE [reads[k] EXCEPT !.moved = @ \cup {r}]]
  /\ pager' = IF pager # None /\ r \in InState(terminalRideStates) \ InState(terminalRideStates)'
              THEN [pager EXCEPT !.back = @ \cup {r}] ELSE pager
  /\ UNCHANGED << trips, earnings, dashboard >>

-----------------------------------------------------------------------------
ViewsInit ==
  /\ reads = [k \in Slots |-> None] /\ pager = None
  /\ trips = None /\ earnings = None /\ dashboard = None

Proceed(k) == Deliver(k) \/ \E query \in UNION {QueriesOf[s] : s \in Screen} : RunQuery(k, query)

ViewsNext ==
  \/ /\ LoadTrips \/ LoadEarnings \/ ReadPage
     /\ Spend("reads") /\ UNCHANGED << rides, day >>
  \/ /\ \E k \in Slots : FailRead(k)
     /\ Spend("faults") /\ UNCHANGED << rides, day >>
  \/ /\ Poll \/ \E k \in Slots : Proceed(k)
     /\ UNCHANGED traffic

ViewsFairness ==
  /\ WF_<<views, traffic>>(Poll /\ UNCHANGED traffic)
  /\ \A k \in Slots : WF_<<views, traffic>>(Proceed(k) /\ UNCHANGED traffic)

Read(screen) ==
  [ screen : {screen}, of : Drivers \cup {None}, today : 0 .. day, moved : SUBSET RideIds,
    got : [QueriesOf[screen] -> {None} \cup SUBSET RideIds] ]

Page == [ cursor : RideIds \cup {None}, got : SUBSET RideIds, twice : SUBSET RideIds,
          first : SUBSET RideIds,     \* over when the first page was read
          back : SUBSET RideIds ]     \* over once and not any more, since then

ViewsTypeOK ==
  /\ reads \in [Slots -> {None} \cup Read("trips") \cup Read("earnings")
                                \cup Read("overview")]
  /\ pager \in {None} \cup Page

-----------------------------------------------------------------------------
\* A trip that did not move while RiderTripsScreen was loading is upcoming, past
\* or the ride underway, and just one of the three.
TripsMissOnlyTheMoved ==
  [][trips' # trips /\ trips' # None =>
       \A r \in RideIds \ trips'.moved :
         /\ (r \in trips'.got.upcoming) = (r \in Upcoming)
         /\ r \notin trips'.got.upcoming \cap trips'.got.history
         /\ \/ r \in trips'.got.upcoming \cup trips'.got.history
            \/ rides[r].state \notin terminalRideStates /\ ~rides[r].ahead
            \/ Cardinality(trips'.got.history) = PageSize]_views

\* Whoever follows the cursors sees no ride twice and all that were over at the
\* first page, though rides end meanwhile, but for those that a late write brought
\* back, and, next to one that was shown and then brought back, the next older
\* one, which is skipped in its place.
PagesCoverTheHistory ==
  pager # None =>
    /\ pager.twice = {}
    /\ pager.cursor = None =>
         \A r \in pager.first \ (pager.got \cup pager.back) :
           \E c \in pager.got \cap pager.back :
             r < c /\ \A q \in pager.first \ pager.back : ~(r < q /\ q < c)

\* A driver's day is part of the driver's week, but for a ride that was completed
\* between the two sums.
EarningsAddUp ==
  earnings # None => earnings.got.today \ earnings.got.week \subseteq earnings.moved

\* What the screens list is wrong only about what moved while it was read: a trip
\* in both lists or in neither, a ride earned today and not this week.
ListsMissOnlyTheMoved == TripsMissOnlyTheMoved /\ []EarningsAddUp

\* Once the rides rest, the dashboard shows them as they are, whichever order the
\* answers of overlapping polls come in.
DashboardCatchesUp ==
  <>[](Open("overview") => dashboard = [ byState |-> Active, completedToday |-> CompletedSince(day),
                     recent |-> Newest(RideIds, Recent) ])
=============================================================================
