# TAMI ride hailing: TLA+ models, model checking and proofs

TAMI is a ride-hailing system: a NestJS API over PostgreSQL (Prisma) and Redis,
a Flutter app with a rider and a driver side, and a Next.js admin page. This
directory models the API, the screens of the two apps and what else keeps or
shows their data, checks the models with TLC and proves the properties that
matter most with TLAPS.

## 1. The system

### Components

| Component | State it keeps | Operations | Talks to | Modelled |
|---|---|---|---|---|
| Shared ride state machine (`packages/shared`) | none: 19 states and a transition table | `canTransitionRideState` | bookings, driver loop, both apps | `RideStateMachine` |
| Bookings (`apps/api/src/bookings`) | `Ride`, `RideStateTransition`, `PaymentRecord` rows | create (with an idempotency key), cancel | pricing, rides, event bus | `RideDispatch`; its pricing in `TripPlanning` |
| Driver ride loop (`apps/api/src/drivers`) | the same rows, `Driver.online` | availability, current ride (claims one), accept, decline, advance, cancel, complete | event bus | `RideDispatch` |
| Ride queries (`apps/api/src/rides`) | none | current, upcoming, history, one ride; the driver's earnings | bookings' rows | `RideViews`; the lookups that guard changes in `RideDispatch` |
| Realtime (`apps/api/src/realtime`) | sockets and rooms | subscribe, emit or push | event bus, notifications | `RideChat` (rooms, emit or push), `DriverScreen`, `RiderScreen` (delivery), `RideDispatch` (last state published) |
| Chat (`apps/api/src/chat`, driver chat) | message rows | list, send | rides, event bus | `RideChat` |
| Login (`apps/api/src/auth`, `redis`) | OTP challenges in memory, a Redis counter, sessions | request, verify, resolve a token | SMS | `OtpLogin` |
| Places (`apps/api/src/places`) | saved places, one home and one work a rider | create, update, delete; search, reverse geocoding | geocoding provider | `RiderAccount`, `PlaceBook`; `PlaceSearch`, `TripPlanning` |
| Rider profile (`apps/api/src/riders`) | the `Rider` row | read, update | auth's repository | `RiderAccount` |
| Pricing (`apps/api/src/pricing`) and routing | the active policy, its rates, the categories (read) | estimate a fare, list categories | routing provider | `FarePolicy`, `TripPlanning` |
| Push (`apps/api/src/notifications`) | none | send | Firebase | as arriving or failing, in `RideChat` |
| Admin overview and page (`apps/api/src/admin`, `apps/admin`) | the overview on the page | poll, count, list | ride rows | `RideViews` |
| SMS, health, platform configuration | none | external calls, constant data | | not modelled |
| Driver app (`apps/mobile`) | duty, the ride on screen, the call in flight; the chat and earnings screens | poll, tap, events | the API | `DriverScreen`, `RideChat`, `RideViews` |
| Rider app (`apps/mobile`) | the ride, pickup and destination on screen, calls in flight; the search, options, chat and trips screens | locate, search, choose, book, cancel, restore, events | the API | `RiderScreen`, `PlaceSearch`, `TripPlanning`, `RideChat`, `RideViews` |

### How they interact

Requests arrive over HTTP, each handled by an asynchronous function that awaits
database statements. Two requests share nothing but the rows, so everything
that can go wrong between them goes wrong between two statements. The
transactions run at the database's default isolation level, READ COMMITTED.
After its commit a handler publishes `ride.state_changed` on an in-process bus;
the gateways pass it to the sockets of rider and driver or to a push.

### What is hard, and what makes it correct

* *Bookings.* The app retries a booking with the key it used before; two such
  requests may overlap, and the unique index alone decides. One key, one ride
  (`OneRidePerKey`).
* *Dispatch.* Several drivers poll for the same ride while its rider cancels,
  and drivers decline what they are offered. No ride may be stranded
  (`OfferHasDriver`), given to two drivers (`PassesThroughPool`,
  `DrivenByItsAccepter`) or dispatched after it has been accepted or ended
  (`NeverRedispatched`); a driver holds one ride (`OneActiveRide`); and a
  waiting ride is offered (`OldestIsOffered`).
* *State changes.* A change looks the ride up in the state it expects and then
  updates it by id. What the gap between the two statements can do, and cannot,
  is the subject of `OnlyStaleWritesBreakTheTrail`, `AuditTrail`, of the
  abstract `RideLedger`.
* *Completion* is two transactions. Payment is collected with the completion
  and once (`Settled`); that the second one ever runs is not guaranteed, a
  finding.
* *Events* are published after the commit, in whichever order requests resume
  (`ToldWasCommitted`).
* *Login.* INCR and EXPIRE are two commands, and a window is dropped as a
  whole (`TwiceTheLimit`). A challenge is consumed before its
  account and session are stored; it gives one session at most (`SingleUse`),
  for the phone it was sent to (`ForThePhone`), and overlapping first logins
  leave one account (`OneAccountPerPhone`).
* *The driver's screen* is overwritten by answers of polls that overlap, and its
  events are hints only. The polls alone make it right (`ScreenCatchesUp`).
* *The rider's screen* asks once, at its start, and then relies on events that
  may be lost, ignored, or overtaken. `ScreenIsInformed` says exactly what it
  takes for the screen to be wrong.
* *Planning a trip.* The phone's position, searches and estimates are answered
  in any order, and the server prices a booking afresh. The fare above the
  button is that of the last choice (`ConfirmShowsTheChosen`), the list of
  places that of the text in the field (`SearchAnswersTheField`); the fare
  booked is the one confirmed unless one of three things happened
  (`FareChangesForAReason`), keeps to its policy and never drops with distance
  (`QuotesKeepThePolicy`); and nothing estimates or searches for ever
  (`ProgressEnds`).
* *What riders keep.* A saved place is updated by a find, a delete by id and an
  update by id in one transaction; the profile by a read and a write without
  one. What is answered with success is one operation of the abstract
  `PlaceBook` (`OneOperationAtATime`), what overlapping requests can take away
  or bring back is bounded (`LostOnlyToOverlap`, `FieldsComeBackByOverlap`),
  and transactions that wait for each other end (`RequestsAreAnswered`).
* *Chat* checks the ride and inserts in two statements; the gateways emit and
  then count sockets. Messages are the parties' (`MessagesAreOfTheParties`),
  both hear of them (`NoticeMissedForAReason`), and a list that arrives late
  wipes out or repeats just what was sent before it had (`SheetKeepsItsMessages`).
* *Lists* are made of several queries under which rides move. They are wrong
  only about what moved (`ListsMissOnlyTheMoved`), pages repeat nothing and skip
  a ride only next to one that a late write brought back
  (`PagesCoverTheHistory`), and the dashboard gets there (`DashboardCatchesUp`).

`PROJECT.json` lists every hazard at its line, with the properties on it.

## 2. The modules

| Module | What it is |
|---|---|
| `RideStateMachine` | the states, the table `transitions`, `canTransitionRideState`, and the sets of states the repositories use in their WHERE clauses |
| `RideDispatch` | bookings and the driver loop over the rows they share |
| `RideLedger` | the abstract specification: what the rows of a ride may do in one atomic step |
| `MCRideDispatch` | constants for TLC: which account a session is signed in to, and the state constraints of three runs |
| `RideDispatchProofs` | the inductive invariant `IInv`, the kinds of commit, and the safety theorems |
| `RideDispatchTheorems` | what they are for: the refinement of `RideLedger`, and `OneActiveRide` when every driver has one request in flight |
| `OtpLogin` | asking for a code, exchanging it for a session, time, failures and restarts |
| `OtpLoginProofs` | its inductive invariant and its theorems |
| `DriverScreen` | the driver's home screen beside the server it mirrors |
| `DriverScreenProofs` | its types |
| `RiderScreen` | the rider's home screen and options sheet beside the server |
| `RiderScreenProofs` | what keeps a screen informed |
| `FarePolicy` | the arithmetic of `estimateFare`, without state |
| `PlaceSearch` | the search sheet and the search behind it |
| `TripPlanning` | from the home screen to a priced booking: EXTENDS `PlaceSearch` and `FarePolicy` |
| `TripPlanningProofs` | the theorems on fares, and what the options and search sheets show |
| `PlaceBook` | the abstract specification of saved places |
| `RiderAccount` | saved places and profile, query by query, over `PlaceBook` |
| `RiderAccountProofs` | every successful request is one operation of `PlaceBook` |
| `RideTraffic` | the rides of one rider, moving as chat and lists find them |
| `RideChat` | chat services, gateways and sheets over `RideTraffic` |
| `RideViews` | the lists: trips, history pages, earnings, dashboard, over `RideTraffic` |
| `RideDesk` | `RideChat` and `RideViews` over the same rides |
| `RideDeskProofs` | the invariants of chat and lists over the rides they find |
| `MCTripPlanning`, `MCRiderAccount`, `MCRideDesk` | constants for TLC |
| `MCOtpLogin` | the symmetry of its identifiers |

`RideDispatch` is composed with `RideLedger` by refinement: the ledger's steps
are those of the in-memory repositories the tests run against, in which every
method is atomic, except that payments are settled as the database's rows are.
`RiderAccount` is compared with `PlaceBook`, the in-memory repository of saved
places, step by step. `OtpLogin` shares no
state with rides and stands alone. The screen modules use `RideStateMachine` and take each
HTTP handler as one step of the server: what overlaps inside a handler is
`RideDispatch`'s subject, what overlaps outside it is theirs.

### How `RideDispatch` corresponds to the code

* A *session* is a client connection with at most one request in flight. An
  account may have several: an app whose timer fires while a tap is being
  served, or two devices. `RiderOf` and `DriverOf` give the account.
* A *request* is a handler cut at its awaits. `pc[c]` says before which
  statement session `c` stands and `job[c]` holds the local variables that are
  used after it. A statement and what follows it up to the next one is one
  action.
* `ride`, `trail` and `payment` are the rows of `Ride`,
  `RideStateTransition` and `PaymentRecord`, only the columns some guard or
  some property reads. `told[r]` is the state carried by the last event.
* An UPDATE locks its row until the commit, and PostgreSQL evaluates the WHERE
  of a waiting UPDATE again on the committed row. So `updateMany` with a WHERE
  is one atomic test-and-set (`ClaimTake`, `DeclineOffer`), and an UPDATE, the
  audit rows inserted after it and the commit are one action, while a SELECT
  before the UPDATE is an action of its own (`CheckState`, `ClaimPick`).
* What the handlers do:

| Code | Actions |
|---|---|
| `booking.service.ts` `createRide` | `CreateRide` (lookup by key, pickup check) `-> QuoteRide -> InsertRide`, and `RefetchRide` after a unique violation, then `Publish` |
| `cancelRide` of the rider, `acceptRide`, `advanceRide`, `cancelRide` of the driver, `completeRide` | `StartChange` (read and assert) `-> CheckState` (findFirst) `-> WriteState -> Publish` |
| the second half of `completeRide` | `Publish` of `payment_pending` goes on to `check` for `completed` |
| `declineRide` | `DeclineRide -> DeclineOffer -> Publish` |
| `getCurrentRide`, `claimNextRideForDriver` | `GetCurrentRide -> ClaimReadDriver -> ClaimPick -> ClaimTake -> Publish` |
| `updateAvailability` | `UpdateAvailability` |
| any failure: an exception, a transaction's timeout, the process stopping | `RequestFails` at any point: an open transaction is rolled back, committed rows stay, an event not yet published is lost |

* Left out: coordinates, addresses, fares (whether the final fare is set is
  kept), the policy, ids of audit rows, the driver's `active` flag (read in the
  same statement as `online`, and no API operation writes it), and cities (all accounts are of one city; a
  claim only looks at rides of the driver's city, so cities do not interact).
  The driver's GET that finds an active ride, and refused requests, change
  nothing and are not steps.

### How `OtpLogin` corresponds to the code

* A *client* is one request in flight, cut at its awaits as above:
  `RequestOtp -> SetExpiry -> Issue` for a code (INCR, EXPIRE, then
  `OtpService.issue`), `Verify -> Consume -> Lookup -> UpdateCity` or
  `CreateAccount -> CreateSession` for a login. `OtpService.consume` does not
  await and is one step. Riders and drivers share the challenges and the
  counter but not the accounts, so a role is a parameter.
* `count` and `ttl` are the Redis key of a phone, `challenge` the map in the
  memory of the process, lost by `Restart`, `account` and `sessions` the rows.
  Time is what remains: `Tick` takes one off every life.
* `issuedTo` (the phone a challenge was made for) and `recent` (the requests let
  through in the last window, each with its age and the count INCR answered it
  with) are kept for the properties and read by no action. No two requests of
  one tick have the same count, so the set holds all of them: lemma
  `RequestsAreCountedOnce`.
* Left out: the limit per IP address (the same code with another key), the
  token's text, the guards that look a session up, and the SMS.

### How `DriverScreen` corresponds to the code

* `online`, `shown`, `summary` are `_online`, `_ride` and `_completedRide`; `tap` is
  the one call `_guard` waits for (`_isBusy`), `poll` the refreshes in flight, which are not
  awaited and may overlap. A call is asked, served and answered in three steps;
  refusals, errors and lost answers all end it with a text, one action.
* `ride` and `duty` are what the server knows. Other drivers and the rider
  change it at any time. `Emit` puts an event on the socket or loses it.
* Events the app ignores (its own changes come back to it) are not sent.
* Left out: the route on the map, location pings, chat.

### How `RiderScreen` corresponds to the code

* `shown` and `destination` are `_activeRide` and `_destination`, `sheet` the
  options sheet by its key. A ride is named by the key it is booked with, and
  stands for its destination. `booking`, `cancelling` and `restoring` are the
  calls in flight: a sheet may be closed while it submits, and nothing disables
  the cancel button while a booking is in flight.
* `pending` are events of commits whose handler has not resumed yet, published
  in any order or never; `events` is what the socket holds.
* `doubt`, for each card on the screen or in an answer, records that it missed
  an event that would have changed it. It is kept for `ScreenIsInformed` and read by no action.
* Changing an option in the sheet renews the key; here that is closing the
  sheet and opening another. Left out, and the subject of `TripPlanning`:
  pickup, search, fares, scheduled rides.

### How `PlaceSearch`, `FarePolicy` and `TripPlanning` correspond to the code

* `search` is `_RiderPlaceSearchSheetState`, `lookups` its requests in flight.
  They change nothing on the server, so the handler is one step that finds the
  provider's places or fails. `_onQueryChanged` is `Type`, the debounce timer
  `TimerFires`, `_runSearch` the rest.
* `FarePolicy` has money in minor units and multipliers in hundredths, as the
  columns have. `Math.round` of a product of doubles is the exact product
  rounded, except that a half may fall either way: `TieUp` is a parameter, so
  the theorems hold however it falls.
* `calls` are the requests of the options sheets, each with the handler's place
  (`at`) and what it has read: `StartPricing -> ReadCategory, ReadPolicy` (a
  `Promise.all`, in any order) `-> Routed` or `RoutingFails -> Insert` for a
  booking; `ReadCatalog` has the three queries of the category list. `Hear` is
  what the app does with an answer, or with a broken connection while the
  handler runs on.
* `live` is the policy in force, at most one by a partial unique index of the
  migrations; `Switch` is an operator editing policies and categories.
* `locating` and `isLocatingPickup` are `_resolveCurrentPickup`, which is
  awaited by nobody; `BeginSearch`, `ChoosePickup` and `ChooseDestination` open
  the search sheet and take its result. `Confirm` takes the pickup of the home
  screen and the rest of the sheet, as `_requestRide` does.
* A place is a model value for coordinates and address; the route provider's
  answers are in `Roads`, in tenths to be rounded. Left out: payment methods
  (a tap on one only renews the key), explanation texts but for the theorem
  that two of them tell the truth, the saved places of the sheet's empty list
  (a set of places), the map's route preview.

### How `RiderAccount` corresponds to the code

* A request of `requests` is a handler cut at its queries; `at` says where it
  is, `seen` holds the conflicting place's id and `read` the profile. `places`
  and `profile` are committed rows.
* The transaction of an update keeps its delete to itself until it commits:
  `DeleteConflict` holds the row (`Deleting`), statements that need a row held
  or the designation it still has wait (`Blockers`), and `UpdatePlace` is the
  update and the commit. PostgreSQL aborts one of a circle (`Abort`).
* What a place or a profile field contains is told apart by the request that
  wrote it. The city of a place and the session's stamps are left out.

### How `RideTraffic`, `RideChat`, `RideViews` and `RideDesk` correspond to the code

* `RideTraffic` is the rest of the system for these modules: rides are booked, and
  become what `MayBecome` allows, several moves at once if nobody looks between
  them. Late writes are among the moves: an accept or an advance brings a
  cancelled ride back, and an accept may leave a ride with no driver or with
  another one than it was offered to. What does not happen is a return to
  dispatch, or a change of driver after it. `TrafficIsDispatch` proves of
  `RideDispatch` that the handlers do nothing else.
* `talks` are the calls of the chat sheets: `Check` (lookup and state),
  `Write` (insert and event), `List`; `notices` the work of the two gateways:
  `Announced` (emit), `FetchSockets`, `Push`. `sheets` are the open
  `RideChatSheet`s, which `HearTalk` updates.
* `reads` are requests for a list, of two or three queries each that run in any order
  (`RunQuery`); `Deliver` shows the result. An answer is a set of rides: sums
  and counts follow from it. `pager` is a client of the history's cursors;
  `HistoryFrom` has the rows as `cursor` and `skip: 1` take them, from the
  cursor's ride on among those that are over now, less the first. `back`, the
  rides brought back from the end while it pages, is kept for
  `PagesCoverTheHistory`, as `moved` of a read and `rushed` and `early` of a sheet
  are for the others. The trips are loaded once at a time; the earnings can be
  pulled down again while they load.
* A behaviour starts with one of `Quotas`, which says what screens it opens and
  how many rides, moves, calls and faults it may have.

Definitions whose comment begins with "Mutant:" are not part of the model: each is a faulty
variant of the definition that follows it, used to see that a property would
notice that fault. They are referenced by nothing else.

## 3. What TLC checks

Deadlock is not checked (`CHECK_DEADLOCK FALSE`): nobody has to make a request,
and when the bounds are reached the systems may really stop. Except where a
fairness is named below, `Spec` has none.

| Run | Instance | Shows |
|---|---|---|
| `dispatch_race` | 1 rider, 2 drivers, one with a second session that only declines, 1 ride, trail up to 7 rows before the last change | `AuditTrail`, `OfferHasDriver`, `DrivenByItsAccepter`, `PassesThroughPool`, `NeverRedispatched`, `OnlyStaleWritesBreakTheTrail`, `ImplementsLedger` |
| `completion` | 1 rider, 1 driver with 2 sessions, trips to the destination without a detour | `TypeOK`, `Settled` |
| `booking_retry` | 1 rider with 2 sessions, 2 keys, 1 driver with 1 session, 2 rides | `OneRidePerKey`, `ToldWasCommitted`, `OneActiveRide` |
| `poll` | `PollSpec`, 2 rides that may be declined and offered again, clock 0..1 | `OldestIsOffered` |
| `otp_login` | 2 clients, 2 phones, 2 challenges, 2 codes, a limit of 1, a window of 3 ticks | `TypeOK`, `SingleUse`, `ForThePhone`, `OneAccountPerPhone`, `TwiceTheLimit` |
| `driver_screen` | 1 ride, 2 polls in flight, 1 event on the socket | `TypeOK`, `ScreenCatchesUp` |
| `rider_screen` | 2 rides, 2 events underway | `TypeOK`, `ScreenIsInformed` |
| `quote` | `FairSpec`, 3 places, 2 categories, 2 policies, 4 calls, 1 switch, 2 texts typed | `TypeOK`, `ConfirmShowsTheChosen`, `FareChangesForAReason`, `QuotesKeepThePolicy`, `SearchAnswersTheField`, `ProgressEnds` |
| `rider_data` | `FairSpec`, 3 requests of one rider, who has a home and a work; another's home | `TypeOK`, `LostOnlyToOverlap`, `FieldsComeBackByOverlap`, `OneOperationAtATime`, `RequestsAreAnswered` |
| `ride_desk` | `FairSpec`, up to 3 rides, 2 drivers, 2 reads at a time, pages of 1 | `TypeOK`, `MessagesAreOfTheParties`, `NoticeMissedForAReason`, `SheetKeepsItsMessages`, `PagesCoverTheHistory`, `ListsMissOnlyTheMoved`, `DashboardCatchesUp` |
| `two_claims`, `stuck_payment` | see Findings | a counterexample |

Bounds of `RideDispatch`. Two rides are what it takes to hold two, two drivers (or two
sessions of one) what it takes to race; the handlers never look at a third
party. `MaxTrail` bounds the audit rows: no new change starts on a ride with
that many rows, but the requests in flight finish, so a trail may exceed it.
Seven rows let a ride be claimed, declined, claimed by the other driver,
and accepted, advanced or cancelled while a stale request of the first driver is still in
flight. `completion` and `stuck_payment` need longer trails (ten rows to
complete) and keep to the plain trip up to the destination with the constraint
`ReachesDestination`; it cuts only cancelled and declined trips, which end or
restart, and leaves every overlap at and after the destination. In
`booking_retry`, whose rides have four rows (a booking, a claim and an answer),
the constraint `SecondBooks` keeps the rider's second session to booking. In
`dispatch_race`, `SecondDeclines` keeps the first driver's second session to
declining, which is what it takes for an accept and a decline of one driver to
overlap (what else two sessions of a driver do is for `completion` and
`two_claims`), and `StaysOnDuty` leaves out going off duty, which only stops
claims and is free in `completion`, `booking_retry` and `poll`.
`MaxClock` 1 distinguishes a ride scheduled for later, one that is due, and two
rides requested at different times; elsewhere time plays no role and is 0.

In `poll` four rows let a ride be offered and answered, and a decline be followed
by another offer; `EarlyCancels` keeps riders' cancellations to rides not yet
answered, where they meet the claims.

Bounds of `OtpLogin`. With a limit of 1 and a window of 3 ticks a window is
entered late, exceeded and dropped, and three requests would fit it, one in
each tick, if it let them; two clients, phones,
challenges and codes are what it takes to confuse one with another. A code
lives one tick, so it may expire between any two steps.

Bounds of the screens. Two polls in flight overtake one another; one ride,
declined and offered again, is enough for an answer to be stale. The rider's
screen needs two rides (one in flight, one on the screen) and two events (one
to overtake another). `Visited` keeps the rides of `rider_screen` to being
offered, accepted and cancelled: all that `Deliver` distinguishes is whether a
state ends the ride, and the heading, of which these states have two.

Bounds of `quote`. Four calls are a list of categories, two estimates to overtake one
another, and a booking; one switch between any two queries, before or after
the estimate. The policies meet their minimum, their cap and half-way cases on
the roads given, `TieUp` falling both ways. Two texts are what it takes for an
older search to answer last. `rider_data` needs two requests to overlap and a
third for what was undone to show; ids are never reused, so six places suffice
for three new ones. In `ride_desk` each `Quota` drives a part with what it
needs: a ride that changes hands before it is accepted, three rides and five
moves for pages between which one is brought back, two reads at once, one
socket fault; `SomeMix` has chat and trips together. `Followed` keeps a state of each kind the code distinguishes here:
waiting, offered, open to chat, completed, cancelled.

Symmetry is used in `otp_login` only, where nothing tells two clients, phones,
challenges, codes or accounts apart and only invariants are checked; elsewhere
sessions are tied to accounts, or a run checks liveness.

Fairness. `PollFairness` (for `poll` and `stuck_payment`): the driver's app asks
`GET /driver/rides/current` every 15 seconds while its driver is on duty and no
tap is being served (`driver_home_screen.dart` 29, 152-164), so
`GetCurrentRide` is weakly fair. A request may fail at any statement, and each
poll starts anew; strong fairness of the claim's three statements says that it
does not fail at the same one for ever. Those polls are not awaited, so a new
one may overlap one that is slow: this is why an account may have several
sessions, and `two_claims` needs nothing else. `CompletionSpec` adds that a
driver whose ride can be completed keeps tapping. `DriverScreen` assumes the
same of its timer (strongly, as a tick during a tap is skipped), that a
guarded call is answered or fails, and that polls are not all lost; it assumes
nothing of the socket, of restarts, or of the driver. In `quote`, `rider_data`
and `ride_desk` a handler goes on with its request and an app hears of it,
because a call ends in an answer or a broken connection, the provider's fetch is
aborted after 7 seconds and PostgreSQL finds deadlocks; the debounce timer
fires, and the dashboard's interval goes on. Nobody is assumed to tap.
Nothing is assumed of riders, of the duty switch, of accepting or declining.
`OldestIsOffered` says that a free driver on duty does not stay so for ever
while the same ride stays the oldest; it speaks of a ride strictly older than
all others, since the order of equal ones is not determined.

## 4. What TLAPS proves

For any number of riders, drivers, sessions, rides and keys and any bounds,
from the assumptions named in `RideDispatch` (sessions belong to accounts, a session is
of one kind, `None` is no identifier):

| Theorem | Module | Property |
|---|---|---|
| `TypeCorrect` | `RideDispatchProofs` | `TypeOK` |
| `OfferedRidesHaveDrivers` | `RideDispatchProofs` | `OfferHasDriver` |
| `RidesLeaveDispatchOnce` | `RideDispatchProofs` | `NeverRedispatched` |
| `RidesChangeHandsInThePool` | `RideDispatchProofs` | `PassesThroughPool` |
| `KeysAreUsedOnce` | `RideDispatchProofs` | `OneRidePerKey` |
| `AuditTrailIsKept` | `RideDispatchProofs` | `AuditTrail` |
| `StatesAreLostToStaleWritesOnly` | `RideDispatchProofs` | `OnlyStaleWritesBreakTheTrail` |
| `DriversHaveAccepted` | `RideDispatchProofs` | `DrivenByItsAccepter` |
| `EventsAreTrue` | `RideDispatchProofs` | `ToldWasCommitted` |
| `PaymentsAreSettled` | `RideDispatchProofs` | `Settled` |
| `OneRideAtATime` | `RideDispatchTheorems` | `OneActiveRide`, assuming `SingleSession` |
| `RowsImplementLedger` | `RideDispatchTheorems` | `ImplementsLedger` |
| `TrafficIsDispatch` | `RideDispatchTheorems` | every ride becomes what `MayBecome` allows |

and, for any number of clients, phones, challenges, codes and accounts and any
limit and window, from the assumptions named in `OtpLogin`:

| Theorem | Module | Property |
|---|---|---|
| `LoginTypes` | `OtpLoginProofs` | `TypeOK` |
| `ChallengesAreUsedOnce` | `OtpLoginProofs` | `SingleUse` |
| `SessionsAreForThePhone` | `OtpLoginProofs` | `ForThePhone` |
| `AccountsAreUnique` | `OtpLoginProofs` | `OneAccountPerPhone` |
| `TwiceTheLimitAtMost` | `OtpLoginProofs` | `TwiceTheLimit` |

for any policy that `validatePolicy` lets through (`ValidPolicy`), any distance
and duration, and wherever a product half-way between two integers lands
(`TieUp`):

| Theorem | Module | What it says |
|---|---|---|
| `FareWithinPolicy` | `TripPlanningProofs` | a fare is between the minimum and the maximum |
| `LongerNeverCheaper` | `TripPlanningProofs` | neither a longer nor a slower trip costs less |
| `ExplanationIsTrue` | `TripPlanningProofs` | "minimum fare applied" and "maximum fare applied" are said when they are so |

for any places, texts, roads, categories, policies and number of calls, from the
assumptions of `PlaceSearch`, `FarePolicy` and `TripPlanning` (`None` and the
stages of a search are not queries, policies are valid, roads have lengths):

| Theorem | Module | Property |
|---|---|---|
| `PlanningTypes` | `TripPlanningProofs` | `TypeOK` |
| `ListIsForTheField` | `TripPlanningProofs` | `SearchAnswersTheField` |
| `FareIsForTheChoice` | `TripPlanningProofs` | `ConfirmShowsTheChosen` |
| `FaresChangeForAReason` | `TripPlanningProofs` | `FareChangesForAReason` |
| `QuotesFollowThePolicy` | `TripPlanningProofs` | `QuotesKeepThePolicy` |

for any riders, places, fields and number of requests, from the assumptions
of `RiderAccount` (`PastAssumption`: the rows at the start are typed and the
index held for them):

| Theorem | Module | Property |
|---|---|---|
| `AccountTypesHold` | `RiderAccountProofs` | `TypeOK` |
| `RequestsAreAtomic` | `RiderAccountProofs` | `OneOperationAtATime` |
| `PlacesAreLostToOverlap` | `RiderAccountProofs` | `LostOnlyToOverlap` |
| `SentFieldsStand` | `RiderAccountProofs` | `FieldsComeBackByOverlap` |
| `OneHomeOneWork` | `RiderAccountProofs` | `Book!OneEach` |

for any drivers, calls and screens, any size of a page, any number of reads at a
time and any `Quotas`, from the assumptions of `RideTraffic`, `RideChat` and
`RideViews` (`None` is nothing else, the states followed are ride states with
"requested" among them, a quota is typed, a page has a ride):

| Theorem | Module | Property |
|---|---|---|
| `DeskIsTyped` | `RideDeskProofs` | `TypeOK` |
| `MessagesAreTheirs` | `RideDeskProofs` | `MessagesAreOfTheParties` |
| `NoticesReach` | `RideDeskProofs` | `NoticeMissedForAReason` |
| `SheetsKeepMessages` | `RideDeskProofs` | `SheetKeepsItsMessages` |
| `PagesCover` | `RideDeskProofs` | `PagesCoverTheHistory` |
| `ListsAreRightAboutTheRest` | `RideDeskProofs` | `ListsMissOnlyTheMoved` |

and for the screens of the two apps, with any rides, polls and number of events
underway, and any states of the rider's rides that include "requested" and
"cancelled_by_rider":

| Theorem | Module | Property |
|---|---|---|
| `RiderScreenIsTyped` | `RiderScreenProofs` | `TypeOK` |
| `ScreenStaysInformed` | `RiderScreenProofs` | `ScreenIsInformed` |
| `DriverScreenIsTyped` | `DriverScreenProofs` | `TypeOK` |

The argument:

1. *Typing.* `TypeOK` alone is not inductive: a session of a rider could stand
   before the claim's statements, where the model takes `DriverOf` of it, and a
   job could hold no ride where the code uses one. `IInv` adds, for each `pc`,
   what the request's variables hold: a claim belongs to a driver's session,
   the change from `from` to `to` is one the table allows, and so on.
2. *Kinds of commit.* Under `IInv` every step either leaves the rows of every
   ride alone or commits exactly one of four kinds: a booking (`BookingCommits`),
   a change of state (`ChangeCommits`), a decline (`DeclineCommits`) or a claim
   (`ClaimCommits`); `StepCommits` combines them. The step properties follow from
   that case split without looking at the actions again.
3. *`OnlyStaleWritesBreakTheTrail`* needs that what a request has counted of the trail is
   never more than there is, and that if it is all there is, the ride is still
   in the state the request read (`SeenOK`).
4. *`Settled`* is strengthened by where completions can stand in a trail: a
   first completion freezes the payment.
5. *`OneActiveRide`* does not hold in general (see Findings). With one session
   per driver, while its request stands between the lookup of an active ride
   and the claim's UPDATE, the driver holds no active ride: no other request
   could have given it one, and stale writes of a rider only move the ride to
   `cancelled_by_rider`.
6. *Refinement.* The mapping takes the state and the driver columns; trail and
   payment are the same in both. Each kind of commit is a `RideLedger` step: a
   write whose state is still the one read is a `Move`, any other an
   `Overwrite`, whose `from` the ride has been in, because it read it.
7. *Who drives.* `DriverInv` looks at the accepts that are still to be written:
   one that has passed its check is of the driver who has the ride, or of one
   who has declined it since with another request. A ride that was ever
   accepted has left the pool for good, so its driver no longer changes and
   only another accept can make another driver the last to have accepted. With
   one session per driver nobody can decline while an accept of theirs is in
   flight, and the exception of `DrivenByItsAccepter` is void.
8. *What is told.* What a request is about to publish has a row in the trail
   (`ToldInv`), because it comes to publish in the step that commits the row,
   or in `RefetchRide`, which has just read it; and rows are never removed.

9. *Login.* The invariant `IInv` of `OtpLogin` follows a challenge through a
   request: whoever has consumed it holds it alone (`HeldOnce`), it is no longer
   in the map (`Spent`), no session has it yet, and the phone and account the request carries are
   those it was issued to (`IssuedOK`, `JobOK`). `SingleUse` alone is not inductive:
   it says nothing of the two requests between consuming and storing.
10. *Fares.* `estimateFare` rounds three times. Rounding is monotone and moves a
   number by half a unit at most, whichever way a tie falls (`TieUp`); the
   clamp to minimum and maximum is monotone as well, and so is the sum.
11. *Planning.* `PlanInv` says of every call in flight that what it has found so
   far is true of what it was asked (`Sound`), and of the sheet that the one
   estimate it listens to was asked for its present choice, while calls that
   are over are never heard again (`SheetOK`, `OptionsOK`). The properties speak
   of what is on the screen and are not inductive without the calls behind it.
   Every quote is `Fair`, computed from one policy and one route, and then the
   theorems on fares apply to it.
12. *Saved places.* `AccountInv` rests on ids never being given out twice: a
   place is its rider's or gone (`OwnedBy`). A row that an uncommitted delete
   holds is still there and is held once (`LocksOK`), and the conflict an
   update has found is gone, still in its way, or has been moved by a request
   that overlapped it (`MovedBy`). Steps that leave the rows alone
   (`QuietStep`) and steps that change them (`RowStep`) keep all this; the
   handlers only have to show that they are one or the other.
13. *Profiles.* `FieldsComeBackByOverlap` speaks of the row and is not inductive:
   a request that has read the profile and not written it carries an old copy.
   `ProfileInv` says the same of every copy (`Stands`): it has what was answered
   before its request began, or what another sent not before that, or an
   overlapping update left the field out; and what stands does so for ever.
14. *The window.* For each phone `Paced` splits the requests of the last window
   in two, at some age: the younger were counted by the key Redis holds now, the
   older by one that is gone, and each key gave every count once. A third key
   would have to begin while requests of the first are still in the window, but
   a key with an expiry outlives its predecessor's requests
   (`ttl[p] # None => b + ttl[p] > Window`), and a key without one never
   goes. So the requests inject into `(1 .. Limit) \X {0, 1}`. The count alone
   says nothing of the key before, so `TwiceTheLimit` is not inductive.
15. *Rides under chat and lists.* `RidesMoveAsTheyMay` says that in every step a ride
   of `RideDispatch` that changes becomes what `MayBecome` of `RideStateMachine`
   allows. `PartyOK` adds to `IInv` who may still write: an
   advance or a cancellation comes from the driver who has the ride, only an
   accept or a rider's cancellation may find it without one; and moves add up
   (`MovesAddUp`), so several between two looks are one. `RideTraffic` moves by
   the same operator, and all that chat and lists need of it is that a ride that
   has left dispatch stays out and keeps its driver, and ids only grow. Ended
   rides may come back.
16. *Chat.* The ride is looked up one step before the message is stored, so the
   invariant speaks of the message on its way: its ride has left dispatch and has
   its driver, or none, for good, and the sender is the rider or that driver
   (`TalkFits`). A notice that was not pushed has an excuse as soon as the socket is not seen to be off
   (`NoticeFits`). A sheet waits for one list and one send at most; a message
   being sent that was not asked for while the list loaded is later than all it
   shows (`Awaited`), which is why appending the answer keeps the order; all that
   a loading sheet shows, and has sent, is early (`SheetFits`).
17. *Lists.* `moved` grows with every ride that moves while a read is underway;
   each query that has been answered is right about all others (`TripsFit`,
   `EarningsFit`), whichever order the queries ran in. Of the pager `PagesFit`
   says that all that was over at its first page has been shown from the cursor
   on, or was brought back, or is `Excused`: it is the next older one of those
   that stayed over, after a shown ride that was brought back. And nothing is
   shown below the cursor, where a ride that ends meanwhile has a later page; above
   it nobody asks again. A page with the cursor's ride in place skips that one
   and so loses nothing; without it, it skips the next below, which is the one
   excused.
18. *The rider's screen.* `ScreenIsInformed` is not inductive: the next answer of
   a booking or of the restore replaces the card, so `InformedInv` says the same
   of every card in an answer that is not in doubt. For each of them (`Fits`),
   the last event about its ride that is not yet published, or else the last on
   the socket, or else the card itself, has the phase the ride is in. Each step
   then disturbs one end: a commit appends to the unpublished (`CommitFits`); a
   publication moves an event from there to the socket, with the cards in doubt
   if an older one of the ride is left behind (`PublishFits`); a delivery takes
   the first off the socket (`DeliverFits`); a loss leaves only the cards that
   lose nothing by it (`UnheardFits`, `DisconnectFits`). A claim publishes
   nothing, and may, because an offered ride has the heading of a waiting one.

Checked by TLC only: liveness under fairness, which is outside the prover's
reach: `OldestIsOffered`, `ScreenCatchesUp`, `ProgressEnds`,
`RequestsAreAnswered` and `DashboardCatchesUp`. Every other property of a passing
run is a theorem.

## 5. Findings

1. `two_claims` - Two overlapping polls of one driver claim a ride each:
   `getCurrentRide` looks for an active ride before, and outside, the claim's
   transaction.
2. `stuck_payment` - A completion that fails between its two transactions
   leaves the ride in `payment_pending`; no request accepts that state as its
   start, and the ride keeps its driver busy for ever.

Met on the way, without a run of their own.

In the API:

* A change of state is written by id, so one that passed its check before
  another committed overwrites it: a cancelled ride becomes accepted.
  `OnlyStaleWritesBreakTheTrail` says that this is the only way. Nor does the
  write look at the driver again: an accept that overlaps a decline of the same
  driver leaves an accepted ride with no driver, or with the driver it was
  offered to meanwhile. `DrivenByItsAccepter` says that this takes such an overlap.
* A page of the history skips a ride when the cursor's has been brought back
  meanwhile by such a write: `skip: 1` is meant for the cursor's ride and falls
  on the next (`prisma-booking.repository.ts` 230-232). `PagesCoverTheHistory`
  says that no other ride is skipped, and none is shown twice.
* The request that starts a window sends INCR and then EXPIRE; if it stops in
  between, the counter has no end and the phone stays refused. A fixed window
  lets through up to twice the documented limit (`TwiceTheLimit`).
* Nothing ends an offer its driver does not answer, though the design asks for a
  timeout, and a driver who goes off duty during the claim is offered the ride.
* The loser of two concurrent bookings with one key publishes the winner's state
  again, which a test's title rules out.
* `??` in the profile's update never clears a field.
* A message may be stored after its ride has ended, and the sender of a message
  without a socket gets a push of it; the app registers no device token, so
  that push has nowhere to go.

In the apps:

* A booking answered after its sheet was closed and another ride was cancelled
  puts a ride on the screen without a destination, where the panel reads
  `_destination!`.
* The position found late replaces a pickup that was chosen meanwhile.
* A list of categories that breaks off leaves neither a message nor a retry.
* A tap on a payment method renews the key, so after a lost answer it allows a
  second booking; a message sent again after a lost answer is stored twice.
* The rider's app does not ask again after a reconnection, though the design says
  it should; the chat sheet neither.
* A lost answer of the duty switch leaves app and server disagreeing.

## 6. Not modelled, and the plan

Not modelled for good, because they keep no state of their own or only forward:
SMS, the call to Firebase and geocoding and routing behind their answers; the
platform configuration and the city's map profile (constant data); health,
start-up and the Prisma wiring; location pings and device tokens (a write of one
row nothing here reads); the guards that look a session up, and the throttle per
IP address (a library); the in-memory repositories of login and the chat, which
the database ones replace, while those of rides and places are the abstract
`RideLedger` and `PlaceBook`; the apps' account and onboarding screens, the
driver's list of finished rides, the detail of a trip and the map's drawing; the
admin's count of drivers and its token.

What is left: `RideDispatch` is proved against `RideLedger` and `RiderAccount`
against `PlaceBook`, but the screens take each handler as one step of the
server, which is argued in section 2 and not proved.
