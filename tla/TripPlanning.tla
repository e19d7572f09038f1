---------------------------- MODULE TripPlanning ----------------------------
(***************************************************************************)
(* From the rider's home screen to a priced booking: the pickup comes from *)
(* the phone's location or from PlaceSearch, the destination from          *)
(* PlaceSearch, the fare from POST /pricing/estimate, asked again whenever *)
(* the options sheet changes, and the ride from POST /rides, which prices  *)
(* it afresh.  Meanwhile fare policies and categories are switched.        *)
(*                                                                         *)
(* A handler is cut at its queries and its call of the routing service; a  *)
(* connection may break while its handler runs on.                         *)
(***************************************************************************)
EXTENDS PlaceSearch, FarePolicy, Sequences

CONSTANTS
  Categories,   \* ride category codes
  Scheduled,    \* the one that needs a pickup time
  Nearby,     \* what reverse geocoding makes of the phone's positions
  Policies,     \* FarePolicy rows of the rider's city
  Terms,        \* Terms[p][c] is what p charges for c, None without a rate
  Roads,        \* Roads[<<a, b>>] are the provider's routes, in tenths
  MaxCalls,     \* calls of one behaviour
  MaxChanges    \* policies and categories switched

ASSUME
  PlanningAssumption ==
    /\ Scheduled \in Categories /\ Nearby \subseteq Places
    /\ None \notin Categories /\ MaxCalls \in Nat /\ MaxChanges \in Nat
    /\ \A ends \in Places \X Places :
         Roads[ends] \subseteq [distance : Nat, duration : Nat]
    /\ \A p \in Policies, c \in Categories :
         Terms[p][c] # None => /\ Terms[p][c] \in Policy
                               /\ ValidPolicy(Terms[p][c])

VARIABLES
  live,         \* the active policy, if any
  onOffer,      \* the active categories
  changes,      \* how many switches there were
  rides,        \* the rides of this rider, by idempotency key
  calls,        \* calls of the options sheets, in the order they were made
  pickup, active,                \* of the home screen
  locating, isLocatingPickup,    \* _resolveCurrentPickup
  options       \* the open RideOptionsSheet

server == << live, onOffer, changes, rides >>
screen == << pickup, active >>
location == << locating, isLocatingPickup >>
searching == << search, lookups >>
vars == << live, onOffer, changes, rides, calls, pickup, active,
           locating, isLocatingPickup, options, search, lookups >>

Keys == 1 .. MaxCalls

-----------------------------------------------------------------------------
(***************************************************************************)
(* The handlers.                                                           *)
(***************************************************************************)

Kind == {"catalog", "estimate", "booking"}
Refusal == {"bad_request", "not_found", "unavailable"}

Quote == [ fare : Nat, policy : Policies, category : Categories, pickup : Places,
           destination : Places, distance : Nat, duration : Nat ]
Catalog == [categories : SUBSET Categories, scheduled : BOOLEAN]

\* What a call carries: the sheet's trip; the pickup may be another.
Request ==
  [ kind : Kind, sheet : Keys, pickup : Places, destination : Places,
    category : Categories \cup {None}, expired : BOOLEAN, key : Keys,
    confirmed : Quote \cup {None} ]     \* kept for checking: what was shown

\* Where its handler is, and what it has read.
Progress ==
  [ phase : {"start", "reading", "listing", "scheduled", "routing", "inserting",
             "ok"} \cup Refusal,
    category : {"unread", "found", "missing"},
    policy : Policies \cup {"unread", "missing"} ]

Ride == [quote : Quote, confirmed : Quote]

Started == [phase |-> "start", category |-> "unread", policy |-> "unread"]

\* A call nobody waits for any more.
Over == [ask |-> None, at |-> None, result |-> None, waiting |-> FALSE]

\* findActivePolicy after a query of its Promise.all: what is missing is missed
\* when both have been read.
AfterReads(category, got) ==
  IF "unread" \in {got.category, got.policy} THEN "reading"
  ELSE IF "missing" \in {got.category, got.policy} THEN "not_found"
  ELSE IF Terms[got.policy][category] = None THEN "not_found"
  ELSE "routing"

\* findActivePolicyForCity; a unique index keeps a second one from being active.
PolicyInForce == IF live = None THEN "missing" ELSE live

HandlerOnly == UNCHANGED << server, screen, location, options, searching >>

Advance(k, phase) ==
  calls' = [calls EXCEPT ![k].at.phase = phase] /\ HandlerOnly
Yield(k, phase, result) ==
  /\ calls' = [calls EXCEPT ![k].at.phase = phase, ![k].result = result]
  /\ HandlerOnly

\* What estimateFare refuses, of what a sheet can get wrong: a pickup time that
\* has passed, one place for both ends.
BadRequest(q) == q.expired \/ q.pickup = q.destination

\* BookingService.createRide looks for its key before it asks for a fare.
StartPricing(k) ==
  LET q == calls[k].ask
  IN /\ q.kind # "catalog" /\ calls[k].at.phase = "start"
     /\ IF q.kind = "booking" /\ rides[q.key] # None
        THEN Yield(k, "ok", rides[q.key].quote)
        ELSE Advance(k, IF BadRequest(q) THEN "bad_request" ELSE "reading")

HasRead(k, got) ==
  /\ calls[k].at.phase = "reading"
  /\ calls' = [calls EXCEPT ![k].at =
       [got EXCEPT !.phase = AfterReads(calls[k].ask.category, got)]]
  /\ HandlerOnly

ReadCategory(k) ==
  /\ calls[k].at.category = "unread"
  /\ HasRead(k, [calls[k].at EXCEPT !.category =
                   IF calls[k].ask.category \in onOffer
                   THEN "found" ELSE "missing"])

ReadPolicy(k) ==
  /\ calls[k].at.policy = "unread"
  /\ HasRead(k, [calls[k].at EXCEPT !.policy = PolicyInForce])

\* OsrmRoutingProvider rounds what it is given; RoutingService refuses a route
\* of which nothing is left.
Parsed(road) == [ distance |-> Rounded(1, road.distance, 10),
                  duration |-> Rounded(1, road.duration, 10) ]
Usable(route) == route.distance > 0 /\ route.duration > 0

Priced(q, p, route) ==
  [ fare |-> Fare(Terms[p][q.category], route.distance, route.duration),
    policy |-> p, category |-> q.category, pickup |-> q.pickup,
    destination |-> q.destination,
    distance |-> route.distance, duration |-> route.duration ]

\* The provider has 7 seconds; whatever it does wrong is a 503.
RoutingFails(k) == calls[k].at.phase = "routing" /\ Advance(k, "unavailable")

Routed(k) ==
  LET q == calls[k].ask
  IN /\ calls[k].at.phase = "routing"
     /\ \E road \in Roads[<<q.pickup, q.destination>>] :
          IF ~Usable(Parsed(road)) THEN Advance(k, "unavailable")
          ELSE Yield(k, IF q.kind = "booking" THEN "inserting" ELSE "ok",
                     Priced(q, calls[k].at.policy, Parsed(road)))

\* createRideWithInitialTransition; a key that was taken meanwhile gives the
\* ride it was taken for.  RideDispatch has its failures.
Insert(k) ==
  LET key == calls[k].ask.key
      ride == IF rides[key] # None THEN rides[key]
              ELSE [quote |-> calls[k].result, confirmed |-> calls[k].ask.confirmed]
  IN /\ calls[k].at.phase = "inserting"
     /\ rides' = [rides EXCEPT ![key] = ride]
     /\ calls' = [calls EXCEPT ![k].at.phase = "ok", ![k].result = ride.quote]
     /\ UNCHANGED << live, onOffer, changes, screen, location, options, searching >>

\* findAvailableCategories: the policy, the rated categories, and last whether
\* scheduled rides are on offer.
Rated(p) == {c \in Categories : Terms[p][c] # None}

ReadCatalog(k) ==
  LET got == calls[k].at
  IN /\ calls[k].ask.kind = "catalog"
     /\ \/ /\ got.phase = "start"
           /\ IF PolicyInForce = "missing"
              THEN Yield(k, "ok", [categories |-> {}, scheduled |-> FALSE])
              ELSE /\ calls' = [calls EXCEPT ![k].at.phase = "listing",
                                             ![k].at.policy = PolicyInForce]
                   /\ HandlerOnly
        \/ /\ got.phase = "listing"
           /\ Yield(k, IF Scheduled \in Rated(got.policy) THEN "scheduled" ELSE "ok",
                    [ categories |-> (Rated(got.policy) \cap onOffer) \ {Scheduled},
                      scheduled |-> FALSE ])
        \/ /\ got.phase = "scheduled"
           /\ Yield(k, "ok", [calls[k].result EXCEPT !.scheduled =
                                Scheduled \in onOffer])

Serve(k) ==
  \/ StartPricing(k) \/ ReadCategory(k) \/ ReadPolicy(k)
  \/ RoutingFails(k) \/ Routed(k) \/ Insert(k) \/ ReadCatalog(k)

\* The calls with a handler or with someone waiting.
Underway == {k \in DOMAIN calls : calls[k] # Over}

\* An operator withdraws, adds or replaces the policy, or switches a category.
\* Before the first call it would only be another initial state.
Switch ==
  /\ changes < MaxChanges /\ changes' = changes + 1 /\ Underway # {}
  /\ \/ /\ live' \in (Policies \cup {None}) \ {live}
        /\ UNCHANGED onOffer
     \/ \E c \in Categories :
          /\ onOffer' = IF c \in onOffer THEN onOffer \ {c} ELSE onOffer \cup {c}
          /\ UNCHANGED live
  /\ UNCHANGED << rides, calls, screen, location, options, searching >>

-----------------------------------------------------------------------------
(***************************************************************************)
(* RideOptionsSheet.                                                       *)
(***************************************************************************)

Options ==
  [ id : Keys, pickup : Places, destination : Places,
    loading : BOOLEAN, categoryError : BOOLEAN,
    categories : SUBSET Categories, scheduledEnabled : BOOLEAN,
    category : Categories \cup {None}, isScheduled : BOOLEAN, expired : BOOLEAN,
    estimate : Quote \cup {None}, estimating : BOOLEAN, estimateError : BOOLEAN,
    latest : 0 .. MaxCalls, submitting : BOOLEAN, key : Keys ]

Chosen(sheet) == IF sheet.isScheduled THEN Scheduled ELSE sheet.category

Call(kind, sheet, from) ==
  [ ask |-> [ kind |-> kind, sheet |-> sheet.id, pickup |-> from,
              destination |-> sheet.destination, category |-> Chosen(sheet),
              expired |-> sheet.isScheduled /\ sheet.expired,
              key |-> sheet.key,
              confirmed |-> IF kind = "booking" THEN sheet.estimate ELSE None ],
    at |-> Started, result |-> None, waiting |-> TRUE ]

\* What the sheet waits for finds it unmounted and changes nothing; only the
\* ride of a booking reaches the home screen all the same.
Unmounted(cs) ==
  [k \in DOMAIN cs |->
    IF cs[k] # Over /\ cs[k].ask.kind # "booking" THEN Over ELSE cs[k]]

CanCall == Len(calls) < MaxCalls

\* Bounds the sheets to those that can still make a booking.
CanBook == Len(calls) + 3 <= MaxCalls

\* _loadEstimate of a sheet with its choice made: its number is the place of
\* its call in the sequence.
LoadEstimate(sheet) ==
  /\ CanCall
  /\ options' = [sheet EXCEPT !.estimating = TRUE, !.estimateError = FALSE,
                              !.latest = Len(calls) + 1]
  /\ calls' = Append(calls, Call("estimate", sheet, sheet.pickup))

\* A tap on a choice takes a new key and, if there is a category to price, a new
\* estimate.  A chip that is selected may be tapped again; a payment method only
\* takes a key and is left out.
Choose(sheet) ==
  LET keyed == [sheet EXCEPT !.key = Len(calls) + 1]
  IN /\ IF Chosen(sheet) # None THEN LoadEstimate(keyed)
        ELSE CanCall /\ options' = keyed /\ UNCHANGED calls
     /\ UNCHANGED << server, screen, location, searching >>

ChooseCategory(c) ==
  /\ options # None /\ ~options.loading /\ c \in options.categories
  /\ Choose([options EXCEPT !.category = c])

ChooseSchedule(when) ==
  /\ options # None /\ when # options.isScheduled
  /\ when => options.scheduledEnabled
  /\ Choose([options EXCEPT !.isScheduled = when])

\* _pickScheduledPickup; today's dates offer hours that have passed.
PickTime ==
  /\ options # None /\ options.isScheduled
  /\ \E past \in BOOLEAN : Choose([options EXCEPT !.expired = past])

PickupTimePasses ==
  /\ options # None /\ options.isScheduled /\ ~options.expired
  /\ options' = [options EXCEPT !.expired = TRUE]
  /\ UNCHANGED << server, calls, screen, location, searching >>

RetryEstimate ==
  /\ options # None /\ options.estimateError /\ Chosen(options) # None
  /\ LoadEstimate(options)
  /\ UNCHANGED << server, screen, location, searching >>

RetryCategories ==
  /\ options # None /\ options.categoryError /\ ~options.loading /\ CanCall
  /\ options' = [options EXCEPT !.loading = TRUE, !.categoryError = FALSE]
  /\ calls' = Append(calls, Call("catalog", options, options.pickup))
  /\ UNCHANGED << server, screen, location, searching >>

ConfirmEnabled ==
  /\ options # None /\ ~options.submitting /\ ~options.loading
  /\ options.category # None /\ ~options.estimating /\ options.estimate # None

\* _confirm and _requestRide: the trip is the sheet's, but the pickup is the one
\* of the home screen.
Confirm ==
  /\ ConfirmEnabled /\ CanCall /\ pickup # None
  /\ options' = [options EXCEPT !.submitting = TRUE]
  /\ calls' = Append(calls, Call("booking", options, pickup))
  /\ UNCHANGED << server, screen, location, searching >>

\* The sheet is dismissed.
CloseOptions ==
  /\ options # None /\ options' = None /\ calls' = Unmounted(calls)
  /\ UNCHANGED << server, screen, location, searching >>

-----------------------------------------------------------------------------
(***************************************************************************)
(* What the app makes of an answer.                                        *)
(***************************************************************************)

Answered(k) == calls[k].at.phase \in {"ok"} \cup Refusal

\* The call is finished for the app; what its handler still does matters if it
\* is a booking's.
Heard(k) ==
  [calls EXCEPT ![k] =
     IF @.ask.kind = "booking" /\ ~Answered(k)
     THEN [@ EXCEPT !.waiting = FALSE] ELSE Over]

\* The rest of _loadCategories; a broken connection is no
\* RiderCategoryException and leaves no error, hence no button, on the sheet.
Offering(sheet, scheduled) ==
  [sheet EXCEPT !.scheduledEnabled = scheduled,
                !.isScheduled = @ /\ scheduled, !.expired = @ /\ scheduled]

CatalogHeard(k, ok, broken) ==
  LET loaded == [options EXCEPT !.loading = FALSE]
      catalog == calls[k].result
      empty == [loaded EXCEPT !.categories = {}, !.category = None,
                              !.categoryError = TRUE]
  IN IF broken THEN options' = loaded /\ calls' = Heard(k)
     ELSE IF ~ok THEN options' = empty /\ calls' = Heard(k)
     ELSE IF catalog.categories = {}
     THEN options' = Offering(empty, catalog.scheduled) /\ calls' = Heard(k)
     ELSE \E first \in catalog.categories :
            LET sheet == Offering([loaded EXCEPT
                           !.categories = catalog.categories, !.category = first],
                           catalog.scheduled)
            IN /\ CanCall
               /\ options' = [sheet EXCEPT !.estimating = TRUE,
                    !.estimateError = FALSE, !.latest = Len(calls) + 1]
               /\ calls' = Append(Heard(k), Call("estimate", sheet, sheet.pickup))

\* Mutant: no number check.
AnyEstimateHeard(k, ok) ==
  /\ calls' = Heard(k)
  /\ options' = [options EXCEPT !.estimating = FALSE, !.estimateError = ~ok,
                                !.estimate = IF ok THEN calls[k].result ELSE None]

\* Mutant: the error path forgets that it was estimating.
EstimateHeardIfGood(k, ok) ==
  /\ calls' = Heard(k)
  /\ options' =
       IF k # options.latest THEN options
       ELSE IF ok THEN [options EXCEPT !.estimating = FALSE,
                                       !.estimate = calls[k].result]
       ELSE [options EXCEPT !.estimateError = TRUE, !.estimate = None]

\* The rest of _loadEstimate: only the last number counts.
EstimateHeard(k, ok) ==
  /\ calls' = Heard(k)
  /\ options' =
       IF k # options.latest THEN options
       ELSE [options EXCEPT !.estimating = FALSE, !.estimateError = ~ok,
                            !.estimate = IF ok THEN calls[k].result ELSE None]

\* The rest of _requestRide and of _confirm.
BookingHeard(k, ok) ==
  LET ours == options # None /\ options.id = calls[k].ask.sheet
  IN /\ active' = IF ok THEN calls[k].ask.key ELSE active
     /\ IF ours /\ ok THEN options' = None /\ calls' = Unmounted(Heard(k))
        ELSE /\ options' = IF ours THEN [options EXCEPT !.submitting = FALSE]
                           ELSE options
             /\ calls' = Heard(k)

Hear(k) ==
  \E broken \in BOOLEAN :
    LET ok == ~broken /\ calls[k].at.phase = "ok"
    IN /\ calls[k].waiting /\ (broken \/ Answered(k))
       /\ CASE calls[k].ask.kind = "booking" -> BookingHeard(k, ok)
            [] calls[k].ask.kind = "catalog" ->
                 CatalogHeard(k, ok, broken) /\ UNCHANGED active
            [] calls[k].ask.kind = "estimate" ->
                 EstimateHeard(k, ok) /\ UNCHANGED active
       /\ UNCHANGED << server, pickup, location, searching >>

-----------------------------------------------------------------------------
(***************************************************************************)
(* The home screen.                                                        *)
(***************************************************************************)

\* BookingComposer is shown while there is no ride, under any open sheet.
Composing == active = None /\ search = None /\ options = None

\* _resolveCurrentPickup, at the start and from the retry button.
Locate ==
  /\ Composing /\ locating = "free" /\ pickup = None /\ ~isLocatingPickup
  /\ locating' = "locating" /\ isLocatingPickup' = TRUE
  /\ UNCHANGED << server, calls, screen, options, searching >>

\* The phone has a position, or none; then GET /places/reverse names it.
Located ==
  /\ locating = "locating" /\ locating' = "reversing"
  /\ UNCHANGED << server, calls, screen, isLocatingPickup, options, searching >>

\* RiderPlaceSearchService.reverse: no place outside the city, without an address,
\* or when the provider fails.
Named == Nearby \cup {None}

PickupResolved(place) ==
  /\ locating = "reversing" \/ (locating = "locating" /\ place = None)
  /\ pickup' = place /\ locating' = "free" /\ isLocatingPickup' = FALSE
  /\ UNCHANGED << server, calls, active, options, searching >>

BeginSearch(mode) ==
  /\ Composing /\ CanBook /\ OpenSearch(mode)
  /\ UNCHANGED << server, calls, screen, location, options >>

SearchStep ==
  /\ \/ \E q \in Queries \cup {Short, Empty} : Type(q)
     \/ TimerFires
     \/ RetrySearch
     \/ \E l \in lookups : \E answer \in Found(l.query) : SearchAnswered(l, answer)
     \/ CloseSearch
  /\ UNCHANGED << server, calls, screen, location, options >>

\* The rest of _openPickupSearch.
ChoosePickup(place) ==
  /\ search # None /\ search.mode = "pickup" /\ place \in Offered
  /\ CloseSearch
  /\ pickup' = place /\ isLocatingPickup' = FALSE
  /\ UNCHANGED << server, calls, active, locating, options >>

\* The rest of _openDestinationSearch, and _openRideOptions.
NewOptions(to) ==
  [ id |-> Len(calls) + 1, pickup |-> pickup, destination |-> to,
    loading |-> TRUE, categoryError |-> FALSE,
    categories |-> {}, scheduledEnabled |-> FALSE, category |-> None,
    isScheduled |-> FALSE, expired |-> FALSE, estimate |-> None,
    estimating |-> FALSE, estimateError |-> FALSE, latest |-> 0,
    submitting |-> FALSE, key |-> Len(calls) + 1 ]

ChooseDestination(place) ==
  /\ search # None /\ search.mode = "destination" /\ place \in Offered
  /\ CloseSearch
  /\ IF pickup = None THEN UNCHANGED << calls, options >>
     ELSE /\ CanCall
          /\ options' = NewOptions(place)
          /\ calls' = Append(calls, Call("catalog", NewOptions(place), pickup))
  /\ UNCHANGED << server, pickup, active, location >>

-----------------------------------------------------------------------------
Init ==
  /\ live \in Policies /\ onOffer = Categories /\ changes = 0
  /\ rides = [key \in Keys |-> None] /\ calls = << >>
  /\ pickup = None /\ active = None
  /\ locating = "free" /\ isLocatingPickup = FALSE
  /\ options = None /\ SearchInit

Choices ==
  \/ \E c \in Categories : ChooseCategory(c)
  \/ \E when \in BOOLEAN : ChooseSchedule(when)
  \/ PickTime \/ PickupTimePasses
  \/ RetryEstimate \/ RetryCategories \/ Confirm \/ CloseOptions

Next ==
  \/ \E k \in Underway : Serve(k) \/ Hear(k)
  \/ Switch \/ Choices
  \/ Locate \/ Located
  \/ \E place \in Named : PickupResolved(place)
  \/ \E mode \in Mode : BeginSearch(mode)
  \/ SearchStep
  \/ \E place \in Places : ChoosePickup(place) \/ ChooseDestination(place)

Spec == Init /\ [][Next]_vars

\* A request is served and heard of to the end: the provider's fetch ends after
\* 7 seconds, and a call of the app ends in an answer or a broken connection.
FairSpec ==
  /\ Spec /\ SearchFairness
  /\ \A k \in Keys : WF_vars(k \in Underway /\ (Serve(k) \/ Hear(k)))

-----------------------------------------------------------------------------
TypeOK ==
  /\ live \in Policies \cup {None} /\ onOffer \subseteq Categories
  /\ changes \in 0 .. MaxChanges
  /\ rides \in [Keys -> Ride \cup {None}]
  /\ calls \in Seq({Over} \cup
       [ ask : Request, at : Progress, waiting : BOOLEAN,
         result : Quote \cup Catalog \cup {None} ])
  /\ Len(calls) <= MaxCalls
  /\ pickup \in Places \cup {None} /\ active \in Keys \cup {None}
  /\ locating \in {"free", "locating", "reversing"}
  /\ isLocatingPickup \in BOOLEAN
  /\ options \in Options \cup {None}
  /\ SearchTypeOK

\* While the Confirm button is enabled, the fare above it is of the category and
\* the trip the sheet stands for: an estimate that was asked for before the last
\* change, and answers after it, is not shown.
ConfirmShowsTheChosen ==
  ConfirmEnabled => /\ options.estimate.category = Chosen(options)
                    /\ options.estimate.pickup = options.pickup
                    /\ options.estimate.destination = options.destination

\* The server prices a booking afresh.  What it stores is what the rider
\* confirmed, unless the policy or the route has changed since, or the phone's
\* position came while the sheet was open and replaced the pickup.
FareChangesForAReason ==
  \A key \in Keys : rides[key] # None =>
    LET booked == rides[key].quote
        shown == rides[key].confirmed
    IN \/ booked.fare = shown.fare
       \/ booked.policy # shown.policy
       \/ booked.pickup # shown.pickup
       \/ booked.distance # shown.distance \/ booked.duration # shown.duration

\* The quotes on the screen, in the database and underway.
Quotes ==
  (IF options = None THEN {} ELSE {options.estimate} \ {None})
    \cup {calls[k].result : k \in {i \in DOMAIN calls :
           /\ calls[i] # Over /\ calls[i].result # None
           /\ calls[i].ask.kind # "catalog"}}
    \cup {rides[key].quote : key \in {i \in Keys : rides[i] # None}}

\* A fare keeps to the minimum and the maximum of the policy it names, and of
\* two fares of one policy and category the longer trip's is not the lower.
QuotesKeepThePolicy ==
  \A q \in Quotes :
    /\ q.fare >= Terms[q.policy][q.category].minimumFare
    /\ Terms[q.policy][q.category].maximumFare # NoMaximum =>
         q.fare <= Terms[q.policy][q.category].maximumFare
    /\ \A r \in Quotes :
         (/\ q.policy = r.policy /\ q.category = r.category
          /\ q.distance <= r.distance /\ q.duration <= r.duration)
            => q.fare <= r.fare

\* Whatever is superseded or breaks, the sheets stop estimating and searching, and
\* the rider can go on.
ProgressEnds ==
  /\ (options # None /\ options.estimating)
       ~> (options = None \/ ~options.estimating)
  /\ SearchSettles
=============================================================================
