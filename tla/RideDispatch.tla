---------------------------- MODULE RideDispatch ----------------------------
(***************************************************************************)
(* Bookings and the driver ride loop of the API, with the rows they share  *)
(* in PostgreSQL: apps/api/src/bookings and apps/api/src/drivers.          *)
(*                                                                         *)
(* A session is a client connection with at most one request in flight; an *)
(* account may have several.  A request is a handler cut at its awaits:    *)
(* each action below is what happens between two database statements whose *)
(* order other requests can observe.  Transactions run at the database's   *)
(* default isolation level, READ COMMITTED: a SELECT sees what is          *)
(* committed when it runs, and an UPDATE locks the row until the commit,   *)
(* so an UPDATE is merged with the inserts that follow it up to the commit *)
(* and never with the SELECT before it.                                    *)
(***************************************************************************)
EXTENDS Naturals, Sequences, RideStateMachine

CONSTANTS
  Riders, Drivers,               \* accounts, all of one city
  RiderSessions, DriverSessions, \* client connections
  RiderOf, DriverOf,             \* the account a session is signed in to
  Rides,                         \* ride identifiers, as many as the riders
                                 \* have keys
  Keys,                          \* idempotency keys the rider app generates
  None,                          \* SQL NULL
  MaxClock,                      \* bound on the clock
  MaxTrail                       \* bound: no new change of a ride whose audit
                                 \* trail has this many rows

ASSUME SessionAssumption ==
  /\ RiderOf \in [RiderSessions -> Riders]
  /\ DriverOf \in [DriverSessions -> Drivers]
  /\ RiderSessions \cap DriverSessions = {}

ASSUME NoneAssumption == None \notin Riders \cup Drivers \cup Rides \cup Keys

ASSUME BoundAssumption == MaxClock \in Nat /\ MaxTrail \in Nat

Sessions == RiderSessions \cup DriverSessions

VARIABLES
  ride,     \* the Ride rows
  trail,    \* the RideStateTransition rows of each ride, oldest first
  payment,  \* the PaymentRecord row of each ride
  online,   \* Driver.online
  told,     \* the state carried by the last event published about each ride
  clock,    \* what new Date() returns
  pc, job   \* where each session's request stands and what it has read

rows == << ride, trail, payment >>
vars == << ride, trail, payment, online, told, clock, pc, job >>

-----------------------------------------------------------------------------
(***************************************************************************)
(* Rows, and a request's local variables.                                  *)
(***************************************************************************)

NoRow == "none"   \* the state of a ride that has not been booked

Times == 0 .. MaxClock

\* pickup 0 is a ride to be served at once (scheduledPickupAt is null).
RideRow ==
  [ state : RideState \cup {NoRow}, driver : Drivers \cup {None},
    rider : Riders \cup {None}, key : Keys \cup {None},
    pickup : Times, requestedAt : Times, finalFare : BOOLEAN ]

\* actorId of an automatic transition is the string "dispatch".
Actors == Riders \cup Drivers \cup {"dispatch"}

AuditRow == [ from : RideState \cup {NoRow}, to : RideState, by : Actors ]

PaymentRow == [ status : {NoRow, "pending", "paid"},
                collectedBy : Drivers \cup {None} ]

Step == { "idle", "quote", "insert", "refetch", "check", "write", "decline",
          "claim", "pick", "take", "publish" }

Job == [ ride : Rides \cup {None}, from : RideState \cup {NoRow},
         to : RideState \cup {NoRow}, key : Keys \cup {None},
         pickup : Times, at : Times, seen : Nat ]

\* What a request holds: about a ride, and about a booking or claim.
HasRead(r, from, to) ==
  [ ride |-> r, from |-> from, to |-> to, key |-> None,
    pickup |-> 0, at |-> 0, seen |-> 0 ]

HasStamped(key, pickup, at) ==
  [ ride |-> None, from |-> NoRow, to |-> NoRow, key |-> key,
    pickup |-> pickup, at |-> at, seen |-> 0 ]

NoJob == HasStamped(None, 0, 0)

TypeOK ==
  /\ ride \in [Rides -> RideRow]
  /\ trail \in [Rides -> Seq(AuditRow)]
  /\ payment \in [Rides -> PaymentRow]
  /\ online \in [Drivers -> BOOLEAN]
  /\ told \in [Rides -> RideState \cup {NoRow}]
  /\ clock \in Times
  /\ pc \in [Sessions -> Step]
  /\ job \in [Sessions -> Job]

Init ==
  /\ ride = [r \in Rides |->
               [ state |-> NoRow, driver |-> None, rider |-> None,
                 key |-> None, pickup |-> 0, requestedAt |-> 0,
                 finalFare |-> FALSE ]]
  /\ trail = [r \in Rides |-> << >>]
  /\ payment = [r \in Rides |-> [status |-> NoRow, collectedBy |-> None]]
  /\ online = [d \in Drivers |-> FALSE]
  /\ told = [r \in Rides |-> NoRow]
  /\ clock = 0
  /\ pc = [c \in Sessions |-> "idle"]
  /\ job = [c \in Sessions |-> NoJob]

-----------------------------------------------------------------------------
(***************************************************************************)
(* Shared by the handlers.                                                 *)
(***************************************************************************)

Goto(c, step, local) ==
  /\ pc' = [pc EXCEPT ![c] = step]
  /\ job' = [job EXCEPT ![c] = local]

\* The handler returns or throws; nothing it held is left behind.
Finish(c) == Goto(c, "idle", NoJob)

Audit(r, newRows) == trail' = [trail EXCEPT ![r] = @ \o newRows]

Entry(from, to, by) == [from |-> from, to |-> to, by |-> by]

Room(r) == Len(trail[r]) < MaxTrail

\* findRideForRider and findRideForDriver: the ride, if it is the caller's.
Owns(c, r) ==
  \/ c \in RiderSessions /\ ride[r].rider = RiderOf[c]
  \/ c \in DriverSessions /\ ride[r].driver = DriverOf[c]

\* actorId of an audit row: the caller, or dispatch for payment_pending.
ActorOf(c, to) ==
  IF c \in RiderSessions THEN RiderOf[c]
  ELSE IF to = "payment_pending" THEN "dispatch" ELSE DriverOf[c]

\* The unassigned rides a claim made at time t may take.
Candidates(t) ==
  { r \in Rides : /\ ride[r].state \in waitingRideStates
                  /\ ride[r].driver = None
                  /\ ride[r].pickup <= t }

\* Mutant: an offer does not count as the driver's current ride.
HasAcceptedRide(d) ==
  \E r \in Rides : /\ ride[r].driver = d
                   /\ ride[r].state \in
                        driverActiveRideStates \ {"offered_to_driver"}

\* findActiveRideForDriver.
HasActiveRide(d) ==
  \E r \in Rides : /\ ride[r].driver = d
                   /\ ride[r].state \in driverActiveRideStates

-----------------------------------------------------------------------------
(***************************************************************************)
(* POST /bookings/rides.  A second request with a key the rider has used   *)
(* returns the ride already booked and changes nothing.                    *)
(***************************************************************************)

\* Mutant: the unique index covers the rides still in the pool only.
BookedAndWaiting(rider, key) ==
  { r \in Rides : /\ ride[r].rider = rider /\ ride[r].key = key
                  /\ ride[r].state \in waitingRideStates }

\* findRideByIdempotencyKey, and what the unique index refuses.
Booked(rider, key) ==
  { r \in Rides : ride[r].rider = rider /\ ride[r].key = key }

\* The lookup by idempotency key finds nothing, and a scheduled pickup is
\* required to lie in the future.
CreateRide(c, key) ==
  /\ c \in RiderSessions /\ pc[c] = "idle"
  /\ Booked(RiderOf[c], key) = {}
  /\ \E pickup \in {0} \cup (clock + 1) .. MaxClock :
       Goto(c, "quote", HasStamped(key, pickup, 0))
  /\ UNCHANGED << rows, online, told, clock >>

\* The fare is known, after some time, and the request is stamped.
QuoteRide(c) ==
  /\ pc[c] = "quote"
  /\ Goto(c, "insert", HasStamped(job[c].key, job[c].pickup, clock))
  /\ UNCHANGED << rows, online, told, clock >>

\* One transaction inserts the ride, its first audit row and its payment
\* record; the unique index on (riderId, idempotencyKey) refuses a second ride.
InsertRide(c) ==
  /\ pc[c] = "insert"
  /\ IF Booked(RiderOf[c], job[c].key) # {}
     THEN /\ Goto(c, "refetch", HasStamped(job[c].key, 0, 0))
          /\ UNCHANGED rows
     ELSE \E r \in Rides :
            /\ ride[r].state = NoRow
            /\ ride' = [ride EXCEPT ![r] =
                           [ state |-> "requested", driver |-> None,
                             rider |-> RiderOf[c], key |-> job[c].key,
                             pickup |-> job[c].pickup,
                             requestedAt |-> job[c].at, finalFare |-> FALSE ]]
            /\ Audit(r, << Entry(NoRow, "requested", RiderOf[c]) >>)
            /\ payment' = [payment EXCEPT ![r].status = "pending"]
            /\ Goto(c, "publish", HasRead(r, NoRow, "requested"))
  /\ UNCHANGED << online, told, clock >>

\* The loser of the race reads the winner's ride, in the state it has now, and
\* returns to createRide, which publishes that state.
RefetchRide(c) ==
  /\ pc[c] = "refetch"
  /\ \E r \in Booked(RiderOf[c], job[c].key) :
       Goto(c, "publish", HasRead(r, NoRow, ride[r].state))
  /\ UNCHANGED << rows, online, told, clock >>

-----------------------------------------------------------------------------
(***************************************************************************)
(* Requests that move a ride along the table.  Each reads the ride and     *)
(* asserts the transition, then runs a transaction that looks for the ride *)
(* in the state it read and updates it by its id alone.                    *)
(***************************************************************************)

StartChange(c, r, to) ==
  /\ pc[c] = "idle"
  /\ Owns(c, r)
  /\ canTransitionRideState(ride[r].state, to)
  /\ Room(r)
  /\ Goto(c, "check", HasRead(r, ride[r].state, to))
  /\ UNCHANGED << rows, online, told, clock >>

RiderCancelRide(c, r) ==
  c \in RiderSessions /\ StartChange(c, r, "cancelled_by_rider")

AcceptRide(c, r) == c \in DriverSessions /\ StartChange(c, r, "accepted")

AdvanceRide(c, r) ==
  /\ c \in DriverSessions
  /\ \E to \in driverAdvanceStates : StartChange(c, r, to)

DriverCancelRide(c, r) ==
  c \in DriverSessions /\ StartChange(c, r, "cancelled_by_driver")

\* completeRide first moves the ride to payment_pending; see Publish.
CompleteRide(c, r) ==
  /\ c \in DriverSessions
  /\ ride[r].state = "arrived_at_destination"
  /\ StartChange(c, r, "payment_pending")

\* Mutant: the state read before is left out of the findFirst.
StillOwned(c) == Owns(c, job[c].ride)

\* The WHERE of the transaction's findFirst: id, caller and the state read
\* before.
StillInState(c) ==
  Owns(c, job[c].ride) /\ ride[job[c].ride].state = job[c].from

\* Mutant: the event is published before the transaction has committed.
CheckStateAndTell(c) ==
  /\ pc[c] = "check"
  /\ StillInState(c)
  /\ Goto(c, "write", [job[c] EXCEPT !.seen = Len(trail[job[c].ride])])
  /\ told' = [told EXCEPT ![job[c].ride] = job[c].to]
  /\ UNCHANGED << rows, online, clock >>

CheckState(c) ==
  /\ pc[c] = "check"
  /\ IF StillInState(c)
     THEN Goto(c, "write", [job[c] EXCEPT !.seen = Len(trail[job[c].ride])])
     ELSE Finish(c)
  /\ UNCHANGED << rows, online, told, clock >>

Collect(r, collector) ==
  payment' = IF payment[r].status = "pending"
             THEN [payment EXCEPT ![r] = [status |-> "paid",
                                          collectedBy |-> collector]]
             ELSE payment

\* Mutant: the payment is settled by the move to payment_pending.
SettleEarly(c, r, to) ==
  IF to = "payment_pending" THEN Collect(r, DriverOf[c]) ELSE UNCHANGED payment

\* Mutant: the payment is collected by the actor of the move before.
SettleForDispatch(c, r, to) ==
  IF to = "completed" THEN Collect(r, ActorOf(c, "payment_pending"))
  ELSE UNCHANGED payment

\* A completed ride's pending payment is paid, collected by the driver.
Settle(c, r, to) ==
  IF to = "completed" THEN Collect(r, DriverOf[c]) ELSE UNCHANGED payment

\* The transaction's update by id, its audit row and, on completion, the fare
\* and the payment.
WriteState(c) ==
  LET r == job[c].ride
      to == job[c].to
  IN
  /\ pc[c] = "write"
  /\ ride' = [ride EXCEPT ![r].state = to,
                          ![r].finalFare = @ \/ to = "completed"]
  /\ Audit(r, << Entry(job[c].from, to, ActorOf(c, to)) >>)
  /\ Settle(c, r, to)
  /\ Goto(c, "publish", HasRead(r, NoRow, to))
  /\ UNCHANGED << online, told, clock >>

\* After the commit the handler publishes the state it wrote or read and
\* returns, except that completeRide goes on to its second transaction.
Publish(c) ==
  LET r == job[c].ride IN
  /\ pc[c] = "publish"
  /\ told' = [told EXCEPT ![r] = job[c].to]
  /\ IF c \in DriverSessions /\ job[c].to = "payment_pending"
     THEN Goto(c, "check", HasRead(r, "payment_pending", "completed"))
     ELSE Finish(c)
  /\ UNCHANGED << rows, online, clock >>

-----------------------------------------------------------------------------
(***************************************************************************)
(* POST /driver/rides/:id/decline: one conditional UPDATE.                 *)
(***************************************************************************)

\* The WHERE of the update, which the handler also tests before.
HoldsOffer(c, r) == Owns(c, r) /\ ride[r].state = "offered_to_driver"

DeclineRide(c, r) ==
  /\ c \in DriverSessions /\ pc[c] = "idle"
  /\ HoldsOffer(c, r)
  /\ Room(r)
  /\ Goto(c, "decline", HasRead(r, NoRow, NoRow))
  /\ UNCHANGED << rows, online, told, clock >>

\* Mutant: the update that ends the offer leaves the driver on the ride.
DeclineKeepsDriver(c) ==
  LET r == job[c].ride IN
  /\ pc[c] = "decline" /\ HoldsOffer(c, r)
  /\ ride' = [ride EXCEPT ![r].state = "matching"]
  /\ Audit(r, << Entry("offered_to_driver", "driver_timeout", DriverOf[c]),
                 Entry("driver_timeout", "matching", "dispatch") >>)
  /\ Goto(c, "publish", HasRead(r, NoRow, "matching"))
  /\ UNCHANGED << payment, online, told, clock >>

\* Mutant: the update is made by id, without its WHERE.
DeclineById(c) ==
  LET r == job[c].ride IN
  /\ pc[c] = "decline"
  /\ ride' = [ride EXCEPT ![r].state = "matching", ![r].driver = None]
  /\ Audit(r, << Entry("offered_to_driver", "driver_timeout", DriverOf[c]),
                 Entry("driver_timeout", "matching", "dispatch") >>)
  /\ Goto(c, "publish", HasRead(r, NoRow, "matching"))
  /\ UNCHANGED << payment, online, told, clock >>

DeclineOffer(c) ==
  LET r == job[c].ride IN
  /\ pc[c] = "decline"
  /\ IF HoldsOffer(c, r)
     THEN /\ ride' = [ride EXCEPT ![r].state = "matching", ![r].driver = None]
          /\ Audit(r, << Entry("offered_to_driver", "driver_timeout",
                               DriverOf[c]),
                         Entry("driver_timeout", "matching", "dispatch") >>)
          /\ Goto(c, "publish", HasRead(r, NoRow, "matching"))
     ELSE /\ Finish(c)
          /\ UNCHANGED << ride, trail >>
  /\ UNCHANGED << payment, online, told, clock >>

-----------------------------------------------------------------------------
(***************************************************************************)
(* GET /driver/rides/current.  A driver with an active ride gets that one; *)
(* otherwise a transaction claims the oldest waiting ride: three           *)
(* statements, the last a conditional UPDATE.                              *)
(***************************************************************************)

\* Mutant: the claim is not stamped with the time of the request.
GetCurrentRideUnstamped(c) ==
  /\ c \in DriverSessions /\ pc[c] = "idle"
  /\ ~HasActiveRide(DriverOf[c])
  /\ Goto(c, "claim", NoJob)
  /\ UNCHANGED << rows, online, told, clock >>

\* findActiveRideForDriver finds none.  The claim is stamped here.
GetCurrentRide(c) ==
  /\ c \in DriverSessions /\ pc[c] = "idle"
  /\ ~HasActiveRide(DriverOf[c])
  /\ Goto(c, "claim", HasStamped(None, 0, clock))
  /\ UNCHANGED << rows, online, told, clock >>

ClaimReadDriver(c) ==
  /\ pc[c] = "claim"
  /\ IF online[DriverOf[c]] THEN Goto(c, "pick", job[c]) ELSE Finish(c)
  /\ UNCHANGED << rows, online, told, clock >>

\* Rides stamped alike come in no particular order.
ClaimPick(c) ==
  LET waiting == Candidates(job[c].at) IN
  /\ pc[c] = "pick"
  /\ \/ waiting = {} /\ Finish(c)
     \/ \E r \in waiting :
          /\ \A q \in waiting : ride[r].requestedAt <= ride[q].requestedAt
          /\ Goto(c, "take", HasRead(r, ride[r].state, NoRow))
  /\ UNCHANGED << rows, online, told, clock >>

\* Mutant: the update is made by id, without its WHERE.
Claimed(c, r) == TRUE

\* The WHERE of the update.
StillUnclaimed(c, r) == ride[r].state = job[c].from /\ ride[r].driver = None

\* Mutant: the step through matching is not audited.
ClaimRow(from) == << Entry(from, "offered_to_driver", "dispatch") >>

ClaimRows(from) ==
  LET offered == << Entry("matching", "offered_to_driver", "dispatch") >>
  IN IF from = "requested"
     THEN << Entry("requested", "matching", "dispatch") >> \o offered
     ELSE offered

ClaimTake(c) ==
  LET r == job[c].ride IN
  /\ pc[c] = "take"
  /\ IF StillUnclaimed(c, r)
     THEN /\ ride' = [ride EXCEPT ![r].state = "offered_to_driver",
                                  ![r].driver = DriverOf[c]]
          /\ Audit(r, ClaimRows(job[c].from))
          /\ Goto(c, "publish", HasRead(r, NoRow, "offered_to_driver"))
     ELSE /\ Finish(c)
          /\ UNCHANGED << ride, trail >>
  /\ UNCHANGED << payment, online, told, clock >>

-----------------------------------------------------------------------------
(***************************************************************************)
(* Everything else: the duty switch, time, and failure.                    *)
(***************************************************************************)

\* POST /driver/availability is a single UPDATE; the handler keeps no state.
UpdateAvailability(d, on) ==
  /\ online' = [online EXCEPT ![d] = on]
  /\ UNCHANGED << rows, told, clock, pc, job >>

Tick ==
  /\ clock < MaxClock
  /\ clock' = clock + 1
  /\ UNCHANGED << rows, online, told, pc, job >>

\* A statement fails, the transaction times out or the process stops: an open
\* transaction is rolled back, and what is committed and not yet published
\* never is.
RequestFails(c) ==
  /\ pc[c] # "idle"
  /\ Finish(c)
  /\ UNCHANGED << rows, online, told, clock >>

Begin(c) ==
  \/ \E key \in Keys : CreateRide(c, key)
  \/ \E r \in Rides : \/ RiderCancelRide(c, r)
                      \/ AcceptRide(c, r)
                      \/ AdvanceRide(c, r)
                      \/ DriverCancelRide(c, r)
                      \/ CompleteRide(c, r)
                      \/ DeclineRide(c, r)
  \/ GetCurrentRide(c)

Continue(c) ==
  \/ QuoteRide(c) \/ InsertRide(c) \/ RefetchRide(c)
  \/ CheckState(c) \/ WriteState(c) \/ DeclineOffer(c)
  \/ ClaimReadDriver(c) \/ ClaimPick(c) \/ ClaimTake(c)
  \/ Publish(c)

Next ==
  \/ \E c \in Sessions : Begin(c) \/ Continue(c) \/ RequestFails(c)
  \/ \E d \in Drivers, on \in BOOLEAN : UpdateAvailability(d, on)
  \/ Tick

Spec == Init /\ [][Next]_vars

-----------------------------------------------------------------------------
(***************************************************************************)
(* Properties of every behaviour, however requests overlap or fail.        *)
(***************************************************************************)

\* Every audit row is a move the shared table allows (README: "validated by
\* the shared ride state machine and audited"), the first one the booking, and
\* the ride is in the state its last row leads to, whichever of the three
\* writers of audit rows (booking, claim and decline, state change) came last.
AuditTrail ==
  \A r \in Rides :
    /\ \A i \in DOMAIN trail[r] :
         IF i = 1 THEN trail[r][i].from = NoRow /\ trail[r][i].to = "requested"
         ELSE /\ trail[r][i].from \in RideState
              /\ canTransitionRideState(trail[r][i].from, trail[r][i].to)
    /\ ride[r].state = IF trail[r] = << >> THEN NoRow
                       ELSE trail[r][Len(trail[r])].to

\* A ride in the pool is nobody's, so a claim can find it, and an offered ride
\* is somebody's, so it can be declined: no overlap of claim, decline, cancel
\* and accept strands a ride between the two.
OfferHasDriver ==
  \A r \in Rides :
    /\ ride[r].state \in waitingRideStates => ride[r].driver = None
    /\ ride[r].state = "offered_to_driver" => ride[r].driver # None

Completions(r) == { i \in DOMAIN trail[r] : trail[r][i].to = "completed" }

\* The payment of a ride is collected if and only if the ride was completed,
\* by the driver of its first completion, and the final fare is stamped with
\* it; a second completion, a retry or a stale write never collects again.
Settled ==
  \A r \in Rides :
    /\ ride[r].finalFare <=> Completions(r) # {}
    /\ payment[r].status = "paid" <=> Completions(r) # {}
    /\ payment[r].collectedBy =
         IF Completions(r) = {} THEN None
         ELSE trail[r][CHOOSE i \in Completions(r) :
                         \A j \in Completions(r) : i <= j].by

\* Retries and double taps on "book" with one idempotency key, however they
\* overlap, leave one ride.
OneRidePerKey ==
  \A q, r \in Rides :
    ride[q].key # None /\ ride[q].key = ride[r].key
      /\ ride[q].rider = ride[r].rider => q = r

\* Events tell of states that were committed: no client hears of a state the
\* ride never reached because its transaction failed.
ToldWasCommitted ==
  \A r \in Rides :
    told[r] # NoRow => \E i \in DOMAIN trail[r] : trail[r][i].to = told[r]

\* A ride passes from one driver to another only through the pool: a claim
\* takes a ride nobody has, and only the driver who holds an offer gives it up.
PassesThroughPool ==
  [][\A r \in Rides : ride'[r].driver # ride[r].driver =>
       \/ ride[r].driver = None /\ ride[r].state \in waitingRideStates
       \/ /\ ride'[r].driver = None /\ ride[r].state = "offered_to_driver"
          /\ \E c \in DriverSessions :
               pc[c] = "decline" /\ DriverOf[c] = ride[r].driver]_vars

\* Once accepted or ended, a ride is never matched or offered again, even by a
\* claim or a decline that began before.
NeverRedispatched ==
  [][\A r \in Rides :
       ride[r].state \notin poolRideStates \cup {NoRow}
         => ride'[r].state \notin poolRideStates]_vars

\* The audit trail of a ride is a connected path through the table, each row
\* starting from the state the ride is in, except where a transaction writes
\* after another one has committed since its own findFirst.  That gap between
\* findFirst and update is the only way to lose a state.
OnlyStaleWritesBreakTheTrail ==
  [][\A r \in Rides : trail'[r] # trail[r] =>
       \/ trail'[r][Len(trail[r]) + 1].from = ride[r].state
       \/ \E c \in Sessions : /\ pc[c] = "write" /\ job[c].ride = r
                             /\ job[c].seen < Len(trail[r])]_vars

-----------------------------------------------------------------------------
(***************************************************************************)
(* Properties that depend on whether a driver's requests may overlap.      *)
(***************************************************************************)

SingleSession ==
  \A b, c \in DriverSessions : DriverOf[b] = DriverOf[c] => b = c

\* A driver has at most one active ride: "returns the driver's active ride, or
\* atomically claims the oldest waiting ride" (README, Driver Ride Loop).
OneActiveRide ==
  \A q, r \in Rides :
    /\ ride[q].driver # None /\ ride[q].driver = ride[r].driver
    /\ ride[q].state \in driverActiveRideStates
    /\ ride[r].state \in driverActiveRideStates
    => q = r

\* A ride under way is driven by the driver who accepted it last, unless that
\* driver had also declined it, with another request that overlapped the accept.
DrivenByItsAccepter ==
  \A r \in Rides :
    ride[r].state \in driverActiveRideStates \ {"offered_to_driver"} =>
      \E i \in DOMAIN trail[r] :
        /\ trail[r][i].to = "accepted"
        /\ \A j \in DOMAIN trail[r] : trail[r][j].to = "accepted" => j <= i
        /\ \/ trail[r][i].by = ride[r].driver
           \/ /\ ~SingleSession
              /\ \E j \in 1 .. i - 1 :
                   trail[r][j] = Entry("offered_to_driver", "driver_timeout",
                                       trail[r][i].by)

-----------------------------------------------------------------------------
(***************************************************************************)
(* The rows of a ride, abstracted from the requests that write them.       *)
(***************************************************************************)

Ledger == INSTANCE RideLedger
            WITH state <- [r \in Rides |-> ride[r].state],
                 driver <- [r \in Rides |-> ride[r].driver]

\* Whatever overlaps or fails, the rows of every ride change only by the atomic
\* steps of RideLedger: no other transaction of the API is visible, and no
\* partial one.
ImplementsLedger == Ledger!Spec

-----------------------------------------------------------------------------
(***************************************************************************)
(* Liveness.  The driver app asks GET /driver/rides/current every fifteen  *)
(* seconds while its driver is on duty and no tap is being served, and so  *)
(* again and again; a request may fail, but not at the same statement for  *)
(* ever.                                                                   *)
(***************************************************************************)

PollFairness ==
  \A c \in DriverSessions :
    /\ WF_vars(GetCurrentRide(c))
    /\ SF_vars(ClaimReadDriver(c)) /\ SF_vars(ClaimPick(c))
    /\ SF_vars(ClaimTake(c))
    /\ WF_vars(CheckState(c) \/ WriteState(c) \/ DeclineOffer(c) \/ Publish(c))

PollSpec == Spec /\ PollFairness

\* The rides a claim made now would have to take.
Oldest ==
  { r \in Candidates(clock) :
      \A q \in Candidates(clock) \ {r} :
        ride[r].requestedAt < ride[q].requestedAt }

\* A driver who is on duty and free does not stay so for ever while the oldest
\* waiting ride, scheduled or not, stays in the pool.
OldestIsOffered ==
  \A r \in Rides, d \in Drivers :
    []<>~(r \in Oldest /\ online[d] /\ ~HasActiveRide(d))

-----------------------------------------------------------------------------
(***************************************************************************)
(* A statement of the documents that the code does not keep.               *)
(***************************************************************************)

\* The driver's app asks again for as long as the ride can be completed.
CompletionSpec ==
  /\ PollSpec
  /\ \A c \in DriverSessions, r \in Rides : WF_vars(CompleteRide(c, r))

\* "The ride state machine should tolerate app restarts and temporary network
\* loss" (design, Error Handling): a ride whose payment is due is completed.
PaymentIsFinished ==
  \A r \in Rides : (ride[r].state = "payment_pending")
                     ~> (ride[r].state # "payment_pending")
=============================================================================
