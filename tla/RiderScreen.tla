---------------------------- MODULE RiderScreen -----------------------------
(***************************************************************************)
(* The screen of the rider's app (rider_home_screen.dart,                  *)
(* ride_options_sheet.dart) beside the server.  The app asks for its ride  *)
(* once, when it starts; afterwards it learns of a ride from the answers   *)
(* to its own calls and from socket events, which are published after the  *)
(* commit, lost while the socket is down and ignored while their ride is   *)
(* not on the screen.                                                      *)
(*                                                                         *)
(* A ride is named by the idempotency key it is booked with, and stands    *)
(* for its destination.  Each HTTP handler is one step of the server; see  *)
(* RideDispatch for what happens inside.                                   *)
(***************************************************************************)
EXTENDS RideStateMachine, Naturals, Sequences, FiniteSets

CONSTANTS
  Rides,       \* idempotency keys of this rider
  Visited,     \* the ride states of this instance
  MaxEvents,   \* events published and not yet delivered
  None         \* no card, no destination, no answer

ASSUME
  VisitedAssumption ==
    /\ Visited \subseteq RideState
    /\ { "requested", "cancelled_by_rider" } \subseteq Visited
    /\ None \notin Rides \cup [id : Rides, state : Visited]

ASSUME BoundAssumption == IsFiniteSet(Rides) /\ MaxEvents \in Nat

VARIABLES
  ride,        \* the state of a ride
  bookedAt,    \* the rides booked before this one, as requestedAt
  shown,       \* _activeRide
  destination, \* _destination
  sheet,       \* the key of the open RideOptionsSheet
  booking,     \* by key, the call of _confirm
  cancelling,  \* by ride, the call of _confirmCancelRide
  restoring,   \* the call of _restoreCurrentRide
  pending,     \* events of commits whose handler has not published yet
  connected,   \* the socket is joined to the rider's room
  events,      \* what the socket still has to deliver
  doubt        \* kept for checking: the cards that were not told everything

server == << ride, bookedAt >>
screen == << shown, destination, sheet >>
calls == << booking, cancelling, restoring >>
network == << pending, connected, events >>
vars == << ride, bookedAt, shown, destination, sheet, booking, cancelling,
           restoring, pending, connected, events, doubt >>

NotBooked == "not_booked"

\* _terminalRideStates of the app; booking.types.ts has the same list.
terminalRideStates ==
  { "completed", "cancelled_by_rider", "cancelled_by_driver",
    "cancelled_by_admin", "no_show", "disputed" }

Card == [id : Rides, state : Visited]
NoCall == [phase |-> "free", card |-> None]
Phase == {"free", "asked", "answered"}
NoDoubt == [ screen |-> FALSE, booking |-> [r \in Rides |-> FALSE],
             restoring |-> FALSE ]

TypeOK ==
  /\ ride \in [Rides -> Visited \cup {NotBooked}]
  /\ bookedAt \in [Rides -> 0 .. Cardinality(Rides)]
  /\ shown \in Card \cup {None}
  /\ destination \in Rides \cup {None} /\ sheet \in Rides \cup {None}
  /\ booking \in [Rides -> [phase : Phase, card : Card \cup {None}]]
  /\ cancelling \in [Rides -> Phase]
  /\ restoring \in [phase : Phase, card : Card \cup {None}]
  /\ pending \in Seq(Card) /\ events \in Seq(Card)
  /\ Len(pending) + Len(events) <= MaxEvents
  /\ connected \in BOOLEAN
  /\ doubt \in [ screen : BOOLEAN, booking : [Rides -> BOOLEAN],
                 restoring : BOOLEAN ]

Init ==
  /\ ride = [r \in Rides |-> NotBooked]
  /\ bookedAt = [r \in Rides |-> 0]
  /\ shown = None /\ destination = None /\ sheet = None
  /\ booking = [r \in Rides |-> NoCall]
  /\ cancelling = [r \in Rides |-> "free"]
  /\ restoring = [NoCall EXCEPT !.phase = "asked"]
  /\ pending = << >> /\ events = << >> /\ connected = FALSE
  /\ doubt = NoDoubt

-----------------------------------------------------------------------------
(***************************************************************************)
(* What the screen says, and what leaves it uninformed.                    *)
(***************************************************************************)

\* _heading of ActiveRidePanel.
Heading(state) ==
  CASE state = "accepted" -> "Driver accepted your ride"
    [] state = "driver_en_route_to_pickup" -> "Driver is on the way"
    [] state = "arrived_at_pickup" -> "Driver has arrived"
    [] state \in {"rider_onboarded", "in_progress"} -> "Ride in progress"
    [] state = "arrived_at_destination" -> "Arrived at destination"
    [] state = "payment_pending" -> "Payment pending"
    [] OTHER -> "Finding your driver"

\* What an event makes of the card of its ride.
Effect(state) ==
  IF state \in terminalRideStates THEN "taken off" ELSE Heading(state)

\* The places of the events about r.
About(r, es) == {i \in DOMAIN es : es[i].id = r}

\* The last thing a card of r in this state will have been told, when all that
\* is underway has arrived.
LastWord(r, state) ==
  LET es == events \o pending
      mine == About(r, es)
  IN IF mine = {} THEN state
     ELSE es[CHOOSE i \in mine : \A j \in mine : j <= i].state

\* The answers in flight and the card on the screen that are in doubt now that
\* these cards are uninformed.
Doubt(uninformed) ==
  [ screen |-> doubt.screen \/ shown \in uninformed,
    booking |-> [r \in Rides |-> doubt.booking[r] \/ booking[r].card \in uninformed],
    restoring |-> doubt.restoring \/ restoring.card \in uninformed ]

\* This card would have been changed by the event.
Missed(e, card) ==
  card.id = e.id /\ Effect(card.state) # Effect(e.state)

\* An answer given now, before older events arrive or about a ride that is
\* over, does not keep the screen right.
Doubtful(r, state) ==
  \/ state \in terminalRideStates
  \/ Effect(LastWord(r, state)) # Effect(state)

-----------------------------------------------------------------------------
(***************************************************************************)
(* The app.                                                                *)
(***************************************************************************)

\* A destination is chosen on BookingComposer and the options open for it, with
\* a key no ride has been booked with.
OpenSheet(r) ==
  /\ shown = None /\ sheet = None
  /\ ride[r] = NotBooked /\ booking[r] = NoCall
  /\ destination' = r /\ sheet' = r
  /\ UNCHANGED << server, shown, calls, network, doubt >>

\* Also while it is submitting: the call goes on.
DismissSheet ==
  /\ sheet # None
  /\ sheet' = None
  /\ UNCHANGED << server, shown, destination, calls, network, doubt >>

\* _isSubmitting disables the button of this sheet only.  A booking that
\* failed is retried with the same key.
Confirm ==
  /\ sheet # None /\ booking[sheet] = NoCall
  /\ booking' = [booking EXCEPT ![sheet].phase = "asked"]
  /\ UNCHANGED << server, screen, cancelling, restoring, network, doubt >>

BookingAnswered(r) ==
  /\ booking[r].phase = "answered"
  /\ shown' = booking[r].card
  /\ doubt' = [doubt EXCEPT !.screen = doubt.booking[r],
                            !.booking[r] = FALSE]
  /\ sheet' = IF sheet = r THEN None ELSE sheet
  /\ booking' = [booking EXCEPT ![r] = NoCall]
  /\ UNCHANGED << server, destination, cancelling, restoring, network >>

BookingFails(r) ==
  /\ booking[r] # NoCall
  /\ booking' = [booking EXCEPT ![r] = NoCall]
  /\ doubt' = [doubt EXCEPT !.booking[r] = FALSE]
  /\ UNCHANGED << server, screen, cancelling, restoring, network >>

\* The button of ActiveRidePanel, behind an open sheet out of reach.
Cancel ==
  /\ shown # None /\ sheet = None /\ cancelling[shown.id] = "free"
  /\ cancelling' = [cancelling EXCEPT ![shown.id] = "asked"]
  /\ UNCHANGED << server, screen, booking, restoring, network, doubt >>

\* The answer clears whatever is on the screen by now.
CancelAnswered(r) ==
  /\ cancelling[r] = "answered"
  /\ shown' = None /\ destination' = None
  /\ doubt' = [doubt EXCEPT !.screen = FALSE]
  /\ cancelling' = [cancelling EXCEPT ![r] = "free"]
  /\ UNCHANGED << server, sheet, booking, restoring, network >>

\* Refused, failed or never answered.
CancelFails(r) ==
  /\ cancelling[r] # "free"
  /\ cancelling' = [cancelling EXCEPT ![r] = "free"]
  /\ UNCHANGED << server, screen, booking, restoring, network, doubt >>

\* _restoreCurrentRide, asked for by initState only.
RestoreAnswered ==
  /\ restoring.phase = "answered"
  /\ IF restoring.card = None
     THEN UNCHANGED << shown, destination, doubt >>
     ELSE /\ shown' = restoring.card /\ destination' = restoring.card.id
          /\ doubt' = [doubt EXCEPT !.screen = doubt.restoring,
                                    !.restoring = FALSE]
  /\ restoring' = NoCall
  /\ UNCHANGED << server, sheet, booking, cancelling, network >>

RestoreFails ==
  /\ restoring # NoCall
  /\ restoring' = NoCall
  /\ doubt' = [doubt EXCEPT !.restoring = FALSE]
  /\ UNCHANGED << server, screen, booking, cancelling, network >>

\* Mutant: the rider's own cancellation is left to the answer of the call.
DeliverOthersOnly ==
  /\ events # << >>
  /\ LET e == Head(events)
         here == /\ shown # None /\ shown.id = e.id
                 /\ e.state # "cancelled_by_rider"
         over == e.state \in terminalRideStates
     IN
     /\ shown' = IF ~here THEN shown ELSE IF over THEN None ELSE e
     /\ destination' = IF here /\ over THEN None ELSE destination
     /\ doubt' = [Doubt({card \in Card : Missed(e, card)}) EXCEPT
                    !.screen = doubt.screen /\ shown' # None]
  /\ events' = Tail(events)
  /\ UNCHANGED << server, sheet, calls, pending, connected >>

\* _onRideStateChanged: an event about a ride that is not on the screen is
\* ignored, and kept for nobody.
Deliver ==
  /\ events # << >>
  /\ LET e == Head(events)
         here == shown # None /\ shown.id = e.id
         over == e.state \in terminalRideStates
     IN
     /\ shown' = IF ~here THEN shown ELSE IF over THEN None ELSE e
     /\ destination' = IF here /\ over THEN None ELSE destination
     /\ doubt' = [Doubt({card \in Card : Missed(e, card)}) EXCEPT
                    !.screen = doubt.screen /\ shown' # None]
  /\ events' = Tail(events)
  /\ UNCHANGED << server, sheet, calls, pending, connected >>

\* The app is closed and opened again.  Its calls in flight are lost: they
\* have been served before or are not served at all.
Restart ==
  /\ shown' = None /\ destination' = None /\ sheet' = None
  /\ booking' = [r \in Rides |-> NoCall]
  /\ cancelling' = [r \in Rides |-> "free"]
  /\ restoring' = [NoCall EXCEPT !.phase = "asked"]
  /\ connected' = FALSE /\ events' = << >> /\ doubt' = NoDoubt
  /\ UNCHANGED << server, pending >>

-----------------------------------------------------------------------------
(***************************************************************************)
(* The server.                                                             *)
(***************************************************************************)

HasRoom == Len(pending) + Len(events) < MaxEvents

\* POST /rides: a new ride, or the one booked with this key before.  A retry
\* that raced with the first request publishes the ride it was handed.
ServeBooking(r) ==
  /\ booking[r].phase = "asked"
  /\ \/ /\ ride[r] = NotBooked /\ HasRoom
        /\ ride' = [ride EXCEPT ![r] = "requested"]
        /\ bookedAt' = [bookedAt EXCEPT ![r] =
             Cardinality({ q \in Rides : ride[q] # NotBooked })]
        /\ pending' = Append(pending, [id |-> r, state |-> "requested"])
        /\ UNCHANGED doubt
     \/ /\ ride[r] # NotBooked
        /\ doubt' = [doubt EXCEPT !.booking[r] = Doubtful(r, ride[r])]
        /\ \/ UNCHANGED pending
           \/ /\ HasRoom
              /\ pending' = Append(pending, [id |-> r, state |-> ride[r]])
        /\ UNCHANGED server
  /\ booking' = [booking EXCEPT ![r] =
       [phase |-> "answered", card |-> [id |-> r, state |-> ride'[r]]]]
  /\ UNCHANGED << screen, cancelling, restoring, connected, events >>

Commit(r, to) ==
  /\ ride' = [ride EXCEPT ![r] = to]
  /\ pending' = Append(pending, [id |-> r, state |-> to])

\* POST /rides/:id/cancel.
ServeCancel(r) ==
  /\ cancelling[r] = "asked" /\ ride[r] # NotBooked /\ HasRoom
  /\ canTransitionRideState(ride[r], "cancelled_by_rider")
  /\ Commit(r, "cancelled_by_rider")
  /\ cancelling' = [cancelling EXCEPT ![r] = "answered"]
  /\ UNCHANGED << bookedAt, screen, booking, restoring, connected, events,
                  doubt >>

Open == { r \in Rides : ride[r] \notin terminalRideStates \cup {NotBooked} }

\* GET /rides/current: the open ride that was requested last; no ride of this
\* model is scheduled for later.
ServeRestore ==
  /\ restoring.phase = "asked"
  /\ \/ /\ Open = {}
        /\ restoring' = [phase |-> "answered", card |-> None]
        /\ UNCHANGED doubt
     \/ \E r \in Open :
          /\ \A q \in Open : bookedAt[q] <= bookedAt[r]
          /\ restoring' = [ phase |-> "answered",
                            card |-> [id |-> r, state |-> ride[r]] ]
          /\ doubt' = [doubt EXCEPT !.restoring = Doubtful(r, ride[r])]
  /\ UNCHANGED << server, screen, booking, cancelling, network >>

\* A claim changes the state and publishes no ride.state_changed.
Claimed(r) ==
  /\ ride[r] \in waitingRideStates /\ "offered_to_driver" \in Visited
  /\ ride' = [ride EXCEPT ![r] = "offered_to_driver"]
  /\ UNCHANGED << bookedAt, screen, calls, network, doubt >>

\* What the driver of the ride may make of it; a declined offer returns to the
\* pool.
DriverTargets(from) ==
  IF from = "offered_to_driver" THEN { "accepted", "matching" }
  ELSE transitions[from] \cap
         (driverAdvanceStates \cup
            { "payment_pending", "completed", "cancelled_by_driver" })

DriverMoves(r) ==
  /\ ride[r] # NotBooked /\ HasRoom
  /\ \E to \in Visited \cap DriverTargets(ride[r]) : Commit(r, to)
  /\ UNCHANGED << bookedAt, screen, calls, connected, events, doubt >>

-----------------------------------------------------------------------------
(***************************************************************************)
(* Events.                                                                 *)
(***************************************************************************)

Without(s, i) == SubSeq(s, 1, i - 1) \o SubSeq(s, i + 1, Len(s))

\* Mutant: the handler publishes again when it is resumed again.
PublishAgain(i) ==
  /\ events' = IF connected THEN Append(events, pending[i]) ELSE events
  /\ UNCHANGED << server, screen, calls, pending, connected, doubt >>

\* Handlers publish when they resume, not in the order of their commits.  The
\* push that is sent to an empty room shows a text and nothing else.
Publish(i) ==
  LET e == pending[i]
      overtakes == About(e.id, SubSeq(pending, 1, i - 1)) # {}
  IN
  /\ pending' = Without(pending, i)
  /\ events' = IF connected THEN Append(events, e) ELSE events
  /\ doubt' = Doubt({card \in Card :
       (overtakes /\ card.id = e.id) \/ (~connected /\ Missed(e, card))})
  /\ UNCHANGED << server, screen, calls, connected >>

\* The API stops between commit and publication.  What was published before
\* is now the last word.
PublishFails(i) ==
  LET e == pending[i]
      older == About(e.id, events \o SubSeq(pending, 1, i - 1)) # {}
  IN
  /\ pending' = Without(pending, i)
  /\ doubt' = Doubt({card \in Card : (older /\ card.id = e.id) \/ Missed(e, card)})
  /\ UNCHANGED << server, screen, calls, connected, events >>

Connect ==
  /\ ~connected
  /\ connected' = TRUE
  /\ UNCHANGED << server, screen, calls, pending, events, doubt >>

\* What the socket holds is lost and not sent again after a reconnection.
Disconnect ==
  /\ connected
  /\ connected' = FALSE /\ events' = << >>
  /\ doubt' = Doubt({card \in Card :
       \E i \in DOMAIN events : Missed(events[i], card)})
  /\ UNCHANGED << server, screen, calls, pending >>

Next ==
  \/ DismissSheet \/ Confirm \/ Cancel \/ RestoreAnswered \/ RestoreFails
  \/ Deliver \/ Restart \/ ServeRestore \/ Connect \/ Disconnect
  \/ \E r \in Rides :
       \/ OpenSheet(r) \/ BookingAnswered(r) \/ BookingFails(r)
       \/ CancelAnswered(r) \/ CancelFails(r) \/ ServeBooking(r)
       \/ ServeCancel(r) \/ Claimed(r) \/ DriverMoves(r)
  \/ \E i \in DOMAIN pending : Publish(i) \/ PublishFails(i)

Spec == Init /\ [][Next]_vars

-----------------------------------------------------------------------------
(***************************************************************************)
(* Properties.                                                             *)
(***************************************************************************)

\* The screen tells the phase its ride is in, or the event that will make it
\* do so, or take it off the screen, is underway.  The only exceptions are the
\* cards in doubt: an event was lost with the connection or with the API, was
\* overtaken by a younger one, or was delivered between the answer and its
\* arrival; or a booking was retried when its ride was already over.
ScreenIsInformed ==
  shown # None /\ ~doubt.screen =>
    /\ shown.state \notin terminalRideStates
    /\ Effect(LastWord(shown.id, shown.state)) = Effect(ride[shown.id])

=============================================================================
