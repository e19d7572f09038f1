---------------------------- MODULE DriverScreen ----------------------------
(***************************************************************************)
(* The screen of the driver's app (driver_home_screen.dart) beside the     *)
(* server it mirrors.  The app learns of its ride from the answers to its  *)
(* polls and taps, which may overlap and be late, and from socket events,  *)
(* which may be lost.                                                      *)
(*                                                                         *)
(* Each HTTP handler is one step of the server: what its statements do to  *)
(* one another is the subject of RideDispatch.  A call is asked, served    *)
(* and answered in three steps.  Errors, refusals and answers that never   *)
(* come all end a call the same way, with a text on the screen, and are    *)
(* one action.                                                             *)
(***************************************************************************)
EXTENDS RideStateMachine, Naturals, Sequences

CONSTANTS
  Rides,      \* rides of the driver's city
  Polls,      \* polls of one app that may be in flight together
  MaxEvents,  \* events a socket holds
  None        \* no ride, no card

ASSUME NoneAssumption == None \notin Rides
ASSUME BoundAssumption == MaxEvents \in Nat

VARIABLES
  ride,       \* the row of a ride: its state, and whether it is this driver's
  duty,       \* Driver.online
  online,     \* _online
  shown,      \* _ride, the card on the screen
  summary,    \* _completedRide is set
  tap,        \* the call _guard is waiting for; free while ~_isBusy
  poll,       \* the polls in flight and their answers
  connected,  \* the socket is joined to the driver's room
  events      \* what the socket still has to deliver

server == << ride, duty >>
socket == << connected, events >>
vars == << ride, duty, online, shown, summary, tap, poll, connected, events >>

Card == [id : Rides, state : driverActiveRideStates]
Row == [state : RideState, mine : BOOLEAN]
Event == [type : {"ride.offer", "cancelled_by_rider"}, ride : Rides]

\* The buttons of _RideCard.  A call of POST /advance is named by its target.
buttons ==
  [ offered_to_driver |-> { "accept", "decline" },
    accepted |-> { "driver_en_route_to_pickup", "cancel" },
    driver_en_route_to_pickup |-> { "arrived_at_pickup", "cancel" },
    arrived_at_pickup |-> { "rider_onboarded", "cancel" },
    rider_onboarded |-> { "in_progress" },
    in_progress |-> { "arrived_at_destination" },
    arrived_at_destination |-> { "complete" },
    payment_pending |-> {} ]

Call == { "on", "off", "refresh", "accept", "decline", "cancel", "complete" }
          \cup driverAdvanceStates

Free == [phase |-> "free", card |-> None]
NoTap == [call |-> None, ride |-> None, phase |-> "free", card |-> None]

TypeOK ==
  /\ ride \in [Rides -> Row]
  /\ duty \in BOOLEAN /\ online \in BOOLEAN /\ summary \in BOOLEAN
  /\ shown \in Card \cup {None}
  /\ tap \in { NoTap } \cup
       [ call : Call, ride : Rides \cup {None},
         phase : {"asked", "answered"}, card : Card \cup {None} ]
  /\ poll \in [Polls -> { Free } \cup
       [phase : {"asked", "answered"}, card : Card \cup {None}]]
  /\ connected \in BOOLEAN
  /\ events \in Seq(Event) /\ Len(events) <= MaxEvents

Init ==
  /\ ride = [r \in Rides |-> [state |-> "requested", mine |-> FALSE]]
  /\ duty = FALSE /\ online = FALSE /\ summary = FALSE
  /\ shown = None /\ tap = NoTap
  /\ poll = [p \in Polls |-> Free]
  /\ connected = FALSE /\ events = << >>

busy == tap.phase # "free"

-----------------------------------------------------------------------------
(***************************************************************************)
(* The app.                                                                *)
(***************************************************************************)

\* A call made under _guard.
Guarded(call, r) ==
  tap' = [call |-> call, ride |-> r, phase |-> "asked", card |-> None]

\* The duty switch.
SetOnline ==
  /\ ~busy
  /\ Guarded(IF online THEN "off" ELSE "on", None)
  /\ UNCHANGED << server, online, shown, summary, poll, socket >>

\* A button of the card, which is hidden off duty and behind the summary.
Tap ==
  /\ ~busy /\ online /\ ~summary /\ shown # None
  /\ \E call \in buttons[shown.state] : Guarded(call, shown.id)
  /\ UNCHANGED << server, online, shown, summary, poll, socket >>

DismissSummary ==
  /\ summary
  /\ summary' = FALSE
  /\ UNCHANGED << server, online, shown, tap, poll, socket >>

Ask(p) == /\ poll[p] = Free
          /\ poll' = [poll EXCEPT ![p].phase = "asked"]

\* The timer runs on duty; a tick during a guarded call does nothing.  Polls
\* are not awaited, so the next one may be sent before this one is answered.
PollTimer ==
  /\ online /\ ~busy
  /\ \E p \in Polls : Ask(p)
  /\ UNCHANGED << server, online, shown, summary, tap, socket >>

\* Mutant: an answer without a ride leaves the card on the screen.
RefreshKeepingCard(p) ==
  /\ poll[p].phase = "answered"
  /\ shown' = IF poll[p].card = None THEN shown ELSE poll[p].card
  /\ poll' = [poll EXCEPT ![p] = Free]
  /\ UNCHANGED << server, online, summary, tap, socket >>

\* The answer of a poll goes on the screen whatever has happened since.
RefreshRide(p) ==
  /\ poll[p].phase = "answered"
  /\ shown' = poll[p].card
  /\ poll' = [poll EXCEPT ![p] = Free]
  /\ UNCHANGED << server, online, summary, tap, socket >>

PollFails(p) ==
  /\ poll[p] # Free
  /\ poll' = [poll EXCEPT ![p] = Free]
  /\ UNCHANGED << server, online, shown, summary, tap, socket >>

\* The answer of a guarded call.  Going on duty goes on to a first refresh,
\* under the same guard.
TapAnswered ==
  /\ tap.phase = "answered"
  /\ online' = IF tap.call \in {"on", "off"} THEN tap.call = "on" ELSE online
  /\ summary' = IF tap.call \in {"on", "off"} THEN FALSE
                ELSE summary \/ tap.call = "complete"
  /\ IF tap.call = "on"
     THEN Guarded("refresh", None) /\ UNCHANGED shown
     ELSE tap' = NoTap /\ shown' = tap.card
  /\ UNCHANGED << server, poll, socket >>

TapFails ==
  /\ busy
  /\ tap' = NoTap
  /\ UNCHANGED << server, online, shown, summary, poll, socket >>

\* ride.offer only prompts a refresh, ride.state_changed only matters when the
\* rider has cancelled the ride on the screen.
Deliver ==
  /\ events # << >>
  /\ events' = Tail(events)
  /\ IF Head(events).type = "ride.offer"
     THEN /\ UNCHANGED shown
          /\ IF online /\ ~busy THEN \E p \in Polls : Ask(p)
             ELSE UNCHANGED poll
     ELSE /\ UNCHANGED poll
          /\ shown' = IF shown # None /\ shown.id = Head(events).ride
                      THEN None ELSE shown
  /\ UNCHANGED << server, online, summary, tap, connected >>

\* The app is closed and opened again.  A call in flight is lost: it has been
\* served before or is not served at all.
Restart ==
  /\ online' = FALSE /\ summary' = FALSE /\ shown' = None /\ tap' = NoTap
  /\ poll' = [p \in Polls |-> Free]
  /\ connected' = FALSE /\ events' = << >>
  /\ UNCHANGED server

-----------------------------------------------------------------------------
(***************************************************************************)
(* The server.                                                             *)
(***************************************************************************)

\* DriverRealtimeGateway.  An event sent to nobody, to a dead socket or to a
\* full one is lost; the push sent instead shows a text and nothing else.
Emit(type, r) ==
  \/ UNCHANGED events
  \/ /\ connected /\ Len(events) < MaxEvents
     /\ events' = Append(events, [type |-> type, ride |-> r])

Mine == { r \in Rides : /\ ride[r].mine
                        /\ ride[r].state \in driverActiveRideStates }

CardOf(r) == [id |-> r, state |-> ride[r].state]

\* GET /driver/rides/current: the active ride, or one that is claimed now, or
\* none; a claim may also lose its ride to another driver.  Which of the
\* waiting rides is taken makes no difference here.
CurrentRide(card) ==
  \/ \E r \in Mine : card = CardOf(r) /\ UNCHANGED << ride, events >>
  \/ /\ Mine = {} /\ duty
     /\ \E r \in Rides :
          /\ ride[r].state \in waitingRideStates
          /\ ride' = [ride EXCEPT ![r] = [ state |-> "offered_to_driver",
                                           mine |-> TRUE ]]
          /\ Emit("ride.offer", r)
          /\ card = [id |-> r, state |-> "offered_to_driver"]
  \/ Mine = {} /\ card = None /\ UNCHANGED << ride, events >>

Answers == Card \cup {None}

ServePoll(p) ==
  /\ poll[p].phase = "asked"
  /\ \E card \in Answers :
       /\ CurrentRide(card)
       /\ poll' = [poll EXCEPT ![p] = [phase |-> "answered", card |-> card]]
  /\ UNCHANGED << duty, online, shown, summary, tap, connected >>

\* The state a button moves the ride to.
Target(call) ==
  CASE call = "accept" -> "accepted"
    [] call = "decline" -> "matching"
    [] call = "cancel" -> "cancelled_by_driver"
    [] call = "complete" -> "completed"
    [] OTHER -> call

\* A declined offer passes through driver_timeout, a completed ride through
\* payment_pending.
Allowed(r, call) ==
  /\ ride[r].mine
  /\ CASE call = "decline" -> ride[r].state = "offered_to_driver"
       [] call = "complete" -> ride[r].state = "arrived_at_destination"
       [] OTHER -> canTransitionRideState(ride[r].state, Target(call))

\* Mutant: whatever the button did, the ride it returns is shown.
MoveMineAndShow(call, r) ==
  /\ Allowed(r, call)
  /\ ride' = [ride EXCEPT ![r] = [ state |-> Target(call),
                                   mine |-> call # "decline" ]]
  /\ tap' = [tap EXCEPT !.phase = "answered",
                        !.card = [id |-> r, state |-> Target(call)]]
  /\ UNCHANGED << duty, events >>

MoveMine(call, r) ==
  /\ Allowed(r, call)
  /\ ride' = [ride EXCEPT ![r] = [ state |-> Target(call),
                                   mine |-> call # "decline" ]]
  /\ tap' = [tap EXCEPT !.phase = "answered",
       !.card = IF call \in {"decline", "cancel", "complete"} THEN None
                ELSE [id |-> r, state |-> Target(call)]]
  /\ UNCHANGED << duty, events >>

\* What the handler of a guarded call does if it does not refuse.
ServeTap ==
  /\ tap.phase = "asked"
  /\ \/ /\ tap.call \in {"on", "off"}
        /\ duty' = (tap.call = "on")
        /\ tap' = [tap EXCEPT !.phase = "answered"]
        /\ UNCHANGED << ride, events >>
     \/ /\ tap.call = "refresh"
        /\ \E card \in Answers :
             /\ CurrentRide(card)
             /\ tap' = [tap EXCEPT !.phase = "answered", !.card = card]
        /\ UNCHANGED duty
     \/ tap.ride # None /\ MoveMine(tap.call, tap.ride)
  /\ UNCHANGED << online, shown, summary, poll, connected >>

\* A completion that fails after its first transaction.
HalfComplete ==
  /\ tap.phase = "asked" /\ tap.call = "complete"
  /\ Allowed(tap.ride, "complete")
  /\ ride' = [ride EXCEPT ![tap.ride].state = "payment_pending"]
  /\ UNCHANGED << duty, online, shown, summary, tap, poll, socket >>

-----------------------------------------------------------------------------
(***************************************************************************)
(* Riders, other drivers and the network.                                  *)
(***************************************************************************)

RiderCancels(r) ==
  /\ canTransitionRideState(ride[r].state, "cancelled_by_rider")
  /\ ride' = [ride EXCEPT ![r].state = "cancelled_by_rider"]
  /\ IF ride[r].mine THEN Emit("cancelled_by_rider", r)
     ELSE UNCHANGED events
  /\ UNCHANGED << duty, online, shown, summary, tap, poll, connected >>

\* Another driver is offered the ride, declines it or accepts it.
OtherDriver(r) ==
  /\ ~ride[r].mine
  /\ \/ /\ ride[r].state \in waitingRideStates
        /\ ride' = [ride EXCEPT ![r].state = "offered_to_driver"]
     \/ /\ ride[r].state = "offered_to_driver"
        /\ \E to \in {"matching", "accepted"} :
             ride' = [ride EXCEPT ![r].state = to]
  /\ UNCHANGED << duty, online, shown, summary, tap, poll, socket >>

\* handleConnection; socket.io reconnects by itself and keeps nothing.
Connect ==
  /\ ~connected
  /\ connected' = TRUE
  /\ UNCHANGED << server, online, shown, summary, tap, poll, events >>

Disconnect ==
  /\ connected
  /\ connected' = FALSE /\ events' = << >>
  /\ UNCHANGED << server, online, shown, summary, tap, poll >>

Next ==
  \/ SetOnline \/ Tap \/ DismissSummary \/ PollTimer \/ TapAnswered \/ TapFails
  \/ Deliver \/ Restart \/ ServeTap \/ HalfComplete \/ Connect \/ Disconnect
  \/ \E p \in Polls : RefreshRide(p) \/ PollFails(p) \/ ServePoll(p)
  \/ \E r \in Rides : RiderCancels(r) \/ OtherDriver(r)

\* The timer keeps ticking and does not always meet a tap; a guarded call is
\* answered or fails; and not every poll fails.  Nothing is assumed of the
\* socket, the driver, the rider or other drivers.
Fairness ==
  /\ SF_vars(PollTimer)
  /\ WF_vars(ServeTap \/ TapAnswered \/ TapFails)
  /\ \A p \in Polls : SF_vars(ServePoll(p)) /\ SF_vars(RefreshRide(p))

Spec == Init /\ [][Next]_vars /\ Fairness

-----------------------------------------------------------------------------
(***************************************************************************)
(* Properties.                                                             *)
(***************************************************************************)

\* What the server would answer now, short of a claim.
CurrentCard == IF Mine = {} THEN None ELSE CardOf(CHOOSE r \in Mine : TRUE)

\* "Fallback poll interval while a ride is active/offline of the socket": the
\* polls alone keep the screen right.  Once the driver stays on duty in the
\* app and the server's answer no longer changes, the card on the screen is
\* that answer, and stays so, although late answers of polls and taps go on
\* the screen in any order and every event may have been lost.
ScreenCatchesUp ==
  <>[]online /\ <>[][CurrentCard' = CurrentCard]_vars
    => <>[](shown = CurrentCard)
=============================================================================
