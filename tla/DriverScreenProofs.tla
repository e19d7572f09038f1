------------------------- MODULE DriverScreenProofs -------------------------
(***************************************************************************)
(* What DriverScreen keeps for any rides, any number of polls in flight    *)
(* and any number of events on the socket: its types.  That its screen     *)
(* catches up with the server is a property of fairness.                   *)
(***************************************************************************)
EXTENDS DriverScreen, TLAPS

Called == [phase : {"asked", "answered"}, card : Card \cup {None}]
Tapped == [ call : Call, ride : Rides \cup {None},
            phase : {"asked", "answered"}, card : Card \cup {None} ]

LEMMA Transitions ==
  ASSUME NEW from \in RideState, NEW to, canTransitionRideState(from, to)
  PROVE  to \in RideState
BY DEF canTransitionRideState, transitions, RideState, normalRideStates,
   exceptionRideStates

\* What the buttons of a card call, and what is shown of the ride they move.
LEMMA ButtonsCall ==
  ASSUME NEW state \in driverActiveRideStates, NEW call \in buttons[state]
  PROVE  call \in Call
BY DEF driverActiveRideStates, buttons, Call, driverAdvanceStates

LEMMA TargetsAreShown ==
  ASSUME TypeOK, NEW r \in Rides, NEW call \in Call, Allowed(r, call)
  PROVE  /\ Target(call) \in RideState
         /\ call \notin {"decline", "cancel", "complete"} =>
              Target(call) \in driverActiveRideStates
<1>1. ride[r].state \in RideState
  BY DEF TypeOK, Row
<1>2. CASE call \in {"decline", "cancel", "complete"}
  BY <1>2 DEF Target, RideState, normalRideStates, exceptionRideStates
<1>3. CASE call \in {"accept"} \cup driverAdvanceStates
  BY <1>3 DEF Target, RideState, normalRideStates, driverAdvanceStates,
     driverActiveRideStates
<1>4. CASE call \in {"on", "off", "refresh"}
  <2>1. Target(call) = call /\ canTransitionRideState(ride[r].state, call)
    BY <1>4 DEF Target, Allowed
  <2>2. call \in RideState
    BY <1>1, <2>1, Transitions
  <2>3. QED
    BY <1>4, <2>2 DEF RideState, normalRideStates, exceptionRideStates
<1>5. QED
  BY <1>2, <1>3, <1>4 DEF Call

LEMMA EmitIsTyped ==
  ASSUME TypeOK, NEW r \in Rides, NEW type \in {"ride.offer", "cancelled_by_rider"},
         Emit(type, r)
  PROVE  events' \in Seq(Event) /\ Len(events') <= MaxEvents
<1>1. [type |-> type, ride |-> r] \in Event
  BY DEF Event
<1>2. QED
  BY <1>1, BoundAssumption DEF TypeOK, Emit

LEMMA CurrentRideIsTyped ==
  ASSUME TypeOK, NEW card \in Answers, CurrentRide(card)
  PROVE  /\ ride' \in [Rides -> Row]
         /\ events' \in Seq(Event) /\ Len(events') <= MaxEvents
<1>1. CASE UNCHANGED << ride, events >>
  BY <1>1 DEF TypeOK
<1>2. ASSUME NEW r \in Rides, Emit("ride.offer", r),
             ride' = [ride EXCEPT ![r] = [state |-> "offered_to_driver", mine |-> TRUE]]
      PROVE  /\ ride' \in [Rides -> Row]
             /\ events' \in Seq(Event) /\ Len(events') <= MaxEvents
  <2>1. [state |-> "offered_to_driver", mine |-> TRUE] \in Row
    BY DEF Row, RideState, normalRideStates
  <2>2. QED
    BY <1>2, <2>1, EmitIsTyped DEF TypeOK
<1>3. QED
  BY <1>1, <1>2 DEF CurrentRide

LEMMA AskIsTyped ==
  ASSUME TypeOK, NEW p \in Polls, Ask(p)
  PROVE  poll' \in [Polls -> {Free} \cup Called]
<1>1. [poll[p] EXCEPT !.phase = "asked"] \in Called
  BY DEF Ask, Free, Called
<1>2. QED
  BY <1>1 DEF TypeOK, Ask, Called

\* The app.
LEMMA AppIsTyped ==
  ASSUME TypeOK,
         \/ SetOnline \/ Tap \/ DismissSummary \/ PollTimer \/ TapAnswered \/ TapFails
         \/ Deliver \/ Restart \/ Connect \/ Disconnect
         \/ \E p \in Polls : RefreshRide(p) \/ PollFails(p)
  PROVE  TypeOK'
<1> USE DEF server, socket
<1>1. CASE SetOnline
  <2>1. tap' \in Tapped
    BY <1>1 DEF SetOnline, Guarded, Tapped, Call
  <2>2. QED
    BY <1>1, <2>1 DEF SetOnline, TypeOK, Tapped
<1>2. CASE Tap
  <2>1. shown.id \in Rides /\ shown.state \in driverActiveRideStates
    BY <1>2 DEF Tap, TypeOK, Card
  <2>2. PICK call \in buttons[shown.state] : Guarded(call, shown.id)
    BY <1>2 DEF Tap
  <2>3. call \in Call
    BY <2>1, ButtonsCall
  <2>4. tap' \in Tapped
    BY <2>1, <2>2, <2>3 DEF Guarded, Tapped
  <2>5. QED
    BY <1>2, <2>4 DEF Tap, TypeOK, Tapped
<1>3. CASE DismissSummary \/ Connect
  BY <1>3 DEF DismissSummary, Connect, TypeOK
<1>4. CASE PollTimer
  <2>1. poll' \in [Polls -> {Free} \cup Called]
    BY <1>4, AskIsTyped DEF PollTimer
  <2>2. QED
    BY <1>4, <2>1 DEF PollTimer, TypeOK, Called
<1>5. CASE TapAnswered
  <2>1. tap' = NoTap \/ tap' \in Tapped
    BY <1>5 DEF TapAnswered, Guarded, Tapped, Call
  <2>2. shown' \in Card \cup {None}
    <3>1. tap.card \in Card \cup {None}
      BY DEF TypeOK, NoTap
    <3>2. QED
      BY <1>5, <3>1 DEF TapAnswered, TypeOK
  <2>3. online' \in BOOLEAN /\ summary' \in BOOLEAN
    BY <1>5 DEF TapAnswered, TypeOK
  <2>4. QED
    BY <1>5, <2>1, <2>2, <2>3 DEF TapAnswered, TypeOK, Tapped
<1>6. CASE TapFails
  BY <1>6 DEF TapFails, TypeOK
<1>7. CASE Deliver
  <2>1. /\ Head(events) \in Event /\ events' \in Seq(Event)
        /\ Len(events') <= MaxEvents
    BY <1>7, BoundAssumption DEF Deliver, TypeOK
  <2>2. poll' \in [Polls -> {Free} \cup Called]
    <3>1. UNCHANGED poll \/ \E p \in Polls : Ask(p)
      BY <1>7 DEF Deliver
    <3>2. QED
      BY <3>1, AskIsTyped DEF TypeOK, Called
  <2>3. shown' \in Card \cup {None}
    BY <1>7 DEF Deliver, TypeOK
  <2>4. QED
    BY <1>7, <2>1, <2>2, <2>3 DEF Deliver, TypeOK, Called
<1>8. CASE Restart \/ Disconnect
  <2>1. << >> \in Seq(Event) /\ Len(<< >>) <= MaxEvents
    BY BoundAssumption
  <2>2. CASE Restart
    BY <2>1, <2>2 DEF Restart, TypeOK
  <2>3. CASE Disconnect
    BY <2>1, <2>3 DEF Disconnect, TypeOK
  <2>4. QED
    BY <1>8, <2>2, <2>3
<1>9. ASSUME NEW p \in Polls, RefreshRide(p) \/ PollFails(p)
      PROVE  TypeOK'
  <2>1. poll[p].card \in Card \cup {None}
    BY DEF TypeOK, Free
  <2>2. QED
    BY <1>9, <2>1 DEF RefreshRide, PollFails, TypeOK
<1>10. QED
  BY <1>1, <1>2, <1>3, <1>4, <1>5, <1>6, <1>7, <1>8, <1>9

\* The server, and the others it serves.
LEMMA ServerIsTyped ==
  ASSUME TypeOK,
         \/ ServeTap \/ HalfComplete \/ \E p \in Polls : ServePoll(p)
         \/ \E r \in Rides : RiderCancels(r) \/ OtherDriver(r)
  PROVE  TypeOK'
<1> USE DEF server, socket
<1>1. ASSUME NEW p \in Polls, ServePoll(p)
      PROVE  TypeOK'
  <2>1. PICK card \in Answers :
          /\ CurrentRide(card)
          /\ poll' = [poll EXCEPT ![p] = [phase |-> "answered", card |-> card]]
    BY <1>1 DEF ServePoll
  <2>2. poll' \in [Polls -> {Free} \cup Called]
    BY <2>1 DEF TypeOK, Called, Answers
  <2>3. QED
    BY <1>1, <2>1, <2>2, CurrentRideIsTyped DEF ServePoll, TypeOK, Called
<1>2. CASE ServeTap
  <2>1. tap \in Tapped
    <3>1. tap \in {NoTap} \cup Tapped /\ tap.phase = "asked"
      BY <1>2 DEF ServeTap, TypeOK, Tapped
    <3>2. NoTap.phase = "free"
      BY DEF NoTap
    <3>3. QED
      BY <3>1, <3>2
  <2>2. /\ ride' \in [Rides -> Row] /\ duty' \in BOOLEAN /\ tap' \in Tapped
        /\ events' \in Seq(Event) /\ Len(events') <= MaxEvents
    <3>1. CASE /\ duty' = (tap.call = "on")
               /\ tap' = [tap EXCEPT !.phase = "answered"]
               /\ UNCHANGED << ride, events >>
      BY <2>1, <3>1 DEF TypeOK, Tapped
    <3>2. ASSUME NEW card \in Answers, CurrentRide(card), UNCHANGED duty,
                 tap' = [tap EXCEPT !.phase = "answered", !.card = card]
          PROVE  /\ ride' \in [Rides -> Row] /\ duty' \in BOOLEAN /\ tap' \in Tapped
                 /\ events' \in Seq(Event) /\ Len(events') <= MaxEvents
      <4>1. tap' \in Tapped
        BY <2>1, <3>2 DEF Tapped, Answers
      <4>2. QED
        BY <3>2, <4>1, CurrentRideIsTyped DEF TypeOK
    <3>3. CASE tap.ride # None /\ MoveMine(tap.call, tap.ride)
      <4>1. PICK r \in Rides, call \in Call : r = tap.ride /\ call = tap.call
        BY <2>1, <3>3 DEF Tapped
      <4>2. MoveMine(call, r)
        BY <3>3, <4>1
      <4>3. /\ Target(call) \in RideState
            /\ call \notin {"decline", "cancel", "complete"} =>
                 Target(call) \in driverActiveRideStates
        BY <4>2, TargetsAreShown DEF MoveMine
      <4>4. ride' \in [Rides -> Row]
        BY <4>2, <4>3 DEF MoveMine, TypeOK, Row
      <4>5. (IF call \in {"decline", "cancel", "complete"} THEN None
             ELSE [id |-> r, state |-> Target(call)]) \in Card \cup {None}
        BY <4>3 DEF Card
      <4>6. tap' \in Tapped
        BY <2>1, <4>2, <4>5 DEF MoveMine, Tapped
      <4>7. QED
        BY <4>2, <4>4, <4>6 DEF MoveMine, TypeOK
    <3>4. QED
      BY <1>2, <3>1, <3>2, <3>3 DEF ServeTap
  <2>3. QED
    BY <1>2, <2>2 DEF ServeTap, TypeOK, Tapped
<1>3. CASE HalfComplete
  <2>1. ride' \in [Rides -> Row]
    BY <1>3 DEF HalfComplete, TypeOK, Row, RideState, normalRideStates
  <2>2. QED
    BY <1>3, <2>1 DEF HalfComplete, TypeOK
<1>4. ASSUME NEW r \in Rides, RiderCancels(r)
      PROVE  TypeOK'
  <2>1. ride' \in [Rides -> Row]
    BY <1>4 DEF RiderCancels, TypeOK, Row, RideState, exceptionRideStates
  <2>2. events' \in Seq(Event) /\ Len(events') <= MaxEvents
    BY <1>4, EmitIsTyped DEF RiderCancels, TypeOK
  <2>3. QED
    BY <1>4, <2>1, <2>2 DEF RiderCancels, TypeOK
<1>5. ASSUME NEW r \in Rides, OtherDriver(r)
      PROVE  TypeOK'
  <2>1. ride' \in [Rides -> Row]
    <3>1. PICK to \in {"offered_to_driver", "matching", "accepted"} :
            ride' = [ride EXCEPT ![r].state = to]
      BY <1>5 DEF OtherDriver
    <3>2. QED
      BY <3>1 DEF TypeOK, Row, RideState, normalRideStates
  <2>2. QED
    BY <1>5, <2>1 DEF OtherDriver, TypeOK
<1>6. QED
  BY <1>1, <1>2, <1>3, <1>4, <1>5

\* Whatever is answered late, the card on the screen is an active ride, and no
\* socket holds more than it may.
THEOREM DriverScreenIsTyped == Spec => []TypeOK
<1>1. Init => TypeOK
  <2> SUFFICES ASSUME Init PROVE TypeOK
    OBVIOUS
  <2>1. << >> \in Seq(Event) /\ Len(<< >>) <= MaxEvents
    BY BoundAssumption
  <2>2. [state |-> "requested", mine |-> FALSE] \in Row
    BY DEF Row, RideState, normalRideStates
  <2>3. QED
    BY <2>1, <2>2 DEF Init, TypeOK
<1>2. TypeOK /\ [Next]_vars => TypeOK'
  <2> SUFFICES ASSUME TypeOK, [Next]_vars PROVE TypeOK'
    OBVIOUS
  <2>1. CASE UNCHANGED vars
    BY <2>1 DEF vars, TypeOK
  <2>2. CASE Next
    BY <2>2, AppIsTyped, ServerIsTyped DEF Next
  <2>3. QED
    BY <2>1, <2>2
<1>3. QED
  BY <1>1, <1>2, PTL DEF Spec
=============================================================================
