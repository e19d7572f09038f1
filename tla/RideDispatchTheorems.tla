------------------------ MODULE RideDispatchTheorems ------------------------
(***************************************************************************)
(* What the invariant of RideDispatchProofs is for: RideDispatch           *)
(* implements RideLedger, a driver with at most one request in flight has  *)
(* at most one active ride, and a ride becomes what MayBecome says.        *)
(***************************************************************************)
EXTENDS RideDispatchProofs

-----------------------------------------------------------------------------
(***************************************************************************)
(* The refinement: whatever requests overlap or fail, the rows of every    *)
(* ride move by the steps of the ledger only.                              *)
(***************************************************************************)

\* The moves riders and drivers ask for.
RoleOK ==
  \A c \in Sessions : pc[c] \in {"check", "write"} =>
    \/ c \in RiderSessions /\ job[c].to = "cancelled_by_rider"
    \/ c \in DriverSessions /\ job[c].to \in driverAdvanceStates \cup
         {"accepted", "cancelled_by_driver", "payment_pending", "completed"}

\* The ledger and the API share the table.
LEMMA SameTable ==
  /\ Ledger!RideState = RideState
  /\ Ledger!waitingRideStates = waitingRideStates
  /\ Ledger!driverAdvanceStates = driverAdvanceStates
  /\ \A from, to : Ledger!canTransitionRideState(from, to)
                     <=> canTransitionRideState(from, to)
<1>1. /\ Ledger!RideState = RideState
      /\ Ledger!waitingRideStates = waitingRideStates
      /\ Ledger!driverAdvanceStates = driverAdvanceStates
  BY DEF Ledger!RideState, RideState, Ledger!normalRideStates,
         normalRideStates, Ledger!exceptionRideStates, exceptionRideStates,
         Ledger!waitingRideStates, waitingRideStates,
         Ledger!driverAdvanceStates, driverAdvanceStates
<1>2. Ledger!transitions = transitions
  BY DEF Ledger!transitions, transitions
<1>3. QED
  BY <1>1, <1>2 DEF Ledger!canTransitionRideState, canTransitionRideState

LEMMA RoleOKStep == ASSUME IInv, RoleOK, [Next]_vars PROVE RoleOK'
<1> SUFFICES ASSUME NEW c \in Sessions, pc'[c] \in {"check", "write"}
             PROVE  \/ c \in RiderSessions /\ job'[c].to = "cancelled_by_rider"
                    \/ /\ c \in DriverSessions
                       /\ job'[c].to \in driverAdvanceStates \cup
                            {"accepted", "cancelled_by_driver",
                             "payment_pending", "completed"}
  BY DEF RoleOK
<1>1. CASE pc'[c] = "check" /\ (Begin(c) \/ Continue(c) \/ RequestFails(c))
  <2>1. \/ \E r \in Rides :
             /\ c \in RiderSessions
             /\ job'[c] = HasRead(r, ride[r].state, "cancelled_by_rider")
        \/ \E r \in Rides, to \in driverAdvanceStates
                                    \cup {"accepted", "cancelled_by_driver"} :
             /\ c \in DriverSessions
             /\ job'[c] = HasRead(r, ride[r].state, to)
        \/ \E r \in Rides :
             /\ c \in DriverSessions
             /\ job'[c] = HasRead(r, "arrived_at_destination", "payment_pending")
        \/ /\ c \in DriverSessions
           /\ job'[c] = HasRead(job[c].ride, "payment_pending", "completed")
    BY <1>1, StepsOfARequest
  <2>2. ASSUME NEW r, NEW from, NEW to, job'[c] = HasRead(r, from, to)
        PROVE  job'[c].to = to
    BY <2>2 DEF HasRead
  <2>3. QED
    BY <2>1, <2>2
<1>2. CASE pc'[c] = "write" /\ (Begin(c) \/ Continue(c) \/ RequestFails(c))
  <2>1. /\ pc[c] = "check"
        /\ job'[c] = [job[c] EXCEPT !.seen = Len(trail[job[c].ride])]
    BY <1>2, StepsOfARequest
  <2>2. job'[c].to = job[c].to
    BY <2>1, JobTyped DEF Job
  <2>3. QED
    BY <2>1, <2>2 DEF RoleOK
<1>3. CASE pc'[c] = pc[c] /\ job'[c] = job[c]
  BY <1>3 DEF RoleOK
<1>4. QED
  BY <1>1, <1>2, <1>3, Movers

\* Functions of rides that differ at r only.
LEMMA ExceptAt ==
  ASSUME NEW S, NEW f, NEW g, NEW r \in S, NEW v,
         f = [q \in S |-> f[q]], g = [q \in S |-> g[q]],
         \A q \in S \ {r} : g[q] = f[q], g[r] = v
  PROVE  g = [f EXCEPT ![r] = v]
OBVIOUS

\* A step that commits, seen from the ledger.
LEMMA LedgerFrame ==
  ASSUME IInv, IInv', NEW r \in Rides, OnlyRide(r)
  PROVE  /\ [q \in Rides |-> ride'[q].state] =
              [[q \in Rides |-> ride[q].state] EXCEPT ![r] = ride'[r].state]
         /\ [q \in Rides |-> ride'[q].driver] =
              [[q \in Rides |-> ride[q].driver] EXCEPT ![r] = ride'[r].driver]
         /\ trail' = [trail EXCEPT ![r] = trail'[r]]
         /\ payment' = [payment EXCEPT ![r] = payment'[r]]
<1>1. /\ [q \in Rides |-> ride'[q].state] =
           [[q \in Rides |-> ride[q].state] EXCEPT ![r] = ride'[r].state]
      /\ [q \in Rides |-> ride'[q].driver] =
           [[q \in Rides |-> ride[q].driver] EXCEPT ![r] = ride'[r].driver]
  BY DEF OnlyRide
<1>2. /\ trail \in [Rides -> Seq(AuditRow)]
      /\ trail' \in [Rides -> Seq(AuditRow)]
      /\ payment \in [Rides -> PaymentRow]
      /\ payment' \in [Rides -> PaymentRow]
  BY DEF IInv, TypeOK
<1>3. trail' = [trail EXCEPT ![r] = trail'[r]]
  BY <1>2 DEF OnlyRide
<1>4. payment' = [payment EXCEPT ![r] = payment'[r]]
  BY <1>2 DEF OnlyRide
<1>5. QED
  BY <1>1, <1>3, <1>4

\* A booking opens the ledger of its ride.
LEMMA BookingOpens ==
  ASSUME IInv, IInv', NEW c \in Sessions, NEW r \in Rides, BookingCommits(c, r)
  PROVE  Ledger!Open(r)
<1> DEFINE state == [q \in Rides |-> ride[q].state]
           driver == [q \in Rides |-> ride[q].driver]
<1>1. /\ state' = [state EXCEPT ![r] = "requested"]
      /\ driver' = [driver EXCEPT ![r] = None]
      /\ trail' = [trail EXCEPT ![r] = trail'[r]]
      /\ payment' = [payment EXCEPT ![r] = payment'[r]]
  BY LedgerFrame DEF BookingCommits
<1>2. state[r] = "none" /\ driver[r] = None
  BY DEF BookingCommits, IInv, RowOK, NoRow
<1>3. driver' = driver
  BY <1>1, <1>2
<1>4. payment'[r] = [payment[r] EXCEPT !.status = "pending"]
  <2>1. payment[r] \in PaymentRow /\ payment'[r] \in PaymentRow
    BY DEF IInv, TypeOK
  <2>2. QED
    BY <2>1 DEF BookingCommits, PaymentRow
<1>5. \E rider \in Riders :
        trail' = [trail EXCEPT ![r] = @ \o
                    << Ledger!Row("none", "requested", rider) >>]
  <2>1. RiderOf[c] \in Riders
    BY SessionAssumption DEF BookingCommits
  <2> DEFINE x == Entry(NoRow, "requested", RiderOf[c])
  <2>2. x \in AuditRow /\ x = Ledger!Row("none", "requested", RiderOf[c])
    BY <2>1, StatesOfTheTable
    DEF Entry, AuditRow, Actors, waitingRideStates, NoRow, Ledger!Row
  <2>3. trail'[r] = Append(trail[r], x) /\ trail[r] \in Seq(AuditRow)
    BY DEF BookingCommits, IInv, TypeOK
  <2> HIDE DEF x
  <2>4. trail'[r] = trail[r] \o << x >>
    BY <2>2, <2>3, AppendRows
  <2>5. trail' = [trail EXCEPT ![r] = trail[r] \o << x >>]
    BY <1>1, <2>4
  <2>6. QED
    BY <2>1, <2>2, <2>5
<1> HIDE DEF state, driver
<1>6. payment' = [payment EXCEPT ![r] = [payment[r] EXCEPT !.status = "pending"]]
  BY <1>1, <1>4
<1>7. payment' = [payment EXCEPT ![r].status = "pending"]
  BY <1>6
<1>8. QED
  BY <1>1, <1>2, <1>3, <1>5, <1>7
  DEF Ledger!Open, Ledger!Unbooked, Ledger!Extend, state, driver

\* A claim is an offer to the driver who asked.
LEMMA ClaimOffers ==
  ASSUME IInv, IInv', NEW c \in Sessions, NEW r \in Rides, ClaimCommits(c, r)
  PROVE  \E d \in Drivers : Ledger!Offer(r, d)
<1> DEFINE state == [q \in Rides |-> ride[q].state]
           driver == [q \in Rides |-> ride[q].driver]
           x == Entry("requested", "matching", "dispatch")
           y == Entry("matching", "offered_to_driver", "dispatch")
<1>1. /\ state' = [state EXCEPT ![r] = "offered_to_driver"]
      /\ driver' = [driver EXCEPT ![r] = DriverOf[c]]
      /\ trail' = [trail EXCEPT ![r] = trail'[r]]
      /\ payment' = [payment EXCEPT ![r] = payment[r]]
  BY LedgerFrame DEF ClaimCommits
<1>2. state[r] \in waitingRideStates /\ driver[r] = None
      /\ DriverOf[c] \in Drivers
  BY SessionAssumption DEF ClaimCommits
<1>3. payment' = payment
  BY <1>1 DEF IInv, TypeOK
<1>4. /\ x = Ledger!Row("requested", "matching", "dispatch") /\ x \in AuditRow
      /\ y = Ledger!Row("matching", "offered_to_driver", "dispatch")
      /\ y \in AuditRow
  BY StatesOfTheTable
  DEF Entry, AuditRow, Actors, waitingRideStates, driverActiveRideStates,
      Ledger!Row
<1>5. /\ trail'[r] = Append(IF state[r] = "requested"
                            THEN Append(trail[r], x) ELSE trail[r], y)
      /\ trail[r] \in Seq(AuditRow)
  BY DEF ClaimCommits, IInv, TypeOK
<1> HIDE DEF x, y
<1>6. trail'[r] = IF state[r] = "matching" THEN trail[r] \o << y >>
                  ELSE trail[r] \o (<< x >> \o << y >>)
  <2>1. CASE state[r] = "matching"
    <3>1. trail'[r] = Append(trail[r], y)
      BY <1>5, <2>1
    <3>2. QED
      BY <1>4, <1>5, <2>1, <3>1, AppendRows
  <2>2. CASE state[r] = "requested"
    <3>1. trail'[r] = Append(Append(trail[r], x), y)
      BY <1>5, <2>2
    <3>2. trail'[r] = trail[r] \o (<< x >> \o << y >>)
      BY <1>4, <1>5, <3>1, AppendRows
    <3>3. QED
      BY <2>2, <3>2
  <2>3. QED
    BY <1>2, <2>1, <2>2 DEF waitingRideStates
<1>7. IF state[r] = "matching"
      THEN trail' = [trail EXCEPT ![r] = trail[r] \o << y >>]
      ELSE trail' = [trail EXCEPT ![r] = trail[r] \o (<< x >> \o << y >>)]
  BY <1>1, <1>6
<1>8. Ledger!Offer(r, DriverOf[c])
  <2> HIDE DEF state, driver
  <2>1. CASE state[r] = "matching"
    BY <1>1, <1>2, <1>3, <1>4, <1>7, <2>1, SameTable
    DEF Ledger!Offer, Ledger!Extend, state, driver
  <2>2. CASE state[r] # "matching"
    BY <1>1, <1>2, <1>3, <1>4, <1>7, <2>2, SameTable
    DEF Ledger!Offer, Ledger!Extend, state, driver
  <2>3. QED
    BY <2>1, <2>2
<1>9. QED
  BY <1>2, <1>8

\* A decline returns the offer.
LEMMA DeclineReturns ==
  ASSUME IInv, IInv', NEW c \in Sessions, NEW r \in Rides, DeclineCommits(c, r)
  PROVE  Ledger!Return(r)
<1> DEFINE state == [q \in Rides |-> ride[q].state]
           driver == [q \in Rides |-> ride[q].driver]
           x == Entry("offered_to_driver", "driver_timeout", DriverOf[c])
           y == Entry("driver_timeout", "matching", "dispatch")
<1>1. /\ state' = [state EXCEPT ![r] = "matching"]
      /\ driver' = [driver EXCEPT ![r] = None]
      /\ trail' = [trail EXCEPT ![r] = trail'[r]]
      /\ payment' = [payment EXCEPT ![r] = payment[r]]
  BY LedgerFrame DEF DeclineCommits
<1>2. state[r] = "offered_to_driver" /\ driver[r] = DriverOf[c]
      /\ DriverOf[c] \in Drivers
  BY SessionAssumption DEF DeclineCommits
<1>3. payment' = payment
  BY <1>1 DEF IInv, TypeOK
<1>4. /\ x = Ledger!Row("offered_to_driver", "driver_timeout", driver[r])
      /\ y = Ledger!Row("driver_timeout", "matching", "dispatch")
      /\ x \in AuditRow /\ y \in AuditRow
  BY <1>2, StatesOfTheTable
  DEF Entry, AuditRow, Actors, waitingRideStates, driverActiveRideStates,
      Ledger!Row
<1>5. /\ trail'[r] = Append(Append(trail[r], x), y)
      /\ trail[r] \in Seq(AuditRow)
  BY DEF DeclineCommits, IInv, TypeOK
<1> HIDE DEF x, y
<1>6. trail'[r] = trail[r] \o << x, y >>
  BY <1>4, <1>5, AppendRows
<1>7. trail' = [trail EXCEPT ![r] = trail[r] \o << x, y >>]
  BY <1>1, <1>6
<1> HIDE DEF state, driver
<1>8. QED
  BY <1>1, <1>2, <1>3, <1>4, <1>7
  DEF Ledger!Return, Ledger!Extend, state, driver

\* A state change is a move, or an overwrite of a state the ride has left.
LEMMA ChangeMoves ==
  ASSUME IInv, IInv', SeenOK, RoleOK, NEW c \in Sessions, NEW r \in Rides,
         NEW from \in RideState, NEW to \in RideState,
         ChangeCommits(c, r, from, to)
  PROVE  Ledger!Move(r) \/ Ledger!Overwrite(r)
<1> DEFINE state == [q \in Rides |-> ride[q].state]
           driver == [q \in Rides |-> ride[q].driver]
           x == Entry(from, to, ActorOf(c, to))
<1>1. /\ state' = [state EXCEPT ![r] = to]
      /\ driver' = [driver EXCEPT ![r] = ride[r].driver]
      /\ trail' = [trail EXCEPT ![r] = trail'[r]]
      /\ payment' = [payment EXCEPT ![r] = payment'[r]]
  <2>1. OnlyRide(r) /\ ride'[r].state = to /\ ride'[r].driver = ride[r].driver
    BY DEF ChangeCommits
  <2>2. /\ [q \in Rides |-> ride'[q].state] =
             [[q \in Rides |-> ride[q].state] EXCEPT ![r] = ride'[r].state]
        /\ [q \in Rides |-> ride'[q].driver] =
             [[q \in Rides |-> ride[q].driver] EXCEPT ![r] = ride'[r].driver]
        /\ trail' = [trail EXCEPT ![r] = trail'[r]]
        /\ payment' = [payment EXCEPT ![r] = payment'[r]]
    BY <2>1, LedgerFrame
  <2>3. QED
    BY <2>1, <2>2
<1>2. driver' = driver
  <2>1. \A q \in Rides : ride'[q].driver = ride[q].driver
    BY DEF ChangeCommits, OnlyRide
  <2>2. QED
    BY <2>1
<1>3. x = Ledger!Row(from, to, ActorOf(c, to)) /\ x \in AuditRow
  BY SessionAssumption
  DEF Entry, AuditRow, Actors, ActorOf, Sessions, Ledger!Row
<1>4. trail'[r] = Append(trail[r], x) /\ trail[r] \in Seq(AuditRow)
  BY DEF ChangeCommits, IInv, TypeOK
<1> HIDE DEF x
<1>5. trail' = [trail EXCEPT ![r] = trail[r] \o << x >>]
  <2>1. trail'[r] = trail[r] \o << x >>
    BY <1>3, <1>4, AppendRows
  <2>2. QED
    BY <1>1, <2>1
<1>6. Ledger!Extend(r, << Ledger!Row(from, to, ActorOf(c, to)) >>)
  BY <1>3, <1>5 DEF Ledger!Extend
<1>7. \/ c \in RiderSessions /\ to = "cancelled_by_rider"
      \/ c \in DriverSessions /\ to \in driverAdvanceStates \cup
           {"accepted", "cancelled_by_driver", "payment_pending", "completed"}
  BY DEF ChangeCommits, RoleOK
<1>8. payment'[r] = IF to = "completed" /\ payment[r].status = "pending"
                    THEN [status |-> "paid", collectedBy |-> DriverOf[c]]
                    ELSE payment[r]
  BY DEF ChangeCommits
<1>9. to # "completed" => payment' = payment
  BY <1>1, <1>8 DEF IInv, TypeOK
<1>10. canTransitionRideState(from, to)
  BY DEF ChangeCommits
<1> HIDE DEF state, driver
<1>11. Ledger!Record(r, from, to)
  <2>1. CASE c \in RiderSessions /\ to = "cancelled_by_rider"
    <3>1. ActorOf(c, to) \in Riders
      BY <2>1, SessionAssumption DEF ActorOf
    <3>2. QED
      BY <1>1, <1>2, <1>6, <1>9, <1>10, <2>1, <3>1, SameTable
      DEF Ledger!Record, state, driver
  <2>2. CASE c \in DriverSessions /\ to = "payment_pending"
    <3>1. ActorOf(c, to) = "dispatch"
      BY <2>2, SessionAssumption DEF ActorOf
    <3>2. QED
      BY <1>1, <1>2, <1>6, <1>9, <1>10, <2>2, <3>1, SameTable
      DEF Ledger!Record, state, driver
  <2>3. CASE c \in DriverSessions /\ to \in driverAdvanceStates \cup
               {"accepted", "cancelled_by_driver", "completed"}
    <3>1. ActorOf(c, to) = DriverOf[c] /\ DriverOf[c] \in Drivers
      BY <2>3, SessionAssumption DEF ActorOf, driverAdvanceStates
    <3>2. payment' =
            IF to = "completed" /\ payment[r].status = "pending"
            THEN [payment EXCEPT ![r] = [status |-> "paid",
                                         collectedBy |-> DriverOf[c]]]
            ELSE payment
      <4>1. CASE to = "completed" /\ payment[r].status = "pending"
        BY <1>1, <1>8, <4>1
      <4>2. CASE ~(to = "completed" /\ payment[r].status = "pending")
        BY <1>1, <1>8, <4>2 DEF IInv, TypeOK
      <4>3. QED
        BY <4>1, <4>2
    <3>3. QED
      BY <1>1, <1>2, <1>6, <1>10, <2>3, <3>1, <3>2, SameTable
      DEF Ledger!Record, state, driver
  <2>4. QED
    BY <1>7, <2>1, <2>2, <2>3
<1>12. from \in Ledger!Past(r)
  <2>1. pc[c] = "write" /\ job[c].ride = r /\ job[c].from = from
    BY DEF ChangeCommits
  <2>2. QED
    BY <2>1 DEF SeenOK, Ledger!Past
<1>13. CASE from = ride[r].state
  BY <1>1, <1>11, <1>13, SameTable DEF Ledger!Move, state
<1>14. CASE from # ride[r].state
  BY <1>11, <1>12, <1>14, SameTable DEF Ledger!Overwrite, state
<1>15. QED
  BY <1>13, <1>14

LEMMA LedgerStep ==
  ASSUME IInv, IInv', SeenOK, RoleOK, [Next]_vars
  PROVE  [Ledger!Next]_(Ledger!vars)
<1>1. CASE UNCHANGED rows
  BY <1>1 DEF rows, Ledger!vars
<1>2. ASSUME NEW c \in Sessions, NEW r \in Rides, Commits(c, r)
      PROVE  Ledger!Next
  <2>1. CASE BookingCommits(c, r)
    BY <2>1, BookingOpens DEF Ledger!Next
  <2>2. CASE ClaimCommits(c, r)
    BY <2>2, ClaimOffers DEF Ledger!Next
  <2>3. CASE DeclineCommits(c, r)
    BY <2>3, DeclineReturns DEF Ledger!Next
  <2>4. ASSUME NEW from \in RideState, NEW to \in RideState,
               ChangeCommits(c, r, from, to)
        PROVE  Ledger!Next
    <3>1. Ledger!Move(r) \/ Ledger!Overwrite(r)
      BY <2>4, ChangeMoves
    <3>2. ride[r].state # "none"
      BY <2>4 DEF ChangeCommits, NoRow
    <3>3. QED
      BY <3>1, <3>2 DEF Ledger!Next, Ledger!Unbooked
  <2>5. QED
    BY <1>2, <2>1, <2>2, <2>3, <2>4 DEF Commits
<1>3. QED
  BY <1>1, <1>2, StepCommits

\* The rows of the rides implement the ledger.
THEOREM RowsImplementLedger == Spec => ImplementsLedger
<1>1. Init => Ledger!Init
  BY DEF Init, Ledger!Init, Ledger!Unbooked, NoRow
<1>2. Init => RoleOK
  BY DEF Init, RoleOK
<1>3. IInv /\ RoleOK /\ [Next]_vars => RoleOK'
  BY RoleOKStep
<1>4. IInv /\ IInv' /\ SeenOK /\ RoleOK /\ [Next]_vars
        => [Ledger!Next]_(Ledger!vars)
  BY LedgerStep
<1>5. QED
  BY <1>1, <1>2, <1>3, <1>4, SeenInvariant, PTL
  DEF Spec, ImplementsLedger, Ledger!Spec

-----------------------------------------------------------------------------
(***************************************************************************)
(* One active ride.  The claim looks for an active ride in one transaction *)
(* and takes a waiting ride in another, so the argument is about what      *)
(* cannot happen in between: only the driver's own requests give the       *)
(* driver a ride.                                                          *)
(***************************************************************************)

Active(r, d) == ride[r].driver = d /\ ride[r].state \in driverActiveRideStates

\* While a claim is under way its driver has no active ride.
ClaimOK ==
  \A c \in DriverSessions :
    pc[c] \in {"claim", "pick", "take"} =>
      \A r \in Rides : ~Active(r, DriverOf[c])

\* Riders only cancel.  A driver moves a ride that was active when it was
\* read, and when the move is written it is still the driver's and the only
\* ride of the driver that can be active.
ChangeOK ==
  \A c \in Sessions : pc[c] \in {"check", "write"} =>
    /\ c \in RiderSessions => job[c].to = "cancelled_by_rider"
    /\ c \in DriverSessions => job[c].from \in driverActiveRideStates
    /\ c \in DriverSessions /\ pc[c] = "write" =>
         /\ ride[job[c].ride].driver = DriverOf[c]
         /\ \A q \in Rides \ {job[c].ride} : ~Active(q, DriverOf[c])

HoldInv == OneActiveRide /\ ClaimOK /\ ChangeOK

\* The moves a driver asks for start from active states.
LEMMA DriversMoveActiveRides ==
  ASSUME NEW from \in RideState,
         NEW to \in driverAdvanceStates \cup {"accepted", "cancelled_by_driver"},
         canTransitionRideState(from, to)
  PROVE  from \in driverActiveRideStates
BY DEF RideState, normalRideStates, exceptionRideStates, driverAdvanceStates,
       driverActiveRideStates, canTransitionRideState, transitions

\* A commit makes its ride active for nobody but the driver who asked for it.
LEMMA OthersGainNothing ==
  ASSUME SingleSession, IInv, HoldInv, NEW c \in Sessions, NEW r \in Rides,
         Commits(c, r), NEW b \in DriverSessions, b # c
  PROVE  ~Active(r, DriverOf[b])'
<1>1. CASE BookingCommits(c, r) \/ DeclineCommits(c, r)
  BY <1>1 DEF BookingCommits, DeclineCommits, Active, driverActiveRideStates
<1>2. CASE ClaimCommits(c, r)
  BY <1>2 DEF ClaimCommits, Active, SingleSession
<1>3. ASSUME NEW from \in RideState, NEW to \in RideState,
             ChangeCommits(c, r, from, to)
      PROVE  ~Active(r, DriverOf[b])'
  <2>1. /\ pc[c] = "write" /\ job[c].ride = r /\ job[c].to = to
        /\ ride'[r].state = to /\ ride'[r].driver = ride[r].driver
    BY <1>3 DEF ChangeCommits
  <2>2. CASE c \in RiderSessions
    <3>1. to = "cancelled_by_rider"
      BY <2>1, <2>2 DEF HoldInv, ChangeOK
    <3>2. QED
      BY <2>1, <3>1 DEF Active, driverActiveRideStates
  <2>3. CASE c \in DriverSessions
    <3>1. ride[r].driver = DriverOf[c]
      BY <2>1, <2>3 DEF HoldInv, ChangeOK
    <3>2. QED
      BY <2>1, <2>3, <3>1 DEF Active, SingleSession
  <2>4. QED
    BY <2>2, <2>3 DEF Sessions
<1>4. QED
  BY <1>1, <1>2, <1>3 DEF Commits

\* The rides that are not r keep their drivers and states.
LEMMA OthersStay ==
  ASSUME NEW c \in Sessions, NEW r \in Rides, Commits(c, r)
  PROVE  /\ \A q \in Rides \ {r} : ride'[q] = ride[q]
         /\ \A q \in Rides \ {r}, d \in Drivers :
              Active(q, d)' <=> Active(q, d)
<1>1. \A q \in Rides \ {r} : ride'[q] = ride[q]
  BY DEF Commits, BookingCommits, ChangeCommits, DeclineCommits, ClaimCommits,
         OnlyRide
<1>2. QED
  BY <1>1 DEF Active

LEMMA OneActiveRideStep ==
  ASSUME IInv, HoldInv, [Next]_vars PROVE OneActiveRide'
<1>1. CASE UNCHANGED rows
  BY <1>1 DEF rows, HoldInv, OneActiveRide
<1>2. ASSUME NEW c \in Sessions, NEW r \in Rides, Commits(c, r)
      PROVE  OneActiveRide'
  <2>1. \A q \in Rides \ {r} : ride'[q] = ride[q]
    BY <1>2, OthersStay
  <2>2. \/ ride'[r].state \notin driverActiveRideStates
        \/ \A q \in Rides \ {r} : ~Active(q, ride'[r].driver)
    <3>1. CASE BookingCommits(c, r) \/ DeclineCommits(c, r)
      BY <3>1 DEF BookingCommits, DeclineCommits, driverActiveRideStates
    <3>2. CASE ClaimCommits(c, r)
      BY <3>2 DEF ClaimCommits, HoldInv, ClaimOK
    <3>3. ASSUME NEW from \in RideState, NEW to \in RideState,
                 ChangeCommits(c, r, from, to)
          PROVE  \/ ride'[r].state \notin driverActiveRideStates
                 \/ \A q \in Rides \ {r} : ~Active(q, ride'[r].driver)
      <4>1. /\ pc[c] = "write" /\ job[c].ride = r /\ job[c].to = to
            /\ ride'[r].state = to /\ ride'[r].driver = ride[r].driver
        BY <3>3 DEF ChangeCommits
      <4>2. CASE c \in RiderSessions
        <5>1. to = "cancelled_by_rider"
          BY <4>1, <4>2 DEF HoldInv, ChangeOK
        <5>2. QED
          BY <4>1, <5>1 DEF driverActiveRideStates
      <4>3. CASE c \in DriverSessions
        BY <4>1, <4>3 DEF HoldInv, ChangeOK
      <4>4. QED
        BY <4>2, <4>3 DEF Sessions
    <3>4. QED
      BY <1>2, <3>1, <3>2, <3>3 DEF Commits
  <2>3. QED
    BY <2>1, <2>2 DEF HoldInv, OneActiveRide, Active
<1>3. QED
  BY <1>1, <1>2, StepCommits

LEMMA ClaimOKStep ==
  ASSUME SingleSession, IInv, HoldInv, [Next]_vars PROVE ClaimOK'
<1> SUFFICES ASSUME NEW b \in DriverSessions,
                    pc'[b] \in {"claim", "pick", "take"}
             PROVE  \A r \in Rides : ~Active(r, DriverOf[b])'
  BY DEF ClaimOK
<1>1. b \in Sessions /\ DriverOf[b] \in Drivers
  BY SessionAssumption DEF Sessions
<1>2. CASE Begin(b) \/ Continue(b) \/ RequestFails(b)
  <2>1. /\ UNCHANGED rows
        /\ \/ ~HasActiveRide(DriverOf[b])
           \/ pc[b] \in {"claim", "pick"}
    BY <1>1, <1>2, StepsOfARequest
  <2>2. \A r \in Rides : ~Active(r, DriverOf[b])
    BY <2>1 DEF HoldInv, ClaimOK, HasActiveRide, Active
  <2>3. QED
    BY <2>1, <2>2 DEF rows, Active
<1>3. CASE pc'[b] = pc[b]
  <2>1. \A r \in Rides : ~Active(r, DriverOf[b])
    BY <1>3 DEF HoldInv, ClaimOK
  <2>2. CASE UNCHANGED rows
    BY <2>1, <2>2 DEF rows, Active
  <2>3. ASSUME NEW c \in Sessions, NEW r \in Rides, Commits(c, r)
        PROVE  \A q \in Rides : ~Active(q, DriverOf[b])'
    <3>1. b # c
      BY <1>3, <2>3 DEF Commits, BookingCommits, ChangeCommits, DeclineCommits,
                        ClaimCommits
    <3>2. ~Active(r, DriverOf[b])'
      BY <2>3, <3>1, OthersGainNothing
    <3>3. QED
      BY <1>1, <2>1, <2>3, <3>2, OthersStay
  <2>4. QED
    BY <2>2, <2>3, StepCommits
<1>4. QED
  BY <1>1, <1>2, <1>3, Movers

LEMMA ChangeOKStep ==
  ASSUME SingleSession, IInv, HoldInv, [Next]_vars PROVE ChangeOK'
<1> SUFFICES ASSUME NEW b \in Sessions, pc'[b] \in {"check", "write"}
             PROVE  /\ b \in RiderSessions => job'[b].to = "cancelled_by_rider"
                    /\ b \in DriverSessions =>
                         job'[b].from \in driverActiveRideStates
                    /\ b \in DriverSessions /\ pc'[b] = "write" =>
                         /\ ride'[job'[b].ride].driver = DriverOf[b]
                         /\ \A q \in Rides \ {job'[b].ride} :
                              ~Active(q, DriverOf[b])'
  BY DEF ChangeOK
<1>1. ~ (b \in RiderSessions /\ b \in DriverSessions)
  BY SessionAssumption
<1>2. CASE pc'[b] = "check" /\ (Begin(b) \/ Continue(b) \/ RequestFails(b))
  <2>1. ASSUME NEW r \in Rides, Owns(b, r), b \in RiderSessions,
               job'[b] = HasRead(r, ride[r].state, "cancelled_by_rider")
        PROVE  job'[b].to = "cancelled_by_rider"
    BY <2>1 DEF HasRead
  <2>2. ASSUME NEW r \in Rides, Owns(b, r), b \in DriverSessions,
               NEW to \in driverAdvanceStates
                            \cup {"accepted", "cancelled_by_driver"},
               canTransitionRideState(ride[r].state, to),
               job'[b] = HasRead(r, ride[r].state, to)
        PROVE  job'[b].from \in driverActiveRideStates
    <3>1. job'[b].from = ride[r].state /\ ride[r].state \in RideState
      BY <2>2, OwnsBooked DEF HasRead
    <3>2. QED
      BY <2>2, <3>1, DriversMoveActiveRides
  <2>3. ASSUME NEW r \in Rides \cup {job[b].ride}, b \in DriverSessions,
               NEW to, NEW from \in {"arrived_at_destination",
                                     "payment_pending"},
               job'[b] = HasRead(r, from, to)
        PROVE  job'[b].from \in driverActiveRideStates
    BY <2>3 DEF HasRead, driverActiveRideStates
  <2>4. \/ \E r \in Rides :
             /\ Owns(b, r) /\ b \in RiderSessions
             /\ job'[b] = HasRead(r, ride[r].state, "cancelled_by_rider")
        \/ \E r \in Rides, to \in driverAdvanceStates
                                    \cup {"accepted", "cancelled_by_driver"} :
             /\ Owns(b, r) /\ b \in DriverSessions
             /\ canTransitionRideState(ride[r].state, to)
             /\ job'[b] = HasRead(r, ride[r].state, to)
        \/ \E r \in Rides :
             /\ b \in DriverSessions
             /\ job'[b] = HasRead(r, "arrived_at_destination", "payment_pending")
        \/ /\ b \in DriverSessions
           /\ job'[b] = HasRead(job[b].ride, "payment_pending", "completed")
    BY <1>2, StepsOfARequest
  <2>5. QED
    BY <1>1, <1>2, <2>1, <2>2, <2>3, <2>4
<1>3. CASE pc'[b] = "write" /\ (Begin(b) \/ Continue(b) \/ RequestFails(b))
  <2> DEFINE r == job[b].ride
  <2>1. /\ pc[b] = "check" /\ StillInState(b) /\ UNCHANGED rows
        /\ job'[b] = [job[b] EXCEPT !.seen = Len(trail[r])]
    BY <1>3, StepsOfARequest
  <2>2. /\ job'[b].ride = r /\ job'[b].from = job[b].from
        /\ job'[b].to = job[b].to /\ r \in Rides /\ ride' = ride
    BY <2>1, JobTyped DEF Job, HoldsRide, rows
  <2>3. /\ b \in RiderSessions => job[b].to = "cancelled_by_rider"
        /\ b \in DriverSessions => job[b].from \in driverActiveRideStates
    BY <2>1 DEF HoldInv, ChangeOK
  <2>4. ASSUME b \in DriverSessions
        PROVE  /\ ride[r].driver = DriverOf[b]
               /\ \A q \in Rides \ {r} : ~Active(q, DriverOf[b])
    <3>1. ride[r].driver = DriverOf[b] /\ Active(r, DriverOf[b])
      BY <1>1, <2>1, <2>3, <2>4 DEF StillInState, Owns, Active
    <3>2. DriverOf[b] # None
      BY <2>4, SessionAssumption, NoneAssumption
    <3>3. QED
      BY <2>2, <3>1, <3>2 DEF HoldInv, OneActiveRide, Active
  <2>5. QED
    BY <2>2, <2>3, <2>4 DEF Active
<1>4. CASE pc'[b] = pc[b] /\ job'[b] = job[b]
  <2> DEFINE r == job[b].ride
  <2>1. /\ b \in RiderSessions => job[b].to = "cancelled_by_rider"
        /\ b \in DriverSessions => job[b].from \in driverActiveRideStates
    BY <1>4 DEF HoldInv, ChangeOK
  <2>2. ASSUME b \in DriverSessions, pc'[b] = "write"
        PROVE  /\ ride'[r].driver = DriverOf[b]
               /\ \A q \in Rides \ {r} : ~Active(q, DriverOf[b])'
    <3>1. /\ ride[r].driver = DriverOf[b] /\ r \in Rides
          /\ ride[r].state # NoRow
          /\ \A q \in Rides \ {r} : ~Active(q, DriverOf[b])
      BY <1>4, <2>2, JobTyped DEF HoldInv, ChangeOK, HoldsRide
    <3>2. DriverOf[b] # None /\ DriverOf[b] \in Drivers
      BY <2>2, SessionAssumption, NoneAssumption
    <3> HIDE DEF r
    <3>3. CASE UNCHANGED rows
      BY <3>1, <3>3 DEF rows, Active
    <3>4. ASSUME NEW c \in Sessions, NEW p \in Rides, Commits(c, p)
          PROVE  /\ ride'[r].driver = DriverOf[b]
                 /\ \A q \in Rides \ {r} : ~Active(q, DriverOf[b])'
      <4>1. b # c
        BY <1>4, <2>2, <3>4 DEF Commits, BookingCommits, ChangeCommits,
                                DeclineCommits, ClaimCommits
      <4>2. ~Active(p, DriverOf[b])'
        BY <2>2, <3>4, <4>1, OthersGainNothing
      <4>3. \A q \in Rides \ {r} : ~Active(q, DriverOf[b])'
        BY <3>1, <3>2, <3>4, <4>2, OthersStay
      <4>4. ride'[r].driver = DriverOf[b]
        <5>1. CASE p # r
          BY <3>1, <3>4, <5>1, OthersStay
        <5>2. CASE p = r
          <6>1. ~BookingCommits(c, r) /\ ~ClaimCommits(c, r)
            BY <3>1, <3>2 DEF BookingCommits, ClaimCommits
          <6>2. ~DeclineCommits(c, r)
            BY <2>2, <3>1, <4>1 DEF DeclineCommits, SingleSession
          <6>3. QED
            BY <3>1, <3>4, <5>2, <6>1, <6>2 DEF Commits, ChangeCommits
        <5>3. QED
          BY <5>1, <5>2
      <4>5. QED
        BY <4>3, <4>4
    <3>5. QED
      BY <3>3, <3>4, StepCommits
  <2>3. QED
    BY <1>4, <2>1, <2>2
<1>5. QED
  BY <1>2, <1>3, <1>4, Movers

\* With one request in flight per driver, no driver ever has two active rides.
THEOREM OneRideAtATime == SingleSession => (Spec => []OneActiveRide)
<1> SUFFICES ASSUME SingleSession PROVE Spec => []OneActiveRide
  OBVIOUS
<1>1. Init => HoldInv
  <2>1. Init => OneActiveRide
    BY DEF Init, OneActiveRide
  <2>2. Init => ClaimOK /\ ChangeOK
    BY DEF Init, ClaimOK, ChangeOK, Sessions
  <2>3. QED
    BY <2>1, <2>2 DEF HoldInv
<1>2. IInv /\ HoldInv /\ [Next]_vars => HoldInv'
  BY OneActiveRideStep, ClaimOKStep, ChangeOKStep DEF HoldInv
<1>3. HoldInv => OneActiveRide
  BY DEF HoldInv
<1>4. QED
  BY <1>1, <1>2, <1>3, InductiveInvariant, PTL DEF Spec

-----------------------------------------------------------------------------
(***************************************************************************)
(* What the other modules may take for granted of the rides they look at.  *)
(***************************************************************************)

\* A change that is neither an acceptance nor a rider's cancellation is written
\* when the ride has a driver for good.
PartyOK ==
  \A c \in Sessions :
    pc[c] = "write" /\ job[c].to \notin {"accepted", "cancelled_by_rider"} =>
      /\ ride[job[c].ride].driver # None
      /\ ride[job[c].ride].state \notin poolRideStates

\* Such a change does not start in the pool.
LEMMA DriversMoveAcceptedRides ==
  ASSUME NEW from \in RideState,
         NEW to \in driverAdvanceStates
                      \cup {"cancelled_by_driver", "payment_pending", "completed"},
         canTransitionRideState(from, to)
  PROVE  from \notin poolRideStates
BY DEF RideState, normalRideStates, exceptionRideStates, driverAdvanceStates,
       poolRideStates, waitingRideStates, canTransitionRideState, transitions

LEMMA PartyOKStep == ASSUME IInv, RoleOK, PartyOK, [Next]_vars PROVE PartyOK'
<1> SUFFICES ASSUME NEW b \in Sessions, pc'[b] = "write",
                    job'[b].to \notin {"accepted", "cancelled_by_rider"}
             PROVE  /\ ride'[job'[b].ride].driver # None
                    /\ ride'[job'[b].ride].state \notin poolRideStates
  BY DEF PartyOK
<1> DEFINE r == job[b].ride
<1>1. CASE Begin(b) \/ Continue(b) \/ RequestFails(b)
  <2>1. /\ pc[b] = "check" /\ StillInState(b) /\ UNCHANGED rows
        /\ job'[b] = [job[b] EXCEPT !.seen = Len(trail[r])]
    BY <1>1, StepsOfARequest
  <2>2. /\ job'[b].ride = r /\ job'[b].to = job[b].to /\ ride' = ride
    BY <2>1, JobTyped DEF Job, rows
  <2>3. /\ b \in DriverSessions
        /\ job[b].to \in driverAdvanceStates
             \cup {"cancelled_by_driver", "payment_pending", "completed"}
    BY <2>1, <2>2 DEF RoleOK
  <2>4. job[b].from \in RideState /\ canTransitionRideState(job[b].from, job[b].to)
    BY <2>1 DEF IInv, JobOK, HoldsMove
  <2>5. ride[r].state \notin poolRideStates
    BY <2>1, <2>3, <2>4, DriversMoveAcceptedRides DEF StillInState
  <2>6. ride[r].driver # None
    BY <2>1, <2>3, SessionAssumption, NoneAssumption DEF StillInState, Owns
  <2>7. QED
    BY <2>2, <2>5, <2>6
<1>2. CASE pc'[b] = pc[b] /\ job'[b] = job[b]
  <2>1. /\ ride[r].driver # None /\ ride[r].state \notin poolRideStates
        /\ r \in Rides /\ ride[r].state # NoRow
    BY <1>2, JobTyped DEF PartyOK, HoldsRide
  <2> HIDE DEF r
  <2>2. ride'[r].driver # None /\ ride'[r].state \notin poolRideStates
    <3>1. CASE UNCHANGED rows
      BY <2>1, <3>1 DEF rows
    <3>2. ASSUME NEW c \in Sessions, NEW p \in Rides, Commits(c, p)
          PROVE  ride'[r].driver # None /\ ride'[r].state \notin poolRideStates
      <4>1. CASE p # r
        BY <2>1, <3>2, <4>1, OthersStay
      <4>2. CASE p = r
        BY <2>1, <3>2, <4>2 DEF Commits, BookingCommits, ChangeCommits,
                                DeclineCommits, ClaimCommits, poolRideStates
      <4>3. QED
        BY <4>1, <4>2
    <3>3. QED
      BY <3>1, <3>2, StepCommits
  <2>3. QED
    BY <1>2, <2>2 DEF r
<1>3. QED
  BY <1>1, <1>2, Movers

\* Several moves are one to those who look only before and after.
LEMMA MovesAddUp ==
  ASSUME NEW old, NEW mid, NEW to, NEW d,
         MayBecome(old, mid.state, mid.driver, None), MayBecome(mid, to, d, None)
  PROVE  MayBecome(old, to, d, None)
<1>1. \A s \in changeRideStates : s \notin poolRideStates
  BY DEF changeRideStates, driverAdvanceStates, poolRideStates, waitingRideStates
<1>2. CASE old.state \in poolRideStates
  BY <1>2 DEF MayBecome
<1>3. CASE old.state \notin poolRideStates
  <2>1. mid.state \in changeRideStates /\ mid.driver = old.driver
    BY <1>3 DEF MayBecome
  <2>2. QED
    BY <1>1, <1>3, <2>1 DEF MayBecome
<1>4. QED
  BY <1>2, <1>3

\* RideTraffic moves its rides as MayBecome says: no step of dispatch does anything
\* else to a ride, be it a cancelled one that is accepted late, or an accepted one
\* that nobody has because its offer was declined meanwhile.
RidesMoveAsTheyMay ==
  [][\A r \in Rides :
       /\ ride[r].state # NoRow
       /\ ride'[r].state # ride[r].state \/ ride'[r].driver # ride[r].driver
       => MayBecome(ride[r], ride'[r].state, ride'[r].driver, None)]_vars

\* What RideTraffic lets happen to a ride is what dispatch may do to it, in one of
\* its steps or, by MovesAddUp, in several.
THEOREM TrafficIsDispatch == Spec => RidesMoveAsTheyMay
<1> DEFINE AsTheyMay ==
      \A r \in Rides :
        /\ ride[r].state # NoRow
        /\ ride'[r].state # ride[r].state \/ ride'[r].driver # ride[r].driver
        => MayBecome(ride[r], ride'[r].state, ride'[r].driver, None)
<1>1. ASSUME IInv, RoleOK, PartyOK, [Next]_vars PROVE AsTheyMay
  <2>1. CASE UNCHANGED rows
    BY <2>1 DEF rows
  <2>2. ASSUME NEW c \in Sessions, NEW r \in Rides, Commits(c, r),
               ride[r].state # NoRow
        PROVE  MayBecome(ride[r], ride'[r].state, ride'[r].driver, None)
    <3>1. CASE DeclineCommits(c, r)
      BY <3>1 DEF DeclineCommits, MayBecome, poolRideStates
    <3>2. CASE ClaimCommits(c, r)
      <4>1. DriverOf[c] # None
        BY <3>2, SessionAssumption, NoneAssumption DEF ClaimCommits
      <4>2. QED
        BY <3>2, <4>1 DEF ClaimCommits, MayBecome, poolRideStates
    <3>3. ASSUME NEW from \in RideState, NEW to \in RideState,
                 ChangeCommits(c, r, from, to)
          PROVE  MayBecome(ride[r], ride'[r].state, ride'[r].driver, None)
      <4>1. /\ pc[c] = "write" /\ job[c].ride = r /\ job[c].to = to
            /\ ride'[r].state = to /\ ride'[r].driver = ride[r].driver
        BY <3>3 DEF ChangeCommits
      <4>2. to \in changeRideStates
        BY <1>1, <4>1 DEF RoleOK, changeRideStates
      <4>3. ride[r].driver = None => to \in {"accepted", "cancelled_by_rider"}
        BY <1>1, <4>1 DEF PartyOK
      <4>4. QED
        BY <4>1, <4>2, <4>3 DEF MayBecome
    <3>4. QED
      BY <2>2, <3>1, <3>2, <3>3 DEF Commits, BookingCommits
  <2>3. ASSUME NEW c \in Sessions, NEW r \in Rides, Commits(c, r) PROVE AsTheyMay
    BY <2>2, <2>3, OthersStay
  <2>4. QED
    BY <1>1, <2>1, <2>3, StepCommits
<1>2. Init => RoleOK /\ PartyOK
  BY DEF Init, RoleOK, PartyOK
<1>3. IInv /\ RoleOK /\ PartyOK /\ [Next]_vars => RoleOK' /\ PartyOK'
  BY RoleOKStep, PartyOKStep
<1>4. QED
  BY <1>1, <1>2, <1>3, InductiveInvariant, PTL DEF Spec, RidesMoveAsTheyMay
=============================================================================
