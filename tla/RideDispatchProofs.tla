------------------------- MODULE RideDispatchProofs -------------------------
(***************************************************************************)
(* What holds of RideDispatch for any number of riders, drivers, sessions, *)
(* rides and keys, whatever requests overlap or fail: the inductive        *)
(* invariant first, then the safety properties.  Only four kinds of step   *)
(* write rows; the section on commits says what each of them does, and     *)
(* every property is proved from that.                                     *)
(***************************************************************************)
EXTENDS RideDispatch, TLAPS

-----------------------------------------------------------------------------
(***************************************************************************)
(* The inductive invariant.  TypeOK alone is not inductive: what a handler *)
(* writes is what it has read into its local variables, so the invariant   *)
(* says what these hold at each step of a request.                         *)
(***************************************************************************)

\* A request that has read a ride holds a booked one.
HoldsRide(c) ==
  pc[c] \in {"check", "write", "decline", "take", "publish"} =>
    /\ job[c].ride \in Rides
    /\ ride[job[c].ride].state # NoRow

\* A pending state change is a move of the table out of the pool.
HoldsMove(c) ==
  pc[c] \in {"check", "write"} =>
    /\ job[c].from \in RideState /\ job[c].to \in RideState \ poolRideStates
    /\ canTransitionRideState(job[c].from, job[c].to)
    /\ job[c].to = "completed" => c \in DriverSessions

\* The steps of a booking are a rider's, those of a claim or decline a driver's.
HoldsRole(c) ==
  /\ pc[c] \in {"quote", "insert", "refetch"} =>
       c \in RiderSessions /\ job[c].key \in Keys
  /\ pc[c] \in {"decline", "claim", "pick", "take"} => c \in DriverSessions
  /\ pc[c] = "take" => job[c].from \in waitingRideStates
  /\ pc[c] = "publish" => job[c].to \in RideState

\* A ride that is not booked belongs to nobody.
RowOK ==
  \A r \in Rides :
    ride[r].state = NoRow => ride[r].rider = None /\ ride[r].driver = None

JobOK == \A c \in Sessions : HoldsRide(c) /\ HoldsMove(c) /\ HoldsRole(c)

IInv == TypeOK /\ RowOK /\ JobOK

-----------------------------------------------------------------------------
(***************************************************************************)
(* Lemmas.                                                                 *)
(***************************************************************************)

\* The states the handlers name are states of the table, and the moves that
\* dispatch audits without asking are moves of the table.
LEMMA StatesOfTheTable ==
  /\ waitingRideStates \subseteq RideState
  /\ poolRideStates \subseteq RideState
  /\ driverActiveRideStates \subseteq RideState
  /\ NoRow \notin RideState
  /\ driverAdvanceStates \subseteq RideState \ poolRideStates
  /\ { "accepted", "cancelled_by_rider", "cancelled_by_driver",
       "payment_pending", "completed" } \subseteq RideState \ poolRideStates
  /\ "driver_timeout" \in RideState
BY DEF RideState, normalRideStates, exceptionRideStates, poolRideStates,
       waitingRideStates, driverActiveRideStates, driverAdvanceStates, NoRow

LEMMA DispatchMoves ==
  /\ canTransitionRideState("requested", "matching")
  /\ canTransitionRideState("matching", "offered_to_driver")
  /\ canTransitionRideState("offered_to_driver", "driver_timeout")
  /\ canTransitionRideState("driver_timeout", "matching")
  /\ canTransitionRideState("payment_pending", "completed")
BY DEF canTransitionRideState, transitions

LEMMA JobTypes ==
  /\ \A r \in Rides \cup {None}, from, to \in RideState \cup {NoRow} :
       HasRead(r, from, to) \in Job
  /\ \A key \in Keys \cup {None}, pickup, at \in Times :
       HasStamped(key, pickup, at) \in Job
  /\ NoJob \in Job
BY BoundAssumption DEF HasRead, HasStamped, NoJob, Job, Times

\* Nobody owns a ride that is not booked.
LEMMA OwnsBooked ==
  ASSUME IInv, NEW c \in Sessions, NEW r \in Rides, Owns(c, r)
  PROVE  ride[r].state \in RideState
<1>1. RiderOf[c] # None \/ c \notin RiderSessions
  BY SessionAssumption, NoneAssumption
<1>2. DriverOf[c] # None \/ c \notin DriverSessions
  BY SessionAssumption, NoneAssumption
<1>3. ride[r].state # NoRow
  BY <1>1, <1>2 DEF IInv, RowOK, Owns
<1>4. QED
  BY <1>3 DEF IInv, TypeOK, RideRow

\* One request moves on, the others stay where they are.
LEMMA GotoEffect ==
  ASSUME TypeOK, NEW c \in Sessions, NEW step \in Step, NEW local \in Job,
         Goto(c, step, local)
  PROVE  /\ pc' \in [Sessions -> Step] /\ job' \in [Sessions -> Job]
         /\ pc'[c] = step /\ job'[c] = local
         /\ \A b \in Sessions \ {c} : pc'[b] = pc[b] /\ job'[b] = job[b]
BY DEF TypeOK, Goto

\* A step that unbooks no ride and moves one request on keeps JobOK if that
\* request holds what it should.
LEMMA JobOKStep ==
  ASSUME IInv, NEW c \in Sessions, NEW step \in Step, NEW local \in Job,
         Goto(c, step, local),
         \A r \in Rides : ride[r].state # NoRow => ride'[r].state # NoRow,
         HoldsRide(c)', HoldsMove(c)', HoldsRole(c)'
  PROVE  JobOK'
<1>1. \A b \in Sessions \ {c} : pc'[b] = pc[b] /\ job'[b] = job[b]
  BY GotoEffect DEF IInv
<1>2. ASSUME NEW b \in Sessions \ {c}
      PROVE  HoldsRide(b)' /\ HoldsMove(b)' /\ HoldsRole(b)'
  <2>1. HoldsRide(b) /\ HoldsMove(b) /\ HoldsRole(b)
    BY DEF IInv, JobOK
  <2>2. QED
    BY <1>1, <2>1 DEF HoldsRide, HoldsMove, HoldsRole
<1>3. QED
  BY <1>2 DEF JobOK

-----------------------------------------------------------------------------
(***************************************************************************)
(* The invariant is inductive: one lemma per action, or per group of       *)
(* actions with the same effect.                                           *)
(***************************************************************************)

LEMMA InitIInv == Init => IInv
<1> SUFFICES ASSUME Init PROVE IInv
  OBVIOUS
<1>1. TypeOK
  <2>1. ride \in [Rides -> RideRow]
    BY BoundAssumption DEF Init, RideRow, Times
  <2>2. trail \in [Rides -> Seq(AuditRow)]
    BY DEF Init
  <2>3. payment \in [Rides -> PaymentRow]
    BY DEF Init, PaymentRow
  <2>4. job \in [Sessions -> Job]
    BY JobTypes DEF Init
  <2>5. online \in [Drivers -> BOOLEAN]
    BY Zenon DEF Init
  <2>6. /\ told \in [Rides -> RideState \cup {NoRow}]
        /\ pc \in [Sessions -> Step]
    BY DEF Init, Step
  <2>7. clock \in Times
    BY BoundAssumption DEF Init, Times
  <2>8. QED
    BY <2>1, <2>2, <2>3, <2>4, <2>5, <2>6, <2>7 DEF TypeOK
<1>2. RowOK
  BY DEF Init, RowOK
<1>3. JobOK
  BY DEF Init, JobOK, HoldsRide, HoldsMove, HoldsRole
<1>4. QED
  BY <1>1, <1>2, <1>3 DEF IInv

\* A step of a request that reads and writes nothing but its own variables,
\* and perhaps publishes.
LEMMA ReadStep ==
  ASSUME IInv, NEW c \in Sessions, NEW step \in Step, NEW local \in Job,
         Goto(c, step, local), UNCHANGED << rows, online, clock >>,
         told' \in [Rides -> RideState \cup {NoRow}],
         HoldsRide(c)', HoldsMove(c)', HoldsRole(c)'
  PROVE  IInv'
<1>1. TypeOK'
  BY GotoEffect DEF IInv, TypeOK, rows
<1>2. RowOK'
  BY DEF IInv, RowOK, rows
<1>3. JobOK'
  BY JobOKStep DEF rows
<1>4. QED
  BY <1>1, <1>2, <1>3 DEF IInv

\* The request is over.
LEMMA FinishIInv ==
  ASSUME IInv, NEW c \in Sessions, Finish(c),
         UNCHANGED << rows, online, clock >>,
         told' \in [Rides -> RideState \cup {NoRow}]
  PROVE  IInv'
<1>1. Goto(c, "idle", NoJob) /\ "idle" \in Step /\ NoJob \in Job
  BY JobTypes DEF Finish, Step
<1>2. pc'[c] = "idle"
  BY <1>1, GotoEffect DEF IInv
<1>3. HoldsRide(c)' /\ HoldsMove(c)' /\ HoldsRole(c)'
  BY <1>2 DEF HoldsRide, HoldsMove, HoldsRole
<1>4. QED
  BY <1>1, <1>3, ReadStep

\* A request that has read ride r, which is booked, and goes on with it.
LEMMA HasReadIInv ==
  ASSUME IInv, NEW c \in Sessions, NEW step \in Step, NEW r \in Rides,
         NEW from \in RideState \cup {NoRow},
         NEW to \in RideState \cup {NoRow},
         Goto(c, step, HasRead(r, from, to)),
         UNCHANGED << rows, online, clock >>,
         told' \in [Rides -> RideState \cup {NoRow}],
         ride[r].state # NoRow,
         step \in {"check", "decline", "take", "publish"},
         step = "check" =>
           /\ from \in RideState /\ to \in RideState \ poolRideStates
           /\ canTransitionRideState(from, to)
           /\ to = "completed" => c \in DriverSessions,
         step = "decline" => c \in DriverSessions,
         step = "take" => c \in DriverSessions /\ from \in waitingRideStates,
         step = "publish" => to \in RideState
  PROVE  IInv'
<1>1. HasRead(r, from, to) \in Job
  BY JobTypes
<1>2. pc'[c] = step /\ job'[c] = HasRead(r, from, to)
  BY <1>1, GotoEffect DEF IInv
<1>3. /\ job'[c].ride = r /\ job'[c].from = from /\ job'[c].to = to
      /\ ride' = ride
  BY <1>2 DEF HasRead, rows
<1>4. HoldsRide(c)' /\ HoldsMove(c)' /\ HoldsRole(c)'
  BY <1>2, <1>3 DEF HoldsRide, HoldsMove, HoldsRole
<1>5. QED
  BY <1>1, <1>4, ReadStep

\* A step of a booking or claim that goes on with what it has stamped.
LEMMA HasStampedIInv ==
  ASSUME IInv, NEW c \in Sessions, NEW step \in {"quote", "insert", "refetch",
                                                "claim", "pick"},
         NEW key \in Keys \cup {None}, NEW pickup \in Times, NEW at \in Times,
         Goto(c, step, HasStamped(key, pickup, at)),
         UNCHANGED << rows, online, told, clock >>,
         step \in {"quote", "insert", "refetch"} =>
           c \in RiderSessions /\ key \in Keys,
         step \in {"claim", "pick"} => c \in DriverSessions
  PROVE  IInv'
<1>1. HasStamped(key, pickup, at) \in Job /\ step \in Step
  BY JobTypes DEF Step
<1>2. pc'[c] = step /\ job'[c].key = key
  BY <1>1, GotoEffect DEF IInv, HasStamped
<1>3. HoldsRide(c)' /\ HoldsMove(c)' /\ HoldsRole(c)'
  BY <1>2 DEF HoldsRide, HoldsMove, HoldsRole
<1>4. told' \in [Rides -> RideState \cup {NoRow}]
  BY DEF IInv, TypeOK
<1>5. QED
  BY <1>1, <1>3, <1>4, ReadStep

LEMMA StartChangeIInv ==
  ASSUME IInv, NEW c \in Sessions, NEW r \in Rides,
         NEW to \in RideState \ poolRideStates,
         to # "completed", StartChange(c, r, to)
  PROVE  IInv'
<1>1. ride[r].state \in RideState /\ ride[r].state # NoRow
  BY OwnsBooked, StatesOfTheTable DEF StartChange
<1>2. told' \in [Rides -> RideState \cup {NoRow}]
  BY DEF IInv, TypeOK, StartChange
<1>3. "check" \in Step
  BY DEF Step
<1>4. QED
  BY <1>1, <1>2, <1>3, HasReadIInv DEF StartChange

LEMMA BeginIInv == ASSUME IInv, NEW c \in Sessions, Begin(c) PROVE IInv'
<1>1. ASSUME NEW key \in Keys, CreateRide(c, key) PROVE IInv'
  <2>1. PICK pickup \in {0} \cup (clock + 1) .. MaxClock :
          Goto(c, "quote", HasStamped(key, pickup, 0))
    BY <1>1 DEF CreateRide
  <2>2. 0 \in Times /\ pickup \in Times
    BY BoundAssumption DEF IInv, TypeOK, Times
  <2>3. QED
    BY <1>1, <2>1, <2>2, HasStampedIInv DEF CreateRide
<1>2. ASSUME NEW r \in Rides, RiderCancelRide(c, r) PROVE IInv'
  BY <1>2, StartChangeIInv, StatesOfTheTable DEF RiderCancelRide
<1>3. ASSUME NEW r \in Rides, AcceptRide(c, r) PROVE IInv'
  BY <1>3, StartChangeIInv, StatesOfTheTable DEF AcceptRide
<1>4. ASSUME NEW r \in Rides, AdvanceRide(c, r) PROVE IInv'
  <2>1. PICK to \in driverAdvanceStates : StartChange(c, r, to)
    BY <1>4 DEF AdvanceRide
  <2>2. to # "completed"
    BY DEF driverAdvanceStates
  <2>3. QED
    BY <2>1, <2>2, StartChangeIInv, StatesOfTheTable
<1>5. ASSUME NEW r \in Rides, DriverCancelRide(c, r) PROVE IInv'
  BY <1>5, StartChangeIInv, StatesOfTheTable DEF DriverCancelRide
<1>6. ASSUME NEW r \in Rides, CompleteRide(c, r) PROVE IInv'
  BY <1>6, StartChangeIInv, StatesOfTheTable DEF CompleteRide
<1>7. ASSUME NEW r \in Rides, DeclineRide(c, r) PROVE IInv'
  <2>1. ride[r].state # NoRow
    BY <1>7 DEF DeclineRide, HoldsOffer, NoRow
  <2>2. told' \in [Rides -> RideState \cup {NoRow}]
    BY <1>7 DEF IInv, TypeOK, DeclineRide
  <2>3. "decline" \in Step
    BY DEF Step
  <2>4. QED
    BY <1>7, <2>1, <2>2, <2>3, HasReadIInv DEF DeclineRide
<1>8. CASE GetCurrentRide(c)
  <2>1. 0 \in Times /\ clock \in Times
    BY BoundAssumption DEF IInv, TypeOK, Times
  <2>2. QED
    BY <1>8, <2>1, HasStampedIInv DEF GetCurrentRide
<1>9. QED
  BY <1>1, <1>2, <1>3, <1>4, <1>5, <1>6, <1>7, <1>8 DEF Begin

\* A transaction on ride r commits row, entries and pay, and the request goes
\* on to publish state to.
LEMMA CommitStep ==
  ASSUME IInv, NEW c \in Sessions, NEW r \in Rides,
         NEW row \in RideRow, NEW entries \in Seq(AuditRow),
         NEW pay \in PaymentRow, NEW to \in RideState,
         row.state = to,
         ride' = [ride EXCEPT ![r] = row],
         Audit(r, entries),
         payment' = [payment EXCEPT ![r] = pay],
         Goto(c, "publish", HasRead(r, NoRow, to)),
         UNCHANGED << online, told, clock >>
  PROVE  IInv'
<1>1. /\ ride' \in [Rides -> RideRow] /\ ride'[r] = row
      /\ \A q \in Rides \ {r} : ride'[q] = ride[q]
  BY DEF IInv, TypeOK
<1>2. trail' \in [Rides -> Seq(AuditRow)]
  <2>1. trail \in [Rides -> Seq(AuditRow)] /\ trail[r] \in Seq(AuditRow)
    BY DEF IInv, TypeOK
  <2>2. trail[r] \o entries \in Seq(AuditRow)
    BY <2>1
  <2>3. QED
    BY <2>1, <2>2 DEF Audit
<1>3. payment' \in [Rides -> PaymentRow]
  BY DEF IInv, TypeOK
<1>4. HasRead(r, NoRow, to) \in Job /\ "publish" \in Step
  BY JobTypes DEF Step
<1>5. /\ pc' \in [Sessions -> Step] /\ job' \in [Sessions -> Job]
      /\ pc'[c] = "publish" /\ job'[c] = HasRead(r, NoRow, to)
  BY <1>4, GotoEffect DEF IInv
<1>6. TypeOK'
  BY <1>1, <1>2, <1>3, <1>5 DEF IInv, TypeOK
<1>7. RowOK'
  BY <1>1, StatesOfTheTable DEF IInv, RowOK
<1>8. HoldsRide(c)' /\ HoldsMove(c)' /\ HoldsRole(c)'
  <2>1. job'[c].ride = r /\ job'[c].to = to
    BY <1>5 DEF HasRead
  <2>2. QED
    BY <1>1, <1>5, <2>1, StatesOfTheTable DEF HoldsRide, HoldsMove, HoldsRole
<1>9. \A q \in Rides : ride[q].state # NoRow => ride'[q].state # NoRow
  BY <1>1, StatesOfTheTable
<1>10. JobOK'
  BY <1>4, <1>8, <1>9, JobOKStep
<1>11. QED
  BY <1>6, <1>7, <1>10 DEF IInv

\* WHERE clauses that compare the state find a booked ride; what a request
\* has read stays well typed.
LEMMA JobTyped ==
  ASSUME IInv, NEW c \in Sessions
  PROVE  /\ job[c] \in Job /\ job[c].from \in RideState \cup {NoRow}
         /\ job[c].to \in RideState \cup {NoRow}
         /\ job[c].key \in Keys \cup {None}
         /\ job[c].pickup \in Times /\ job[c].at \in Times /\ clock \in Times
         /\ HoldsRide(c) /\ HoldsMove(c) /\ HoldsRole(c)
BY DEF IInv, TypeOK, JobOK, Job

LEMMA QuoteRideIInv == ASSUME IInv, NEW c \in Sessions, QuoteRide(c) PROVE IInv'
BY JobTyped, HasStampedIInv DEF QuoteRide, HoldsRole

LEMMA InsertRideIInv ==
  ASSUME IInv, NEW c \in Sessions, InsertRide(c) PROVE IInv'
<1>1. c \in RiderSessions /\ job[c].key \in Keys /\ RiderOf[c] \in Riders
  BY JobTyped, SessionAssumption DEF InsertRide, HoldsRole
<1>2. CASE Booked(RiderOf[c], job[c].key) # {}
  <2>1. 0 \in Times
    BY BoundAssumption DEF Times
  <2>2. QED
    BY <1>1, <1>2, <2>1, HasStampedIInv DEF InsertRide
<1>3. CASE Booked(RiderOf[c], job[c].key) = {}
  <2> DEFINE row == [ state |-> "requested", driver |-> None,
                      rider |-> RiderOf[c], key |-> job[c].key,
                      pickup |-> job[c].pickup,
                      requestedAt |-> job[c].at, finalFare |-> FALSE ]
             entry == Entry(NoRow, "requested", RiderOf[c])
  <2>1. PICK r \in Rides :
          /\ ride' = [ride EXCEPT ![r] = row]
          /\ Audit(r, << entry >>)
          /\ payment' = [payment EXCEPT ![r].status = "pending"]
          /\ Goto(c, "publish", HasRead(r, NoRow, "requested"))
    BY <1>3 DEF InsertRide
  <2>2. "requested" \in RideState
    BY StatesOfTheTable DEF waitingRideStates
  <2>3. row \in RideRow /\ row.state = "requested"
    BY <1>1, <2>2, JobTyped DEF RideRow
  <2>4. << entry >> \in Seq(AuditRow)
    BY <1>1, <2>2 DEF Entry, AuditRow, Actors
  <2>5. [payment[r] EXCEPT !.status = "pending"] \in PaymentRow
    BY DEF IInv, TypeOK, PaymentRow
  <2>6. payment' = [payment EXCEPT ![r] = [payment[r] EXCEPT !.status = "pending"]]
    BY <2>1
  <2> HIDE DEF row, entry
  <2>7. QED
    BY <2>1, <2>2, <2>3, <2>4, <2>5, <2>6, CommitStep DEF InsertRide
<1>4. QED
  BY <1>2, <1>3

LEMMA RefetchRideIInv ==
  ASSUME IInv, NEW c \in Sessions, RefetchRide(c) PROVE IInv'
<1>1. c \in RiderSessions /\ RiderOf[c] # None
  BY JobTyped, SessionAssumption, NoneAssumption DEF RefetchRide, HoldsRole
<1>2. PICK r \in Booked(RiderOf[c], job[c].key) :
        Goto(c, "publish", HasRead(r, NoRow, ride[r].state))
  BY DEF RefetchRide
<1>3. r \in Rides /\ ride[r].state \in RideState
  BY <1>1, OwnsBooked DEF Booked, Owns
<1>4. told' \in [Rides -> RideState \cup {NoRow}] /\ "publish" \in Step
  BY DEF RefetchRide, IInv, TypeOK, Step
<1>5. QED
  BY <1>2, <1>3, <1>4, HasReadIInv, StatesOfTheTable DEF RefetchRide

LEMMA CheckStateIInv ==
  ASSUME IInv, NEW c \in Sessions, CheckState(c) PROVE IInv'
<1> DEFINE local == [job[c] EXCEPT !.seen = Len(trail[job[c].ride])]
<1>1. told' \in [Rides -> RideState \cup {NoRow}]
  BY DEF CheckState, IInv, TypeOK
<1>2. CASE StillInState(c)
  <2>1. job[c] \in Job /\ job[c].ride \in Rides
        /\ ride[job[c].ride].state # NoRow
    BY JobTyped DEF CheckState, HoldsRide
  <2>2. Len(trail[job[c].ride]) \in Nat
    BY <2>1 DEF IInv, TypeOK
  <2>3. local \in Job /\ "write" \in Step
    BY <2>1, <2>2 DEF Job, Step
  <2>4. /\ local.ride = job[c].ride /\ local.from = job[c].from
        /\ local.to = job[c].to
    BY <2>1 DEF Job
  <2>5. Goto(c, "write", local) /\ UNCHANGED << rows, online, told, clock >>
    BY <1>2 DEF CheckState
  <2> HIDE DEF local
  <2>6. pc'[c] = "write" /\ job'[c] = local /\ ride' = ride
    BY <2>3, <2>5, GotoEffect DEF IInv, rows
  <2>7. HoldsRide(c)' /\ HoldsMove(c)' /\ HoldsRole(c)'
    <3>1. HoldsMove(c) /\ pc[c] = "check"
      BY JobTyped DEF CheckState
    <3>2. QED
      BY <2>1, <2>4, <2>6, <3>1 DEF HoldsRide, HoldsMove, HoldsRole
  <2>8. QED
    BY <1>1, <2>3, <2>5, <2>7, ReadStep
<1>3. CASE ~StillInState(c)
  BY <1>1, <1>3, FinishIInv DEF CheckState
<1>4. QED
  BY <1>2, <1>3

\* What Settle does to the payments.
LEMMA SettleEffect ==
  ASSUME IInv, NEW c \in Sessions, NEW r \in Rides, NEW to \in RideState,
         to = "completed" => c \in DriverSessions,
         Settle(c, r, to)
  PROVE  \E pay \in PaymentRow : payment' = [payment EXCEPT ![r] = pay]
<1>1. payment \in [Rides -> PaymentRow]
  BY DEF IInv, TypeOK
<1>2. CASE to = "completed" /\ payment[r].status = "pending"
  <2> DEFINE pay == [status |-> "paid", collectedBy |-> DriverOf[c]]
  <2>1. pay \in PaymentRow
    BY <1>2, SessionAssumption DEF PaymentRow
  <2>2. payment' = [payment EXCEPT ![r] = pay]
    BY <1>2 DEF Settle, Collect
  <2>3. QED
    BY <2>1, <2>2
<1>3. CASE ~(to = "completed" /\ payment[r].status = "pending")
  <2>1. payment' = payment
    BY <1>3 DEF Settle, Collect
  <2>2. payment' = [payment EXCEPT ![r] = payment[r]] /\ payment[r] \in PaymentRow
    BY <1>1, <2>1
  <2>3. QED
    BY <2>2
<1>4. QED
  BY <1>2, <1>3

LEMMA WriteStateIInv ==
  ASSUME IInv, NEW c \in Sessions, WriteState(c) PROVE IInv'
<1> DEFINE r == job[c].ride
           to == job[c].to
           row == [ride[r] EXCEPT !.state = to,
                                  !.finalFare = @ \/ to = "completed"]
           entry == Entry(job[c].from, to, ActorOf(c, to))
<1>1. /\ r \in Rides /\ to \in RideState /\ job[c].from \in RideState
      /\ to = "completed" => c \in DriverSessions
  BY JobTyped DEF WriteState, HoldsRide, HoldsMove
<1>2. row \in RideRow /\ row.state = to
  <2>1. ride[r] \in RideRow
    BY <1>1 DEF IInv, TypeOK
  <2>2. QED
    BY <1>1, <2>1 DEF RideRow
<1>3. ride' = [ride EXCEPT ![r] = row]
  BY DEF WriteState
<1>4. << entry >> \in Seq(AuditRow)
  BY <1>1, SessionAssumption DEF Entry, AuditRow, Actors, ActorOf, Sessions
<1>5. PICK pay \in PaymentRow : payment' = [payment EXCEPT ![r] = pay]
  BY <1>1, SettleEffect DEF WriteState
<1>6. /\ Audit(r, << entry >>) /\ Goto(c, "publish", HasRead(r, NoRow, to))
      /\ UNCHANGED << online, told, clock >>
  BY DEF WriteState
<1> HIDE DEF r, to, row, entry
<1>7. QED
  BY <1>1, <1>2, <1>3, <1>4, <1>5, <1>6, CommitStep

LEMMA PublishIInv ==
  ASSUME IInv, NEW c \in Sessions, Publish(c) PROVE IInv'
<1>1. /\ job[c].ride \in Rides /\ ride[job[c].ride].state # NoRow
      /\ job[c].to \in RideState
  BY JobTyped DEF Publish, HoldsRide, HoldsRole
<1>2. told' \in [Rides -> RideState \cup {NoRow}]
  BY <1>1 DEF Publish, IInv, TypeOK
<1>3. CASE c \in DriverSessions /\ job[c].to = "payment_pending"
  <2>1. /\ "payment_pending" \in RideState
        /\ "completed" \in RideState \ poolRideStates /\ "check" \in Step
    BY StatesOfTheTable DEF Step
  <2>2. Goto(c, "check", HasRead(job[c].ride, "payment_pending", "completed"))
    BY <1>3 DEF Publish
  <2>3. QED
    BY <1>1, <1>2, <1>3, <2>1, <2>2, DispatchMoves, HasReadIInv DEF Publish
<1>4. CASE ~(c \in DriverSessions /\ job[c].to = "payment_pending")
  BY <1>2, <1>4, FinishIInv DEF Publish
<1>5. QED
  BY <1>3, <1>4

LEMMA DeclineOfferIInv ==
  ASSUME IInv, NEW c \in Sessions, DeclineOffer(c) PROVE IInv'
<1> DEFINE r == job[c].ride
           row == [ride[r] EXCEPT !.state = "matching", !.driver = None]
           entries == << Entry("offered_to_driver", "driver_timeout", DriverOf[c]),
                         Entry("driver_timeout", "matching", "dispatch") >>
<1>1. r \in Rides /\ c \in DriverSessions
  BY JobTyped DEF DeclineOffer, HoldsRide, HoldsRole
<1>2. told' \in [Rides -> RideState \cup {NoRow}]
  BY DEF DeclineOffer, IInv, TypeOK
<1>3. CASE HoldsOffer(c, r)
  <2>1. "matching" \in RideState /\ "driver_timeout" \in RideState
        /\ "offered_to_driver" \in RideState
    BY StatesOfTheTable DEF waitingRideStates, driverActiveRideStates
  <2>2. row \in RideRow /\ row.state = "matching"
    <3>1. ride[r] \in RideRow
      BY <1>1 DEF IInv, TypeOK
    <3>2. QED
      BY <2>1, <3>1 DEF RideRow
  <2>3. entries \in Seq(AuditRow)
    BY <1>1, <2>1, SessionAssumption DEF Entry, AuditRow, Actors
  <2>4. /\ ride' = [ride EXCEPT ![r] = row] /\ Audit(r, entries)
        /\ Goto(c, "publish", HasRead(r, NoRow, "matching"))
        /\ UNCHANGED << payment, online, told, clock >>
    BY <1>3 DEF DeclineOffer
  <2>5. payment[r] \in PaymentRow /\ payment' = [payment EXCEPT ![r] = payment[r]]
    BY <1>1, <2>4 DEF IInv, TypeOK
  <2> HIDE DEF r, row, entries
  <2>6. QED
    BY <1>1, <2>1, <2>2, <2>3, <2>4, <2>5, CommitStep
<1>4. CASE ~HoldsOffer(c, r)
  BY <1>2, <1>4, FinishIInv DEF DeclineOffer, rows
<1>5. QED
  BY <1>3, <1>4

LEMMA ClaimReadDriverIInv ==
  ASSUME IInv, NEW c \in Sessions, ClaimReadDriver(c) PROVE IInv'
<1>1. told' \in [Rides -> RideState \cup {NoRow}]
  BY DEF ClaimReadDriver, IInv, TypeOK
<1>2. CASE online[DriverOf[c]]
  <2>1. Goto(c, "pick", job[c]) /\ "pick" \in Step /\ job[c] \in Job
    BY <1>2, JobTyped DEF ClaimReadDriver, Step
  <2>2. pc'[c] = "pick" /\ c \in DriverSessions
    BY <2>1, GotoEffect, JobTyped DEF IInv, ClaimReadDriver, HoldsRole
  <2>3. HoldsRide(c)' /\ HoldsMove(c)' /\ HoldsRole(c)'
    BY <2>2 DEF HoldsRide, HoldsMove, HoldsRole
  <2>4. QED
    BY <1>1, <2>1, <2>3, ReadStep DEF ClaimReadDriver
<1>3. CASE ~online[DriverOf[c]]
  BY <1>1, <1>3, FinishIInv DEF ClaimReadDriver
<1>4. QED
  BY <1>2, <1>3

LEMMA ClaimPickIInv ==
  ASSUME IInv, NEW c \in Sessions, ClaimPick(c) PROVE IInv'
<1>1. told' \in [Rides -> RideState \cup {NoRow}]
  BY DEF ClaimPick, IInv, TypeOK
<1>2. CASE Finish(c)
  BY <1>1, <1>2, FinishIInv DEF ClaimPick
<1>3. ASSUME NEW r \in Candidates(job[c].at),
             Goto(c, "take", HasRead(r, ride[r].state, NoRow))
      PROVE  IInv'
  <2>1. r \in Rides /\ ride[r].state \in waitingRideStates
    BY <1>3 DEF Candidates
  <2>2. c \in DriverSessions /\ "take" \in Step
    BY JobTyped DEF ClaimPick, HoldsRole, Step
  <2>3. QED
    BY <1>1, <1>3, <2>1, <2>2, StatesOfTheTable, HasReadIInv DEF ClaimPick
<1>4. QED
  BY <1>2, <1>3 DEF ClaimPick

\* The audit rows of a claim.
LEMMA ClaimRowsType ==
  ASSUME NEW from \in waitingRideStates PROVE ClaimRows(from) \in Seq(AuditRow)
<1>1. "requested" \in RideState /\ "matching" \in RideState
      /\ "offered_to_driver" \in RideState
  BY StatesOfTheTable DEF waitingRideStates, driverActiveRideStates
<1>2. /\ Entry("matching", "offered_to_driver", "dispatch") \in AuditRow
      /\ Entry("requested", "matching", "dispatch") \in AuditRow
  BY <1>1 DEF Entry, AuditRow, Actors
<1>3. QED
  BY <1>2 DEF ClaimRows

LEMMA ClaimTakeIInv ==
  ASSUME IInv, NEW c \in Sessions, ClaimTake(c) PROVE IInv'
<1> DEFINE r == job[c].ride
           row == [ride[r] EXCEPT !.state = "offered_to_driver",
                                  !.driver = DriverOf[c]]
           entries == ClaimRows(job[c].from)
<1>1. r \in Rides /\ c \in DriverSessions /\ job[c].from \in waitingRideStates
  BY JobTyped DEF ClaimTake, HoldsRide, HoldsRole
<1>2. told' \in [Rides -> RideState \cup {NoRow}]
  BY DEF ClaimTake, IInv, TypeOK
<1>3. CASE StillUnclaimed(c, r)
  <2>1. "offered_to_driver" \in RideState
    BY StatesOfTheTable DEF driverActiveRideStates
  <2>2. row \in RideRow /\ row.state = "offered_to_driver"
    <3>1. ride[r] \in RideRow
      BY <1>1 DEF IInv, TypeOK
    <3>2. QED
      BY <1>1, <2>1, <3>1, SessionAssumption DEF RideRow
  <2>3. entries \in Seq(AuditRow)
    BY <1>1, ClaimRowsType
  <2>4. /\ ride' = [ride EXCEPT ![r] = row] /\ Audit(r, entries)
        /\ Goto(c, "publish", HasRead(r, NoRow, "offered_to_driver"))
        /\ UNCHANGED << payment, online, told, clock >>
    BY <1>3 DEF ClaimTake
  <2>5. payment[r] \in PaymentRow /\ payment' = [payment EXCEPT ![r] = payment[r]]
    BY <1>1, <2>4 DEF IInv, TypeOK
  <2> HIDE DEF r, row, entries
  <2>6. QED
    BY <1>1, <2>1, <2>2, <2>3, <2>4, <2>5, CommitStep
<1>4. CASE ~StillUnclaimed(c, r)
  BY <1>2, <1>4, FinishIInv DEF ClaimTake, rows
<1>5. QED
  BY <1>3, <1>4

LEMMA ContinueIInv == ASSUME IInv, NEW c \in Sessions, Continue(c) PROVE IInv'
BY QuoteRideIInv, InsertRideIInv, RefetchRideIInv, CheckStateIInv,
   WriteStateIInv, DeclineOfferIInv, ClaimReadDriverIInv, ClaimPickIInv,
   ClaimTakeIInv, PublishIInv DEF Continue

\* Steps outside the requests: the duty switch and the clock.
LEMMA EnvironmentIInv ==
  ASSUME IInv, \/ \E d \in Drivers, on \in BOOLEAN : UpdateAvailability(d, on)
               \/ Tick
  PROVE  IInv'
<1>1. /\ UNCHANGED << rows, told, pc, job >>
      /\ online' \in [Drivers -> BOOLEAN] /\ clock' \in Times
  BY BoundAssumption DEF IInv, TypeOK, UpdateAvailability, Tick, Times
<1>2. TypeOK' /\ RowOK'
  BY <1>1 DEF IInv, TypeOK, RowOK, rows
<1>3. JobOK'
  BY <1>1 DEF IInv, JobOK, HoldsRide, HoldsMove, HoldsRole, rows
<1>4. QED
  BY <1>2, <1>3 DEF IInv

LEMMA NextIInv == IInv /\ [Next]_vars => IInv'
<1> SUFFICES ASSUME IInv, [Next]_vars PROVE IInv'
  OBVIOUS
<1>1. ASSUME NEW c \in Sessions, Begin(c) PROVE IInv'
  BY <1>1, BeginIInv
<1>2. ASSUME NEW c \in Sessions, Continue(c) PROVE IInv'
  BY <1>2, ContinueIInv
<1>3. ASSUME NEW c \in Sessions, RequestFails(c) PROVE IInv'
  BY <1>3, FinishIInv DEF RequestFails, IInv, TypeOK
<1>4. CASE UNCHANGED vars
  BY <1>4 DEF vars, IInv, TypeOK, RowOK, JobOK, HoldsRide, HoldsMove, HoldsRole
<1>5. QED
  BY <1>1, <1>2, <1>3, <1>4, EnvironmentIInv DEF Next

\* The inductive invariant holds in every behaviour.
LEMMA InductiveInvariant == Spec => []IInv
BY InitIInv, NextIInv, PTL DEF Spec

\* Every variable, row and request keeps its type, for any number of accounts,
\* sessions and rides.
THEOREM TypeCorrect == Spec => []TypeOK
<1>1. IInv => TypeOK
  BY DEF IInv
<1>2. QED
  BY <1>1, InductiveInvariant, PTL

-----------------------------------------------------------------------------
(***************************************************************************)
(* The steps that commit.                                                  *)
(***************************************************************************)

\* Nothing but the rows of ride r changes.
OnlyRide(r) ==
  \A q \in Rides \ {r} : /\ ride'[q] = ride[q] /\ trail'[q] = trail[q]
                         /\ payment'[q] = payment[q]

BookingCommits(c, r) ==
  /\ c \in RiderSessions /\ pc[c] = "insert" /\ pc'[c] = "publish"
  /\ ride[r].state = NoRow /\ Booked(RiderOf[c], job[c].key) = {}
  /\ OnlyRide(r)
  /\ ride'[r].state = "requested" /\ ride'[r].driver = None
  /\ ride'[r].rider = RiderOf[c] /\ ride'[r].key = job[c].key
  /\ ride'[r].finalFare = FALSE
  /\ trail'[r] = Append(trail[r], Entry(NoRow, "requested", RiderOf[c]))
  /\ payment'[r].status = "pending"
  /\ payment'[r].collectedBy = payment[r].collectedBy

ChangeCommits(c, r, from, to) ==
  /\ pc[c] = "write" /\ pc'[c] = "publish"
  /\ r = job[c].ride /\ from = job[c].from /\ to = job[c].to
  /\ ride[r].state # NoRow
  /\ from \in RideState /\ to \in RideState \ poolRideStates
  /\ canTransitionRideState(from, to)
  /\ to = "completed" => c \in DriverSessions
  /\ OnlyRide(r)
  /\ ride'[r].state = to /\ ride'[r].driver = ride[r].driver
  /\ ride'[r].rider = ride[r].rider /\ ride'[r].key = ride[r].key
  /\ ride'[r].finalFare = (ride[r].finalFare \/ to = "completed")
  /\ trail'[r] = Append(trail[r], Entry(from, to, ActorOf(c, to)))
  /\ payment'[r] = IF to = "completed" /\ payment[r].status = "pending"
                   THEN [status |-> "paid", collectedBy |-> DriverOf[c]]
                   ELSE payment[r]

DeclineCommits(c, r) ==
  /\ c \in DriverSessions /\ pc[c] = "decline" /\ pc'[c] = "publish"
  /\ ride[r].state = "offered_to_driver" /\ ride[r].driver = DriverOf[c]
  /\ OnlyRide(r)
  /\ ride'[r].state = "matching" /\ ride'[r].driver = None
  /\ ride'[r].rider = ride[r].rider /\ ride'[r].key = ride[r].key
  /\ ride'[r].finalFare = ride[r].finalFare /\ payment'[r] = payment[r]
  /\ trail'[r] = Append(Append(trail[r],
                   Entry("offered_to_driver", "driver_timeout", DriverOf[c])),
                   Entry("driver_timeout", "matching", "dispatch"))

ClaimCommits(c, r) ==
  /\ c \in DriverSessions /\ pc[c] = "take" /\ pc'[c] = "publish"
  /\ ride[r].state \in waitingRideStates /\ ride[r].driver = None
  /\ OnlyRide(r)
  /\ ride'[r].state = "offered_to_driver" /\ ride'[r].driver = DriverOf[c]
  /\ ride'[r].rider = ride[r].rider /\ ride'[r].key = ride[r].key
  /\ ride'[r].finalFare = ride[r].finalFare /\ payment'[r] = payment[r]
  /\ trail'[r] =
       Append(IF ride[r].state = "requested"
              THEN Append(trail[r], Entry("requested", "matching", "dispatch"))
              ELSE trail[r],
              Entry("matching", "offered_to_driver", "dispatch"))

Commits(c, r) ==
  \/ BookingCommits(c, r)
  \/ \E from, to \in RideState : ChangeCommits(c, r, from, to)
  \/ DeclineCommits(c, r)
  \/ ClaimCommits(c, r)

\* Concatenation with one or two rows is Append.
LEMMA AppendRows ==
  ASSUME NEW s \in Seq(AuditRow), NEW x \in AuditRow, NEW y \in AuditRow
  PROVE  /\ s \o << x >> = Append(s, x)
         /\ s \o << x, y >> = Append(Append(s, x), y)
         /\ s \o (<< x >> \o << y >>) = Append(Append(s, x), y)
         /\ Append(s, x) \in Seq(AuditRow)
         /\ Append(Append(s, x), y) \in Seq(AuditRow)
OBVIOUS

\* Where a Goto leads.
LEMMA GotoLeads ==
  ASSUME IInv, NEW c \in Sessions, NEW step, NEW local, Goto(c, step, local)
  PROVE  pc'[c] = step /\ job'[c] = local
BY DEF IInv, TypeOK, Goto

\* What a booking writes.
LEMMA InsertCommits ==
  ASSUME IInv, NEW c \in Sessions, InsertRide(c)
  PROVE  UNCHANGED rows \/ \E r \in Rides : BookingCommits(c, r)
<1>1. c \in RiderSessions /\ RiderOf[c] \in Riders
  BY JobTyped, SessionAssumption DEF InsertRide, HoldsRole
<1>2. CASE Booked(RiderOf[c], job[c].key) # {}
  BY <1>2 DEF InsertRide
<1>3. CASE Booked(RiderOf[c], job[c].key) = {}
  <2> DEFINE row == [ state |-> "requested", driver |-> None,
                      rider |-> RiderOf[c], key |-> job[c].key,
                      pickup |-> job[c].pickup,
                      requestedAt |-> job[c].at, finalFare |-> FALSE ]
             entry == Entry(NoRow, "requested", RiderOf[c])
  <2>1. PICK r \in Rides :
          /\ ride[r].state = NoRow
          /\ ride' = [ride EXCEPT ![r] = row]
          /\ trail' = [trail EXCEPT ![r] = @ \o << entry >>]
          /\ payment' = [payment EXCEPT ![r].status = "pending"]
          /\ pc'[c] = "publish"
    BY <1>3, GotoLeads DEF InsertRide, Audit
  <2>2. entry \in AuditRow
    BY <1>1, StatesOfTheTable DEF Entry, AuditRow, Actors, waitingRideStates
  <2>3. /\ ride \in [Rides -> RideRow] /\ payment \in [Rides -> PaymentRow]
        /\ trail \in [Rides -> Seq(AuditRow)]
    BY DEF IInv, TypeOK
  <2>4. OnlyRide(r)
    BY <2>1, <2>3 DEF OnlyRide
  <2>5. ride'[r] = row
    BY <2>1, <2>3
  <2>6. trail'[r] = Append(trail[r], entry)
    <3>1. trail'[r] = trail[r] \o << entry >>
      BY <2>1, <2>3
    <3>2. QED
      BY <2>2, <2>3, <3>1, AppendRows
  <2>7. /\ payment'[r].status = "pending"
        /\ payment'[r].collectedBy = payment[r].collectedBy
    BY <2>1, <2>3 DEF PaymentRow
  <2> HIDE DEF entry
  <2>8. BookingCommits(c, r)
    BY <1>1, <1>3, <2>1, <2>4, <2>5, <2>6, <2>7
    DEF BookingCommits, InsertRide, entry
  <2>9. QED
    BY <2>8
<1>4. QED
  BY <1>2, <1>3

\* What a state change writes.
LEMMA WriteCommits ==
  ASSUME IInv, NEW c \in Sessions, WriteState(c)
  PROVE  /\ job[c].ride \in Rides
         /\ job[c].from \in RideState /\ job[c].to \in RideState
         /\ ChangeCommits(c, job[c].ride, job[c].from, job[c].to)
<1> DEFINE r == job[c].ride
           to == job[c].to
           row == [ride[r] EXCEPT !.state = to,
                                  !.finalFare = @ \/ to = "completed"]
           entry == Entry(job[c].from, to, ActorOf(c, to))
<1>1. /\ r \in Rides /\ to \in RideState \ poolRideStates
      /\ job[c].from \in RideState /\ ride[r].state # NoRow
      /\ canTransitionRideState(job[c].from, to)
      /\ to = "completed" => c \in DriverSessions
  BY JobTyped DEF WriteState, HoldsRide, HoldsMove
<1>2. /\ ride \in [Rides -> RideRow] /\ payment \in [Rides -> PaymentRow]
      /\ trail \in [Rides -> Seq(AuditRow)]
  BY DEF IInv, TypeOK
<1>3. /\ ride' = [ride EXCEPT ![r] = row]
      /\ trail' = [trail EXCEPT ![r] = @ \o << entry >>]
      /\ Settle(c, r, to)
  BY DEF WriteState, Audit
<1>4. entry \in AuditRow
  BY <1>1, SessionAssumption DEF Entry, AuditRow, Actors, ActorOf, Sessions
<1>5. /\ \A q \in Rides \ {r} : payment'[q] = payment[q]
      /\ payment'[r] = IF to = "completed" /\ payment[r].status = "pending"
                       THEN [status |-> "paid", collectedBy |-> DriverOf[c]]
                       ELSE payment[r]
  <2>1. CASE to = "completed" /\ payment[r].status = "pending"
    <3>1. payment' = [payment EXCEPT ![r] = [status |-> "paid",
                                             collectedBy |-> DriverOf[c]]]
      BY <1>3, <2>1 DEF Settle, Collect
    <3>2. QED
      BY <1>1, <1>2, <2>1, <3>1
  <2>2. CASE ~(to = "completed" /\ payment[r].status = "pending")
    BY <1>3, <2>2 DEF Settle, Collect
  <2>3. QED
    BY <2>1, <2>2
<1>6. OnlyRide(r)
  <2>1. \A q \in Rides \ {r} : ride'[q] = ride[q] /\ trail'[q] = trail[q]
    BY <1>2, <1>3
  <2>2. QED
    BY <1>5, <2>1 DEF OnlyRide
<1>7. ride'[r] = row /\ ride[r] \in RideRow
  BY <1>1, <1>2, <1>3
<1>8. /\ ride'[r].state = to /\ ride'[r].driver = ride[r].driver
      /\ ride'[r].rider = ride[r].rider /\ ride'[r].key = ride[r].key
  BY <1>7 DEF RideRow
<1>9. ride'[r].finalFare = (ride[r].finalFare \/ to = "completed")
  BY <1>7 DEF RideRow
<1>10. trail'[r] = Append(trail[r], entry)
  <2>1. trail'[r] = trail[r] \o << entry >>
    BY <1>1, <1>2, <1>3
  <2>2. QED
    BY <1>1, <1>2, <1>4, <2>1, AppendRows
<1>11. ChangeCommits(c, r, job[c].from, to)
  <2> HIDE DEF row, r, to
  <2>1. pc[c] = "write" /\ r = job[c].ride /\ to = job[c].to
    BY DEF WriteState, r, to
  <2>2. pc'[c] = "publish"
    BY GotoLeads DEF WriteState
  <2>3. QED
    BY <1>1, <1>5, <1>6, <1>8, <1>9, <1>10, <2>1, <2>2 DEF ChangeCommits
<1>12. QED
  BY <1>1, <1>11

\* What a decline writes.
LEMMA DeclineWrites ==
  ASSUME IInv, NEW c \in Sessions, DeclineOffer(c)
  PROVE  UNCHANGED rows \/ \E r \in Rides : DeclineCommits(c, r)
<1> DEFINE r == job[c].ride
           row == [ride[r] EXCEPT !.state = "matching", !.driver = None]
           x == Entry("offered_to_driver", "driver_timeout", DriverOf[c])
           y == Entry("driver_timeout", "matching", "dispatch")
<1>1. CASE ~HoldsOffer(c, r)
  BY <1>1 DEF DeclineOffer, rows
<1>2. CASE HoldsOffer(c, r)
  <2>1. r \in Rides /\ c \in DriverSessions
    BY JobTyped DEF DeclineOffer, HoldsRide, HoldsRole
  <2>2. /\ ride \in [Rides -> RideRow] /\ ride[r] \in RideRow
        /\ trail \in [Rides -> Seq(AuditRow)]
    BY <2>1 DEF IInv, TypeOK
  <2>3. /\ ride' = [ride EXCEPT ![r] = row]
        /\ trail' = [trail EXCEPT ![r] = @ \o << x, y >>]
        /\ payment' = payment /\ pc[c] = "decline" /\ pc'[c] = "publish"
    BY <1>2, GotoLeads DEF DeclineOffer, Audit
  <2>4. ride[r].state = "offered_to_driver" /\ ride[r].driver = DriverOf[c]
    BY <1>2, <2>1, SessionAssumption DEF HoldsOffer, Owns
  <2>5. OnlyRide(r)
    BY <2>2, <2>3 DEF OnlyRide
  <2>6. ride'[r] = row
    BY <2>1, <2>2, <2>3
  <2>7. x \in AuditRow /\ y \in AuditRow
    BY <2>1, SessionAssumption, StatesOfTheTable
    DEF Entry, AuditRow, Actors, waitingRideStates, driverActiveRideStates
  <2>8. trail'[r] = Append(Append(trail[r], x), y)
    <3>1. trail'[r] = trail[r] \o << x, y >>
      BY <2>1, <2>2, <2>3
    <3> HIDE DEF x, y, r
    <3>2. QED
      BY <2>1, <2>2, <2>7, <3>1, AppendRows
  <2>9. /\ ride'[r].state = "matching" /\ ride'[r].driver = None
        /\ ride'[r].rider = ride[r].rider /\ ride'[r].key = ride[r].key
        /\ ride'[r].finalFare = ride[r].finalFare /\ payment'[r] = payment[r]
    <3>1. /\ row.state = "matching" /\ row.driver = None
          /\ row.rider = ride[r].rider /\ row.key = ride[r].key
          /\ row.finalFare = ride[r].finalFare
      BY <2>2 DEF RideRow
    <3> HIDE DEF x, y, r, row
    <3>2. payment'[r] = payment[r]
      BY <2>3
    <3>3. QED
      BY <2>6, <3>1, <3>2
  <2> HIDE DEF r, row
  <2>10. DeclineCommits(c, r)
    BY <2>1, <2>3, <2>4, <2>5, <2>8, <2>9 DEF DeclineCommits
  <2>11. QED
    BY <2>1, <2>10
<1>3. QED
  BY <1>1, <1>2

\* What a claim writes.
LEMMA ClaimWrites ==
  ASSUME IInv, NEW c \in Sessions, ClaimTake(c)
  PROVE  UNCHANGED rows \/ \E r \in Rides : ClaimCommits(c, r)
<1> DEFINE r == job[c].ride
           row == [ride[r] EXCEPT !.state = "offered_to_driver",
                                  !.driver = DriverOf[c]]
           x == Entry("requested", "matching", "dispatch")
           y == Entry("matching", "offered_to_driver", "dispatch")
<1>1. CASE ~StillUnclaimed(c, r)
  BY <1>1 DEF ClaimTake, rows
<1>2. CASE StillUnclaimed(c, r)
  <2>1. /\ r \in Rides /\ c \in DriverSessions
        /\ job[c].from \in waitingRideStates
    BY JobTyped DEF ClaimTake, HoldsRide, HoldsRole
  <2>2. /\ ride \in [Rides -> RideRow] /\ ride[r] \in RideRow
        /\ trail \in [Rides -> Seq(AuditRow)] /\ trail[r] \in Seq(AuditRow)
    BY <2>1 DEF IInv, TypeOK
  <2>3. /\ ride' = [ride EXCEPT ![r] = row]
        /\ trail' = [trail EXCEPT ![r] = @ \o ClaimRows(job[c].from)]
        /\ payment' = payment /\ pc[c] = "take" /\ pc'[c] = "publish"
    BY <1>2, GotoLeads DEF ClaimTake, Audit
  <2>4. /\ ride[r].state = job[c].from /\ ride[r].driver = None
        /\ ride[r].state \in waitingRideStates
    BY <1>2, <2>1 DEF StillUnclaimed
  <2>5. OnlyRide(r)
    BY <2>2, <2>3 DEF OnlyRide
  <2>6. ride'[r] = row
    BY <2>1, <2>2, <2>3
  <2>7. x \in AuditRow /\ y \in AuditRow
    BY StatesOfTheTable
    DEF Entry, AuditRow, Actors, waitingRideStates, driverActiveRideStates
  <2>8. trail'[r] = Append(IF ride[r].state = "requested"
                           THEN Append(trail[r], x) ELSE trail[r], y)
    <3>1. trail'[r] = trail[r] \o ClaimRows(ride[r].state)
      BY <2>1, <2>2, <2>3, <2>4
    <3>2. CASE ride[r].state = "requested"
      <4>1. ClaimRows(ride[r].state) = << x >> \o << y >>
        BY <3>2 DEF ClaimRows
      <4> HIDE DEF x, y, r
      <4>2. trail'[r] = trail[r] \o (<< x >> \o << y >>)
        BY <3>1, <4>1
      <4>3. trail'[r] = Append(Append(trail[r], x), y)
        BY <2>2, <2>7, <4>2, AppendRows
      <4>4. QED
        BY <3>2, <4>3
    <3>3. CASE ride[r].state # "requested"
      <4>1. ClaimRows(ride[r].state) = << y >>
        BY <3>3 DEF ClaimRows
      <4> HIDE DEF x, y, r
      <4>2. QED
        BY <2>2, <2>7, <3>1, <3>3, <4>1, AppendRows
    <3>4. QED
      BY <3>2, <3>3
  <2>9. /\ ride'[r].state = "offered_to_driver"
        /\ ride'[r].driver = DriverOf[c]
        /\ ride'[r].rider = ride[r].rider /\ ride'[r].key = ride[r].key
        /\ ride'[r].finalFare = ride[r].finalFare /\ payment'[r] = payment[r]
    <3>1. /\ row.state = "offered_to_driver" /\ row.driver = DriverOf[c]
          /\ row.rider = ride[r].rider /\ row.key = ride[r].key
          /\ row.finalFare = ride[r].finalFare
      BY <2>2 DEF RideRow
    <3> HIDE DEF x, y, r, row
    <3>2. payment'[r] = payment[r]
      BY <2>3
    <3>3. QED
      BY <2>6, <3>1, <3>2
  <2> HIDE DEF r, row
  <2>10. ClaimCommits(c, r)
    BY <2>1, <2>3, <2>4, <2>5, <2>8, <2>9 DEF ClaimCommits
  <2>11. QED
    BY <2>1, <2>10
<1>3. QED
  BY <1>1, <1>2

\* A step writes no row, or commits one of the four kinds of transaction.
LEMMA StepCommits ==
  ASSUME IInv, [Next]_vars
  PROVE  UNCHANGED rows \/ \E c \in Sessions, r \in Rides : Commits(c, r)
<1>1. ASSUME NEW c \in Sessions, Begin(c) PROVE UNCHANGED rows
  BY <1>1 DEF Begin, CreateRide, RiderCancelRide, AcceptRide, AdvanceRide,
              DriverCancelRide, CompleteRide, DeclineRide, GetCurrentRide,
              StartChange
<1>2. ASSUME NEW c \in Sessions, Continue(c)
      PROVE  UNCHANGED rows \/ \E r \in Rides : Commits(c, r)
  <2>1. CASE InsertRide(c)
    BY <2>1, InsertCommits DEF Commits
  <2>2. CASE WriteState(c)
    BY <2>2, WriteCommits DEF Commits
  <2>3. CASE DeclineOffer(c)
    BY <2>3, DeclineWrites DEF Commits
  <2>4. CASE ClaimTake(c)
    BY <2>4, ClaimWrites DEF Commits
  <2>5. CASE \/ QuoteRide(c) \/ RefetchRide(c) \/ CheckState(c)
             \/ ClaimReadDriver(c) \/ ClaimPick(c) \/ Publish(c)
    BY <2>5 DEF QuoteRide, RefetchRide, CheckState, ClaimReadDriver, ClaimPick,
                Publish
  <2>6. QED
    BY <1>2, <2>1, <2>2, <2>3, <2>4, <2>5 DEF Continue
<1>3. ASSUME NEW c \in Sessions, RequestFails(c) PROVE UNCHANGED rows
  BY <1>3 DEF RequestFails
<1>4. CASE \E d \in Drivers, on \in BOOLEAN : UpdateAvailability(d, on)
  BY <1>4 DEF UpdateAvailability
<1>5. CASE Tick
  BY <1>5 DEF Tick
<1>6. CASE UNCHANGED vars
  BY <1>6 DEF vars, rows
<1>7. QED
  BY <1>1, <1>2, <1>3, <1>4, <1>5, <1>6 DEF Next

-----------------------------------------------------------------------------
(***************************************************************************)
(* Dispatch: who holds a ride, and when it is in the pool.                 *)
(***************************************************************************)

LEMMA OfferHasDriverStep ==
  ASSUME IInv, OfferHasDriver, [Next]_vars PROVE OfferHasDriver'
<1>1. CASE UNCHANGED rows
  BY <1>1 DEF rows, OfferHasDriver
<1>2. ASSUME NEW c \in Sessions, NEW r \in Rides, Commits(c, r)
      PROVE  OfferHasDriver'
  <2>1. \A q \in Rides \ {r} : ride'[q] = ride[q]
    BY <1>2 DEF Commits, BookingCommits, ChangeCommits, DeclineCommits,
                ClaimCommits, OnlyRide
  <2>2. /\ ride'[r].state \in waitingRideStates => ride'[r].driver = None
        /\ ride'[r].state = "offered_to_driver" => ride'[r].driver # None
    <3>1. CASE BookingCommits(c, r) \/ DeclineCommits(c, r)
      BY <3>1 DEF BookingCommits, DeclineCommits
    <3>2. CASE ClaimCommits(c, r)
      <4>1. DriverOf[c] # None
        BY <3>2, SessionAssumption, NoneAssumption DEF ClaimCommits
      <4>2. QED
        BY <3>2, <4>1 DEF ClaimCommits, waitingRideStates
    <3>3. CASE \E from, to \in RideState : ChangeCommits(c, r, from, to)
      BY <3>3 DEF ChangeCommits, poolRideStates
    <3>4. QED
      BY <1>2, <3>1, <3>2, <3>3 DEF Commits
  <2>3. QED
    BY <2>1, <2>2 DEF OfferHasDriver
<1>3. QED
  BY <1>1, <1>2, StepCommits

\* A waiting ride is nobody's and an offered ride is somebody's.
THEOREM OfferedRidesHaveDrivers == Spec => []OfferHasDriver
<1>1. Init => OfferHasDriver
  BY DEF Init, OfferHasDriver, NoRow, waitingRideStates
<1>2. IInv /\ OfferHasDriver /\ [Next]_vars => OfferHasDriver'
  BY OfferHasDriverStep
<1>3. QED
  BY <1>1, <1>2, InductiveInvariant, PTL DEF Spec

\* Once accepted or ended, a ride never returns to dispatch.
THEOREM RidesLeaveDispatchOnce == Spec => NeverRedispatched
<1> DEFINE Once == \A r \in Rides :
                     ride[r].state \notin poolRideStates \cup {NoRow}
                       => ride'[r].state \notin poolRideStates
<1>1. ASSUME IInv, [Next]_vars PROVE Once
  <2>1. CASE UNCHANGED rows
    BY <2>1 DEF rows
  <2>2. ASSUME NEW c \in Sessions, NEW r \in Rides, Commits(c, r)
        PROVE  Once
    <3>1. \A q \in Rides \ {r} : ride'[q] = ride[q]
      BY <2>2 DEF Commits, BookingCommits, ChangeCommits, DeclineCommits,
                  ClaimCommits, OnlyRide
    <3>2. \/ ride[r].state \in poolRideStates \cup {NoRow}
          \/ ride'[r].state \notin poolRideStates
      BY <2>2 DEF Commits, BookingCommits, ChangeCommits, DeclineCommits,
                  ClaimCommits, poolRideStates
    <3>3. QED
      BY <3>1, <3>2
  <2>3. QED
    BY <1>1, <2>1, <2>2, StepCommits
<1>2. QED
  BY <1>1, InductiveInvariant, PTL DEF Spec, NeverRedispatched

\* A ride changes hands through the pool only.
THEOREM RidesChangeHandsInThePool == Spec => PassesThroughPool
<1> DEFINE Through ==
      \A r \in Rides : ride'[r].driver # ride[r].driver =>
        \/ ride[r].driver = None /\ ride[r].state \in waitingRideStates
        \/ /\ ride'[r].driver = None /\ ride[r].state = "offered_to_driver"
           /\ \E c \in DriverSessions :
                pc[c] = "decline" /\ DriverOf[c] = ride[r].driver
<1>1. ASSUME IInv, [Next]_vars PROVE Through
  <2>1. CASE UNCHANGED rows
    BY <2>1 DEF rows
  <2>2. ASSUME NEW c \in Sessions, NEW r \in Rides, Commits(c, r)
        PROVE  Through
    <3>1. \A q \in Rides \ {r} : ride'[q] = ride[q]
      BY <2>2 DEF Commits, BookingCommits, ChangeCommits, DeclineCommits,
                  ClaimCommits, OnlyRide
    <3>2. CASE BookingCommits(c, r)
      <4>1. ride'[r].driver = ride[r].driver
        BY <1>1, <3>2 DEF BookingCommits, IInv, RowOK
      <4>2. \A q \in Rides : ride'[q].driver = ride[q].driver
        BY <3>1, <4>1
      <4>3. QED
        BY <4>2
    <3>3. CASE \E from, to \in RideState : ChangeCommits(c, r, from, to)
      BY <3>1, <3>3 DEF ChangeCommits
    <3>4. CASE DeclineCommits(c, r)
      BY <3>1, <3>4 DEF DeclineCommits
    <3>5. CASE ClaimCommits(c, r)
      BY <3>1, <3>5 DEF ClaimCommits
    <3>6. QED
      BY <2>2, <3>2, <3>3, <3>4, <3>5 DEF Commits
  <2>3. QED
    BY <1>1, <2>1, <2>2, StepCommits
<1>2. IInv /\ [Next]_vars => [\A r \in Rides :
        ride'[r].driver # ride[r].driver =>
         \/ ride[r].driver = None /\ ride[r].state \in waitingRideStates
         \/ /\ ride'[r].driver = None /\ ride[r].state = "offered_to_driver"
            /\ \E c \in DriverSessions :
                 pc[c] = "decline" /\ DriverOf[c] = ride[r].driver]_vars
  BY <1>1
<1>3. QED
  BY <1>2, InductiveInvariant, PTL DEF Spec, PassesThroughPool

\* However often a booking is retried, one key makes one ride.
THEOREM KeysAreUsedOnce == Spec => []OneRidePerKey
<1>1. Init => OneRidePerKey
  BY DEF Init, OneRidePerKey
<1>2. ASSUME IInv, OneRidePerKey, [Next]_vars PROVE OneRidePerKey'
  <2>1. CASE UNCHANGED rows
    BY <1>2, <2>1 DEF rows, OneRidePerKey
  <2>2. ASSUME NEW c \in Sessions, NEW r \in Rides, Commits(c, r)
        PROVE  OneRidePerKey'
    <3>1. \A q \in Rides \ {r} : ride'[q] = ride[q]
      BY <2>2 DEF Commits, BookingCommits, ChangeCommits, DeclineCommits,
                  ClaimCommits, OnlyRide
    <3>2. CASE BookingCommits(c, r)
      <4>1. /\ ride'[r].rider = RiderOf[c] /\ ride'[r].key = job[c].key
            /\ \A q \in Rides : ~ /\ ride[q].rider = RiderOf[c]
                                  /\ ride[q].key = job[c].key
        BY <3>2 DEF BookingCommits, Booked
      <4>2. QED
        BY <1>2, <3>1, <4>1 DEF OneRidePerKey
    <3>3. CASE ~BookingCommits(c, r)
      <4>1. ride'[r].rider = ride[r].rider /\ ride'[r].key = ride[r].key
        BY <2>2, <3>3 DEF Commits, ChangeCommits, DeclineCommits, ClaimCommits
      <4>2. QED
        BY <1>2, <3>1, <4>1 DEF OneRidePerKey
    <3>4. QED
      BY <3>2, <3>3
  <2>3. QED
    BY <1>2, <2>1, <2>2, StepCommits
<1>3. QED
  BY <1>1, <1>2, InductiveInvariant, PTL DEF Spec
-----------------------------------------------------------------------------
(***************************************************************************)
(* The audit trail.                                                        *)
(***************************************************************************)

LegalRow(i, x) ==
  IF i = 1 THEN x.from = NoRow /\ x.to = "requested"
  ELSE x.from \in RideState /\ canTransitionRideState(x.from, x.to)

\* A trail of rows of the table that leads to a state.
LeadsTo(s, state) ==
  /\ \A i \in DOMAIN s : LegalRow(i, s[i])
  /\ state = IF s = << >> THEN NoRow ELSE s[Len(s)].to

LEMMA AuditTrailParts ==
  AuditTrail <=> \A r \in Rides : LeadsTo(trail[r], ride[r].state)
BY DEF AuditTrail, LeadsTo, LegalRow

LEMMA AppendLeads ==
  ASSUME NEW s \in Seq(AuditRow), NEW x \in AuditRow, NEW state,
         LeadsTo(s, state), LegalRow(Len(s) + 1, x)
  PROVE  LeadsTo(Append(s, x), x.to)
<1>1. /\ Append(s, x) # << >> /\ Len(Append(s, x)) = Len(s) + 1
      /\ Append(s, x)[Len(s) + 1] = x
      /\ \A i \in DOMAIN s : Append(s, x)[i] = s[i]
      /\ DOMAIN Append(s, x) = DOMAIN s \cup {Len(s) + 1}
  OBVIOUS
<1>2. ASSUME NEW i \in DOMAIN Append(s, x)
      PROVE  LegalRow(i, Append(s, x)[i])
  <2>1. CASE i \in DOMAIN s
    BY <1>1, <2>1 DEF LeadsTo
  <2>2. CASE i = Len(s) + 1
    BY <1>1, <2>2
  <2>3. QED
    BY <1>1, <2>1, <2>2
<1>3. QED
  BY <1>1, <1>2 DEF LeadsTo

\* A row that is not the first starts from a state of the table.
LEMMA LaterRow ==
  ASSUME NEW s \in Seq(AuditRow), NEW state \in RideState, LeadsTo(s, state),
         NEW from \in RideState, NEW to \in RideState, NEW by \in Actors,
         canTransitionRideState(from, to)
  PROVE  /\ Append(s, Entry(from, to, by)) \in Seq(AuditRow)
         /\ LeadsTo(Append(s, Entry(from, to, by)), to)
<1>1. Len(s) \in Nat /\ Len(s) # 0
  BY StatesOfTheTable DEF LeadsTo
<1>2. Entry(from, to, by) \in AuditRow /\ Entry(from, to, by).to = to
  BY DEF Entry, AuditRow
<1>3. LegalRow(Len(s) + 1, Entry(from, to, by))
  BY <1>1 DEF LegalRow, Entry
<1>4. QED
  BY <1>2, <1>3, AppendLeads

LEMMA AuditTrailStep ==
  ASSUME IInv, AuditTrail, [Next]_vars PROVE AuditTrail'
<1>1. CASE UNCHANGED rows
  BY <1>1 DEF rows, AuditTrail
<1>2. ASSUME NEW c \in Sessions, NEW r \in Rides, Commits(c, r)
      PROVE  AuditTrail'
  <2>1. \A q \in Rides \ {r} : ride'[q] = ride[q] /\ trail'[q] = trail[q]
    BY <1>2 DEF Commits, BookingCommits, ChangeCommits, DeclineCommits,
                ClaimCommits, OnlyRide
  <2>2. /\ trail[r] \in Seq(AuditRow) /\ ride[r].state \in RideState \cup {NoRow}
        /\ LeadsTo(trail[r], ride[r].state)
    BY AuditTrailParts DEF IInv, TypeOK, RideRow
  <2>3. c \in DriverSessions => DriverOf[c] \in Actors
    BY SessionAssumption DEF Actors
  <2>4. /\ "requested" \in RideState /\ "matching" \in RideState
        /\ "offered_to_driver" \in RideState /\ "driver_timeout" \in RideState
        /\ "dispatch" \in Actors
    BY StatesOfTheTable DEF waitingRideStates, driverActiveRideStates, Actors
  <2>5. LeadsTo(trail'[r], ride'[r].state)
    <3>1. CASE BookingCommits(c, r)
      <4> DEFINE x == Entry(NoRow, "requested", RiderOf[c])
      <4>1. RiderOf[c] \in Actors
        BY <3>1, SessionAssumption DEF BookingCommits, Actors
      <4>2. x \in AuditRow /\ x.to = "requested" /\ x.from = NoRow
        BY <2>4, <4>1 DEF Entry, AuditRow
      <4>3. trail[r] = << >>
        <5>1. CASE trail[r] # << >>
          <6>1. trail[r][Len(trail[r])] \in AuditRow
            BY <2>2, <5>1
          <6>2. ride[r].state \in RideState
            BY <2>2, <5>1, <6>1 DEF LeadsTo, AuditRow
          <6>3. QED
            BY <3>1, <6>2, StatesOfTheTable DEF BookingCommits
        <5>2. QED
          BY <5>1
      <4>4. LegalRow(Len(trail[r]) + 1, x)
        BY <4>2, <4>3 DEF LegalRow
      <4> HIDE DEF x
      <4>5. LeadsTo(Append(trail[r], x), "requested")
        BY <2>2, <4>2, <4>4, AppendLeads
      <4>6. QED
        BY <3>1, <4>5 DEF BookingCommits, x
    <3>2. ASSUME NEW from \in RideState, NEW to \in RideState,
                 ChangeCommits(c, r, from, to)
          PROVE  LeadsTo(trail'[r], ride'[r].state)
      <4>1. ActorOf(c, to) \in Actors
        BY SessionAssumption DEF ActorOf, Actors, Sessions
      <4>2. ride[r].state \in RideState /\ canTransitionRideState(from, to)
        BY <2>2, <3>2 DEF ChangeCommits
      <4>3. LeadsTo(Append(trail[r], Entry(from, to, ActorOf(c, to))), to)
        BY <2>2, <4>1, <4>2, LaterRow
      <4>4. QED
        BY <3>2, <4>3 DEF ChangeCommits
    <3>3. CASE DeclineCommits(c, r)
      <4> DEFINE x == Entry("offered_to_driver", "driver_timeout", DriverOf[c])
                 y == Entry("driver_timeout", "matching", "dispatch")
      <4>1. ride[r].state \in RideState /\ DriverOf[c] \in Actors
        BY <2>3, <2>4, <3>3 DEF DeclineCommits
      <4>2. /\ Append(trail[r], x) \in Seq(AuditRow)
            /\ LeadsTo(Append(trail[r], x), "driver_timeout")
        BY <2>2, <2>4, <4>1, DispatchMoves, LaterRow
      <4>3. LeadsTo(Append(Append(trail[r], x), y), "matching")
        BY <2>4, <4>2, DispatchMoves, LaterRow
      <4>4. QED
        BY <3>3, <4>3 DEF DeclineCommits
    <3>4. CASE ClaimCommits(c, r)
      <4> DEFINE x == Entry("requested", "matching", "dispatch")
                 y == Entry("matching", "offered_to_driver", "dispatch")
                 s == IF ride[r].state = "requested"
                      THEN Append(trail[r], x) ELSE trail[r]
      <4>1. ride[r].state \in RideState /\ ride[r].state \in waitingRideStates
        BY <3>4, StatesOfTheTable DEF ClaimCommits
      <4>2. s \in Seq(AuditRow) /\ LeadsTo(s, "matching")
        <5>1. CASE ride[r].state = "requested"
          BY <2>2, <2>4, <5>1, DispatchMoves, LaterRow
        <5>2. CASE ride[r].state # "requested"
          BY <2>2, <4>1, <5>2 DEF waitingRideStates
        <5>3. QED
          BY <5>1, <5>2
      <4> HIDE DEF s
      <4>3. LeadsTo(Append(s, y), "offered_to_driver")
        BY <2>4, <4>2, DispatchMoves, LaterRow
      <4>4. QED
        BY <3>4, <4>3 DEF ClaimCommits, s
    <3>5. QED
      BY <1>2, <3>1, <3>2, <3>3, <3>4 DEF Commits
  <2>6. \A q \in Rides : LeadsTo(trail'[q], ride'[q].state)
    <3>1. \A q \in Rides \ {r} : LeadsTo(trail'[q], ride'[q].state)
      BY <2>1, AuditTrailParts
    <3>2. QED
      BY <2>5, <3>1
  <2>7. QED
    BY <2>6 DEF AuditTrail, LeadsTo, LegalRow
<1>3. QED
  BY <1>1, <1>2, StepCommits

\* Every audit row is a move of the table and the last one leads to the state
\* of the ride.
THEOREM AuditTrailIsKept == Spec => []AuditTrail
<1>1. Init => AuditTrail
  BY DEF Init, AuditTrail
<1>2. IInv /\ AuditTrail /\ [Next]_vars => AuditTrail'
  BY AuditTrailStep
<1>3. QED
  BY <1>1, <1>2, InductiveInvariant, PTL DEF Spec

-----------------------------------------------------------------------------
(***************************************************************************)
(* How the requests move.                                                  *)
(***************************************************************************)

\* Every step of a request is a Goto.
LEMMA RequestsGoto ==
  ASSUME NEW c \in Sessions, Begin(c) \/ Continue(c) \/ RequestFails(c)
  PROVE  \E step, local : Goto(c, step, local)
<1>1. ASSUME Begin(c) PROVE \E step, local : Goto(c, step, local)
  BY <1>1 DEF Begin, CreateRide, RiderCancelRide, AcceptRide, AdvanceRide,
              DriverCancelRide, CompleteRide, DeclineRide, GetCurrentRide,
              StartChange
<1>2. ASSUME Continue(c) PROVE \E step, local : Goto(c, step, local)
  <2>1. CASE QuoteRide(c) \/ RefetchRide(c) \/ CheckState(c) \/ WriteState(c)
    BY <2>1 DEF QuoteRide, RefetchRide, CheckState, WriteState, Finish
  <2>2. CASE InsertRide(c)
    BY <2>2 DEF InsertRide
  <2>3. CASE DeclineOffer(c)
    BY <2>3 DEF DeclineOffer, Finish
  <2>4. CASE ClaimReadDriver(c) \/ ClaimPick(c)
    BY <2>4 DEF ClaimReadDriver, ClaimPick, Finish
  <2>5. CASE ClaimTake(c)
    BY <2>5 DEF ClaimTake, Finish
  <2>6. CASE Publish(c)
    BY <2>6 DEF Publish, Finish
  <2>7. QED
    BY <1>2, <2>1, <2>2, <2>3, <2>4, <2>5, <2>6 DEF Continue
<1>3. ASSUME RequestFails(c) PROVE \E step, local : Goto(c, step, local)
  BY <1>3 DEF RequestFails, Finish
<1>4. QED
  BY <1>1, <1>2, <1>3

\* A request stands still unless the step is its own.
LEMMA Movers ==
  ASSUME IInv, [Next]_vars, NEW b \in Sessions
  PROVE  \/ pc'[b] = pc[b] /\ job'[b] = job[b]
         \/ Begin(b) \/ Continue(b) \/ RequestFails(b)
<1>1. ASSUME NEW c \in Sessions \ {b},
             Begin(c) \/ Continue(c) \/ RequestFails(c)
      PROVE  pc'[b] = pc[b] /\ job'[b] = job[b]
  <2>1. PICK step, local : Goto(c, step, local)
    BY <1>1, RequestsGoto
  <2>2. pc \in [Sessions -> Step] /\ job \in [Sessions -> Job]
    BY DEF IInv, TypeOK
  <2>3. QED
    BY <2>1, <2>2 DEF Goto
<1>2. CASE \E d \in Drivers, on \in BOOLEAN : UpdateAvailability(d, on)
  BY <1>2 DEF UpdateAvailability
<1>3. CASE Tick \/ UNCHANGED vars
  BY <1>3 DEF Tick, vars
<1>4. QED
  BY <1>1, <1>2, <1>3 DEF Next

\* The step a request is at tells which action brought it there.
LEMMA StepsOfARequest ==
  ASSUME IInv, NEW c \in Sessions, Begin(c) \/ Continue(c) \/ RequestFails(c)
  PROVE  /\ pc'[c] = "write" =>
              /\ pc[c] = "check" /\ StillInState(c) /\ UNCHANGED rows
              /\ job'[c] = [job[c] EXCEPT !.seen = Len(trail[job[c].ride])]
         /\ pc'[c] = "claim" =>
              pc[c] = "idle" /\ ~HasActiveRide(DriverOf[c]) /\ UNCHANGED rows
         /\ pc'[c] = "pick" => pc[c] = "claim" /\ UNCHANGED rows
         /\ pc'[c] = "take" => pc[c] = "pick" /\ UNCHANGED rows
         /\ pc'[c] = "check" =>
              /\ UNCHANGED rows
              /\ \/ /\ pc[c] = "idle"
                    /\ \E r \in Rides :
                         /\ Owns(c, r)
                         /\ \/ /\ c \in RiderSessions
                               /\ job'[c] = HasRead(r, ride[r].state,
                                                    "cancelled_by_rider")
                            \/ /\ c \in DriverSessions
                               /\ \E to \in driverAdvanceStates \cup
                                       {"accepted", "cancelled_by_driver"} :
                                    /\ canTransitionRideState(ride[r].state, to)
                                    /\ job'[c] = HasRead(r, ride[r].state, to)
                            \/ /\ c \in DriverSessions
                               /\ ride[r].state = "arrived_at_destination"
                               /\ job'[c] = HasRead(r, "arrived_at_destination",
                                                    "payment_pending")
                 \/ /\ pc[c] = "publish" /\ c \in DriverSessions
                    /\ job'[c] = HasRead(job[c].ride, "payment_pending",
                                         "completed")
<1>1. CASE Begin(c)
  <2>1. ASSUME NEW r \in Rides, NEW to, StartChange(c, r, to)
        PROVE  /\ pc'[c] = "check" /\ job'[c] = HasRead(r, ride[r].state, to)
               /\ pc[c] = "idle" /\ UNCHANGED rows /\ Owns(c, r)
               /\ canTransitionRideState(ride[r].state, to)
    BY <2>1, GotoLeads DEF StartChange
  <2>2. ASSUME NEW key \in Keys, CreateRide(c, key) PROVE pc'[c] = "quote"
    BY <2>2, GotoLeads DEF CreateRide
  <2>3. ASSUME NEW r \in Rides, DeclineRide(c, r) PROVE pc'[c] = "decline"
    BY <2>3, GotoLeads DEF DeclineRide
  <2>4. CASE GetCurrentRide(c)
    <3>1. pc'[c] = "claim"
      BY <2>4, GotoLeads DEF GetCurrentRide
    <3>2. QED
      BY <2>4, <3>1 DEF GetCurrentRide
  <2>5. CASE \E r \in Rides : RiderCancelRide(c, r)
    BY <2>1, <2>5 DEF RiderCancelRide
  <2>6. CASE \E r \in Rides : AcceptRide(c, r) \/ DriverCancelRide(c, r)
    BY <2>1, <2>6 DEF AcceptRide, DriverCancelRide
  <2>7. CASE \E r \in Rides : AdvanceRide(c, r)
    BY <2>1, <2>7 DEF AdvanceRide
  <2>8. CASE \E r \in Rides : CompleteRide(c, r)
    BY <2>1, <2>8 DEF CompleteRide
  <2>9. QED
    BY <1>1, <2>2, <2>3, <2>4, <2>5, <2>6, <2>7, <2>8 DEF Begin
<1>2. CASE RequestFails(c)
  BY <1>2, GotoLeads DEF RequestFails, Finish
<1>3. CASE Continue(c)
  <2>1. CASE QuoteRide(c) \/ RefetchRide(c)
    BY <2>1, GotoLeads DEF QuoteRide, RefetchRide
  <2>2. CASE InsertRide(c)
    BY <2>2, GotoLeads DEF InsertRide
  <2>3. CASE CheckState(c)
    <3>1. CASE StillInState(c)
      BY <2>3, <3>1, GotoLeads DEF CheckState
    <3>2. CASE ~StillInState(c)
      BY <2>3, <3>2, GotoLeads DEF CheckState, Finish
    <3>3. QED
      BY <3>1, <3>2
  <2>4. CASE WriteState(c)
    BY <2>4, GotoLeads DEF WriteState
  <2>5. CASE DeclineOffer(c)
    BY <2>5, GotoLeads DEF DeclineOffer, Finish
  <2>6. CASE ClaimReadDriver(c)
    BY <2>6, GotoLeads DEF ClaimReadDriver, Finish
  <2>7. CASE ClaimPick(c)
    BY <2>7, GotoLeads DEF ClaimPick, Finish
  <2>8. CASE ClaimTake(c)
    BY <2>8, GotoLeads DEF ClaimTake, Finish
  <2>9. CASE Publish(c)
    BY <2>9, GotoLeads DEF Publish, Finish
  <2>10. QED
    BY <1>3, <2>1, <2>2, <2>3, <2>4, <2>5, <2>6, <2>7, <2>8, <2>9 DEF Continue
<1>4. QED
  BY <1>1, <1>2, <1>3

-----------------------------------------------------------------------------
(***************************************************************************)
(* What a transaction has seen when it writes.                             *)
(***************************************************************************)

\* Between its findFirst and its update a transaction knows a state the ride
\* has been in, and it is the ride's state as long as nothing was audited.
SeenOK ==
  \A c \in Sessions : pc[c] = "write" =>
    LET r == job[c].ride IN
      /\ job[c].seen \in Nat /\ job[c].seen <= Len(trail[r])
      /\ job[c].seen = Len(trail[r]) => ride[r].state = job[c].from
      /\ \E i \in DOMAIN trail[r] : trail[r][i].to = job[c].from

\* A commit appends to the trail of its ride, from the state it is in unless
\* it is a state change.
LEMMA CommitExtends ==
  ASSUME IInv, NEW c \in Sessions, NEW r \in Rides, Commits(c, r)
  PROVE  /\ trail[r] \in Seq(AuditRow) /\ trail'[r] \in Seq(AuditRow)
         /\ Len(trail'[r]) > Len(trail[r])
         /\ \A i \in DOMAIN trail[r] :
              i \in DOMAIN trail'[r] /\ trail'[r][i] = trail[r][i]
         /\ \/ trail'[r][Len(trail[r]) + 1].from = ride[r].state
            \/ /\ pc[c] = "write" /\ job[c].ride = r
               /\ trail'[r][Len(trail[r]) + 1].from = job[c].from
<1>1. trail[r] \in Seq(AuditRow)
  BY DEF IInv, TypeOK
<1>2. ASSUME NEW x, trail'[r] = Append(trail[r], x)
      PROVE  /\ Len(trail'[r]) > Len(trail[r])
             /\ \A i \in DOMAIN trail[r] :
                  i \in DOMAIN trail'[r] /\ trail'[r][i] = trail[r][i]
             /\ trail'[r][Len(trail[r]) + 1] = x
  BY <1>1, <1>2
<1>3. ASSUME NEW x \in AuditRow, NEW y \in AuditRow,
             trail'[r] = Append(Append(trail[r], x), y)
      PROVE  /\ Len(trail'[r]) > Len(trail[r])
             /\ \A i \in DOMAIN trail[r] :
                  i \in DOMAIN trail'[r] /\ trail'[r][i] = trail[r][i]
             /\ trail'[r][Len(trail[r]) + 1] = x
  BY <1>1, <1>3
<1>4. /\ "requested" \in RideState /\ "matching" \in RideState
      /\ "offered_to_driver" \in RideState /\ "driver_timeout" \in RideState
      /\ "dispatch" \in Actors
  BY StatesOfTheTable DEF waitingRideStates, driverActiveRideStates, Actors
<1>5. CASE BookingCommits(c, r)
  <2> DEFINE x == Entry(NoRow, "requested", RiderOf[c])
  <2>1. x \in AuditRow /\ x.from = NoRow
    BY <1>4, <1>5, SessionAssumption DEF BookingCommits, Entry, AuditRow, Actors
  <2>2. trail'[r] = Append(trail[r], x) /\ ride[r].state = NoRow
    BY <1>5 DEF BookingCommits
  <2> HIDE DEF x
  <2>3. QED
    BY <1>1, <1>2, <2>1, <2>2
<1>6. ASSUME NEW from \in RideState, NEW to \in RideState,
             ChangeCommits(c, r, from, to)
      PROVE  /\ trail'[r] \in Seq(AuditRow) /\ Len(trail'[r]) > Len(trail[r])
             /\ \A i \in DOMAIN trail[r] :
                  i \in DOMAIN trail'[r] /\ trail'[r][i] = trail[r][i]
             /\ pc[c] = "write" /\ job[c].ride = r
             /\ trail'[r][Len(trail[r]) + 1].from = job[c].from
  <2> DEFINE x == Entry(from, to, ActorOf(c, to))
  <2>1. x \in AuditRow /\ x.from = from
    BY <1>4, SessionAssumption DEF Entry, AuditRow, ActorOf, Actors, Sessions
  <2>2. /\ trail'[r] = Append(trail[r], x) /\ from = job[c].from
        /\ pc[c] = "write" /\ job[c].ride = r
    BY <1>6 DEF ChangeCommits
  <2> HIDE DEF x
  <2>3. QED
    BY <1>1, <1>2, <2>1, <2>2
<1>7. CASE DeclineCommits(c, r)
  <2> DEFINE x == Entry("offered_to_driver", "driver_timeout", DriverOf[c])
             y == Entry("driver_timeout", "matching", "dispatch")
  <2>1. x \in AuditRow /\ y \in AuditRow /\ x.from = "offered_to_driver"
    BY <1>4, <1>7, SessionAssumption DEF DeclineCommits, Entry, AuditRow, Actors
  <2>2. /\ trail'[r] = Append(Append(trail[r], x), y)
        /\ ride[r].state = "offered_to_driver"
    BY <1>7 DEF DeclineCommits
  <2> HIDE DEF x, y
  <2>3. QED
    BY <1>1, <1>3, <2>1, <2>2
<1>8. CASE ClaimCommits(c, r)
  <2> DEFINE x == Entry("requested", "matching", "dispatch")
             y == Entry("matching", "offered_to_driver", "dispatch")
  <2>1. /\ x \in AuditRow /\ y \in AuditRow
        /\ x.from = "requested" /\ y.from = "matching"
    BY <1>4 DEF Entry, AuditRow
  <2>2. trail'[r] = Append(IF ride[r].state = "requested"
                           THEN Append(trail[r], x) ELSE trail[r], y)
        /\ ride[r].state \in {"requested", "matching"}
    BY <1>8 DEF ClaimCommits, waitingRideStates
  <2> HIDE DEF x, y
  <2>3. CASE ride[r].state = "requested"
    <3>1. trail'[r] = Append(Append(trail[r], x), y)
      BY <2>2, <2>3
    <3>2. QED
      BY <1>1, <1>3, <2>1, <2>3, <3>1
  <2>4. CASE ride[r].state = "matching"
    <3>1. trail'[r] = Append(trail[r], y)
      BY <2>2, <2>4
    <3>2. QED
      BY <1>1, <1>2, <2>1, <2>4, <3>1
  <2>5. QED
    BY <2>2, <2>3, <2>4
<1>9. QED
  BY <1>1, <1>5, <1>6, <1>7, <1>8 DEF Commits

LEMMA SeenOKStep ==
  ASSUME IInv, AuditTrail, SeenOK, [Next]_vars PROVE SeenOK'
<1> SUFFICES ASSUME NEW b \in Sessions, pc'[b] = "write"
             PROVE  LET r == job'[b].ride IN
               /\ job'[b].seen \in Nat /\ job'[b].seen <= Len(trail'[r])
               /\ job'[b].seen = Len(trail'[r]) => ride'[r].state = job'[b].from
               /\ \E i \in DOMAIN trail'[r] : trail'[r][i].to = job'[b].from
  BY DEF SeenOK
<1>1. CASE pc[b] = "write" /\ job'[b] = job[b]
  <2> DEFINE r == job[b].ride
  <2>1. r \in Rides
    BY <1>1, JobTyped DEF HoldsRide
  <2>2. /\ job[b].seen \in Nat /\ job[b].seen <= Len(trail[r])
        /\ job[b].seen = Len(trail[r]) => ride[r].state = job[b].from
        /\ \E i \in DOMAIN trail[r] : trail[r][i].to = job[b].from
    BY <1>1 DEF SeenOK
  <2>3. CASE ride'[r] = ride[r] /\ trail'[r] = trail[r]
    BY <1>1, <2>2, <2>3
  <2>4. CASE \E c \in Sessions : Commits(c, r)
    <3>1. PICK c \in Sessions : Commits(c, r)
      BY <2>4
    <3>2. /\ Len(trail[r]) \in Nat /\ Len(trail'[r]) \in Nat
          /\ Len(trail'[r]) > Len(trail[r])
          /\ \A i \in DOMAIN trail[r] :
               i \in DOMAIN trail'[r] /\ trail'[r][i] = trail[r][i]
      BY <2>1, <3>1, CommitExtends
    <3> HIDE DEF r
    <3>3. job'[b].seen <= Len(trail'[r]) /\ job'[b].seen # Len(trail'[r])
      BY <1>1, <2>2, <3>2
    <3>4. \E i \in DOMAIN trail'[r] : trail'[r][i].to = job[b].from
      BY <2>2, <3>2
    <3>5. QED
      BY <1>1, <2>2, <3>3, <3>4 DEF r
  <2>5. \/ ride'[r] = ride[r] /\ trail'[r] = trail[r]
        \/ \E c \in Sessions : Commits(c, r)
    <3>1. CASE UNCHANGED rows
      BY <3>1 DEF rows
    <3>2. ASSUME NEW c \in Sessions, NEW q \in Rides, Commits(c, q), q # r
          PROVE  ride'[r] = ride[r] /\ trail'[r] = trail[r]
      BY <2>1, <3>2 DEF Commits, BookingCommits, ChangeCommits, DeclineCommits,
                        ClaimCommits, OnlyRide
    <3> HIDE DEF r
    <3>3. QED
      BY <3>1, <3>2, StepCommits
  <2>6. QED
    BY <2>3, <2>4, <2>5
<1>2. CASE ~(pc[b] = "write" /\ job'[b] = job[b])
  <2> DEFINE r == job[b].ride
  <2>1. /\ pc[b] = "check" /\ StillInState(b) /\ UNCHANGED rows
        /\ job'[b] = [job[b] EXCEPT !.seen = Len(trail[r])]
    BY <1>2, Movers, StepsOfARequest
  <2>2. job[b] \in Job /\ r \in Rides
    BY <2>1, JobTyped DEF HoldsRide
  <2>3. trail[r] \in Seq(AuditRow) /\ ride' = ride /\ trail' = trail
    BY <2>1, <2>2 DEF IInv, TypeOK, rows
  <2>4. /\ job'[b].ride = r /\ job'[b].from = job[b].from
        /\ job'[b].seen = Len(trail[r])
    BY <2>1, <2>2 DEF Job
  <2>5. ride[r].state = job[b].from /\ ride[r].state # NoRow
    BY <2>1, JobTyped DEF StillInState, HoldsRide
  <2>6. LeadsTo(trail[r], ride[r].state)
    BY <2>2, AuditTrailParts
  <2> HIDE DEF r
  <2>7. trail[r] # << >> /\ Len(trail[r]) \in DOMAIN trail[r]
        /\ trail[r][Len(trail[r])].to = ride[r].state
    BY <2>3, <2>5, <2>6 DEF LeadsTo
  <2>8. QED
    BY <2>3, <2>4, <2>5, <2>7
<1>3. QED
  BY <1>1, <1>2

LEMMA SeenInvariant == Spec => [](IInv /\ AuditTrail /\ SeenOK)
<1>1. Init => SeenOK
  BY DEF Init, SeenOK
<1>2. IInv /\ AuditTrail /\ SeenOK /\ [Next]_vars => SeenOK'
  BY SeenOKStep
<1>3. QED
  BY <1>1, <1>2, InductiveInvariant, AuditTrailIsKept, PTL DEF Spec

\* Only a transaction that writes after another one has committed since its
\* own findFirst audits a move from a state the ride is not in.
THEOREM StatesAreLostToStaleWritesOnly == Spec => OnlyStaleWritesBreakTheTrail
<1> DEFINE Stale ==
      \A r \in Rides : trail'[r] # trail[r] =>
        \/ trail'[r][Len(trail[r]) + 1].from = ride[r].state
        \/ \E c \in Sessions : /\ pc[c] = "write" /\ job[c].ride = r
                              /\ job[c].seen < Len(trail[r])
<1>1. ASSUME IInv, AuditTrail, SeenOK, [Next]_vars PROVE Stale
  <2>1. CASE UNCHANGED rows
    BY <2>1 DEF rows
  <2>2. ASSUME NEW c \in Sessions, NEW r \in Rides, Commits(c, r)
        PROVE  Stale
    <3>1. \A q \in Rides \ {r} : trail'[q] = trail[q]
      BY <2>2 DEF Commits, BookingCommits, ChangeCommits, DeclineCommits,
                  ClaimCommits, OnlyRide
    <3>2. \/ trail'[r][Len(trail[r]) + 1].from = ride[r].state
          \/ pc[c] = "write" /\ job[c].ride = r /\ job[c].seen < Len(trail[r])
      <4>1. CASE trail'[r][Len(trail[r]) + 1].from # ride[r].state
        <5>1. /\ pc[c] = "write" /\ job[c].ride = r
              /\ job[c].from # ride[r].state
          BY <1>1, <2>2, <4>1, CommitExtends
        <5>2. /\ job[c].seen \in Nat /\ job[c].seen <= Len(trail[r])
              /\ job[c].seen # Len(trail[r])
          BY <1>1, <5>1 DEF SeenOK
        <5>3. Len(trail[r]) \in Nat
          BY <1>1 DEF IInv, TypeOK
        <5>4. QED
          BY <5>1, <5>2, <5>3
      <4>2. QED
        BY <4>1
    <3>3. QED
      BY <3>1, <3>2
  <2>3. QED
    BY <1>1, <2>1, <2>2, StepCommits
<1>2. IInv /\ AuditTrail /\ SeenOK /\ [Next]_vars => [\A r \in Rides :
        trail'[r] # trail[r] =>
          \/ trail'[r][Len(trail[r]) + 1].from = ride[r].state
          \/ \E c \in Sessions : /\ pc[c] = "write" /\ job[c].ride = r
                                /\ job[c].seen < Len(trail[r])]_vars
  BY <1>1
<1>3. QED
  BY <1>2, SeenInvariant, PTL DEF Spec, OnlyStaleWritesBreakTheTrail

-----------------------------------------------------------------------------
(***************************************************************************)
(* Who drives.                                                             *)
(***************************************************************************)

UnderWay == driverActiveRideStates \ {"offered_to_driver"}

Accepted(s) == \E i \in DOMAIN s : s[i].to = "accepted"

\* Of a driver who has declined an offer while another request of theirs was in
\* flight.
Declined(s, d) ==
  /\ ~SingleSession
  /\ \E j \in DOMAIN s : s[j] = Entry("offered_to_driver", "driver_timeout", d)

\* The last acceptance in s is d's, or of somebody who had declined.
Driven(s, d) ==
  \E i \in DOMAIN s :
    /\ s[i].to = "accepted"
    /\ \A j \in DOMAIN s : s[j].to = "accepted" => j <= i
    /\ \/ s[i].by = d
       \/ /\ ~SingleSession
          /\ \E j \in 1 .. i - 1 :
               s[j] = Entry("offered_to_driver", "driver_timeout", s[i].by)

\* An accepted ride has left the pool, and the accepts on their way are of the
\* driver who has the offer or has declined it meanwhile.
DriverInv ==
  /\ \A r \in Rides :
       /\ Accepted(trail[r]) => /\ Driven(trail[r], ride[r].driver)
                               /\ ride[r].state \notin poolRideStates \cup {NoRow}
       /\ ride[r].state \in UnderWay => Accepted(trail[r])
  /\ \A c \in Sessions : pc[c] \in {"check", "write"} =>
       LET r == job[c].ride IN
       /\ job[c].to = "accepted" => c \in DriverSessions
       /\ pc[c] = "write" /\ job[c].to = "accepted" =>
            ride[r].driver = DriverOf[c] \/ Declined(trail[r], DriverOf[c])
       /\ job[c].to \in UnderWay \ {"accepted"} => Accepted(trail[r])

LEMMA AdvancesFromUnderWay ==
  \A from \in RideState, to \in driverAdvanceStates :
    canTransitionRideState(from, to) => from \in UnderWay
BY DEF canTransitionRideState, transitions, driverAdvanceStates, UnderWay,
       driverActiveRideStates, RideState, normalRideStates, exceptionRideStates

\* One more row, and what the trail says of its drivers.
LEMMA OneMoreRow ==
  ASSUME NEW s \in Seq(AuditRow), NEW x \in AuditRow
  PROVE  /\ Append(s, x) \in Seq(AuditRow)
         /\ Accepted(Append(s, x)) <=> Accepted(s) \/ x.to = "accepted"
         /\ \A d : Declined(s, d) => Declined(Append(s, x), d)
         /\ \A d : x = Entry("offered_to_driver", "driver_timeout", d)
                    /\ ~SingleSession => Declined(Append(s, x), d)
         /\ \A d : Driven(s, d) /\ x.to # "accepted" => Driven(Append(s, x), d)
         /\ \A d : /\ x.to = "accepted"
                   /\ x.by = d \/ Declined(s, x.by)
                   => Driven(Append(s, x), d)
<1> DEFINE t == Append(s, x)
           n == Len(s) + 1
<1>1. /\ t \in Seq(AuditRow) /\ DOMAIN t = DOMAIN s \cup {n} /\ t[n] = x
      /\ \A i \in DOMAIN s : t[i] = s[i]
      /\ DOMAIN s = 1 .. Len(s) /\ Len(s) \in Nat
  OBVIOUS
<1> HIDE DEF t
<1>2. Accepted(t) <=> Accepted(s) \/ x.to = "accepted"
  BY <1>1 DEF Accepted
<1>3. \A d : Declined(s, d) => Declined(t, d)
  BY <1>1 DEF Declined
<1>4. \A d : x = Entry("offered_to_driver", "driver_timeout", d)
             /\ ~SingleSession => Declined(t, d)
  BY <1>1 DEF Declined
<1>5. ASSUME NEW d, Driven(s, d), x.to # "accepted" PROVE Driven(t, d)
  <2>1. PICK i \in DOMAIN s :
          /\ s[i].to = "accepted"
          /\ \A j \in DOMAIN s : s[j].to = "accepted" => j <= i
          /\ \/ s[i].by = d
             \/ /\ ~SingleSession
                /\ \E j \in 1 .. i - 1 :
                     s[j] = Entry("offered_to_driver", "driver_timeout", s[i].by)
    BY <1>5 DEF Driven
  <2>2. \A j \in 1 .. i - 1 : t[j] = s[j] BY <1>1
  <2>3. \A j \in DOMAIN t : t[j].to = "accepted" => j <= i
    BY <1>1, <1>5, <2>1
  <2>. QED BY <1>1, <2>1, <2>2, <2>3 DEF Driven
<1>6. ASSUME NEW d, x.to = "accepted", x.by = d \/ Declined(s, x.by)
      PROVE  Driven(t, d)
  <2>1. 1 .. n - 1 = DOMAIN s /\ \A j \in DOMAIN t : j <= n
    BY <1>1
  <2>2. \/ t[n].by = d
        \/ /\ ~SingleSession
           /\ \E j \in 1 .. n - 1 :
                t[j] = Entry("offered_to_driver", "driver_timeout", t[n].by)
    BY <1>1, <1>6, <2>1 DEF Declined
  <2>. QED BY <1>1, <1>6, <2>1, <2>2 DEF Driven
<1>. QED BY <1>1, <1>2, <1>3, <1>4, <1>5, <1>6 DEF t

\* What a commit does to the drivers of its ride.
LEMMA DriversOfACommit ==
  ASSUME IInv, DriverInv, NEW c \in Sessions, NEW r \in Rides, Commits(c, r)
  PROVE  /\ Accepted(trail'[r]) => /\ Driven(trail'[r], ride'[r].driver)
                                  /\ ride'[r].state \notin poolRideStates \cup {NoRow}
         /\ ride'[r].state \in UnderWay => Accepted(trail'[r])
         /\ Accepted(trail[r]) => Accepted(trail'[r])
         /\ \A d : Declined(trail[r], d) => Declined(trail'[r], d)
         /\ \A b \in DriverSessions \ {c} : ride[r].driver = DriverOf[b] =>
              ride'[r].driver = DriverOf[b] \/ Declined(trail'[r], DriverOf[b])
<1> DEFINE s == trail[r]
<1>1. /\ s \in Seq(AuditRow) /\ ride[r].state \in RideState \cup {NoRow}
      /\ Accepted(s) => /\ Driven(s, ride[r].driver)
                        /\ ride[r].state \notin poolRideStates \cup {NoRow}
      /\ ride[r].state \in UnderWay => Accepted(s)
  BY DEF IInv, TypeOK, RideRow, DriverInv
<1>2. /\ "requested" \in RideState /\ "matching" \in RideState
      /\ "offered_to_driver" \in RideState /\ "driver_timeout" \in RideState
      /\ "dispatch" \in Actors /\ NoRow \notin RideState
  BY StatesOfTheTable DEF waitingRideStates, driverActiveRideStates, Actors
<1>3. \A b \in DriverSessions : DriverOf[b] # None /\ DriverOf[b] \in Actors
  BY SessionAssumption, NoneAssumption DEF Actors
<1> HIDE DEF s
<1>4. CASE BookingCommits(c, r)
  <2> DEFINE x == Entry(NoRow, "requested", RiderOf[c])
  <2>1. x \in AuditRow /\ x.to = "requested"
    BY <1>2, <1>4, SessionAssumption DEF BookingCommits, Entry, AuditRow, Actors
  <2>2. /\ trail'[r] = Append(s, x) /\ ride[r].state = NoRow
        /\ ride'[r].state = "requested" /\ ride[r].driver = None
    BY <1>4 DEF BookingCommits, IInv, RowOK, s
  <2> HIDE DEF x
  <2>3. ~Accepted(s) /\ ~Accepted(trail'[r])
    BY <1>1, <2>1, <2>2, OneMoreRow
  <2>4. \A d : Declined(s, d) => Declined(trail'[r], d)
    BY <1>1, <2>1, <2>2, OneMoreRow
  <2>. QED
    BY <1>3, <2>2, <2>3, <2>4 DEF UnderWay, driverActiveRideStates, s
<1>5. ASSUME NEW from \in RideState, NEW to \in RideState,
             ChangeCommits(c, r, from, to)
      PROVE  /\ Accepted(trail'[r]) => Driven(trail'[r], ride[r].driver)
             /\ ride'[r].state \notin poolRideStates \cup {NoRow}
             /\ ride'[r].state \in UnderWay => Accepted(trail'[r])
             /\ Accepted(s) => Accepted(trail'[r])
             /\ \A d : Declined(s, d) => Declined(trail'[r], d)
             /\ ride'[r].driver = ride[r].driver
  <2> DEFINE x == Entry(from, to, ActorOf(c, to))
  <2>1. x \in AuditRow /\ x.to = to /\ x.by = ActorOf(c, to)
    BY <1>2, SessionAssumption DEF Entry, AuditRow, ActorOf, Actors, Sessions
  <2>2. /\ trail'[r] = Append(s, x) /\ ride'[r].state = to
        /\ ride'[r].driver = ride[r].driver /\ to \notin poolRideStates
        /\ pc[c] = "write" /\ job[c].ride = r /\ job[c].to = to
    BY <1>5 DEF ChangeCommits, s
  <2>3. /\ to = "accepted" => /\ c \in DriverSessions
                             /\ \/ ride[r].driver = DriverOf[c]
                                \/ Declined(s, DriverOf[c])
        /\ to \in UnderWay \ {"accepted"} => Accepted(s)
    BY <2>2 DEF DriverInv, s
  <2>4. to = "accepted" => x.by = DriverOf[c]
    BY <2>1, <2>3, SessionAssumption DEF ActorOf
  <2> HIDE DEF x
  <2>5. /\ Accepted(trail'[r]) <=> Accepted(s) \/ to = "accepted"
        /\ \A d : Declined(s, d) => Declined(trail'[r], d)
    BY <1>1, <2>1, <2>2, OneMoreRow
  <2>6. Accepted(trail'[r]) => Driven(trail'[r], ride[r].driver)
    <3>1. CASE to = "accepted"
      BY <1>1, <2>1, <2>2, <2>3, <2>4, <3>1, OneMoreRow
    <3>2. CASE to # "accepted"
      BY <1>1, <2>1, <2>2, <2>5, <3>2, OneMoreRow
    <3>. QED BY <3>1, <3>2
  <2>. QED BY <1>2, <2>2, <2>3, <2>5, <2>6
<1>6. CASE DeclineCommits(c, r)
  <2> DEFINE x == Entry("offered_to_driver", "driver_timeout", DriverOf[c])
             y == Entry("driver_timeout", "matching", "dispatch")
             u == Append(s, x)
  <2>1. /\ x \in AuditRow /\ y \in AuditRow
        /\ x.to = "driver_timeout" /\ y.to = "matching"
    BY <1>2, <1>3, <1>6 DEF DeclineCommits, Entry, AuditRow
  <2>2. /\ trail'[r] = Append(u, y) /\ ride[r].state = "offered_to_driver"
        /\ ride'[r].state = "matching" /\ ride[r].driver = DriverOf[c]
        /\ c \in DriverSessions
    BY <1>6 DEF DeclineCommits, s
  <2>3. ~SingleSession => Declined(u, DriverOf[c])
    BY <1>1, <2>1, OneMoreRow
  <2> HIDE DEF x, y
  <2>4. u \in Seq(AuditRow) /\ (Accepted(u) <=> Accepted(s))
        /\ \A d : Declined(s, d) => Declined(u, d)
    BY <1>1, <2>1, OneMoreRow
  <2> HIDE DEF u
  <2>5. (Accepted(trail'[r]) <=> Accepted(u))
        /\ \A d : Declined(u, d) => Declined(trail'[r], d)
    BY <2>1, <2>2, <2>4, OneMoreRow
  <2>6. ~Accepted(s) BY <1>1, <2>2 DEF poolRideStates
  <2>7. \A b \in DriverSessions \ {c} :
          DriverOf[b] = DriverOf[c] => Declined(trail'[r], DriverOf[b])
    BY <2>2, <2>3, <2>5 DEF SingleSession
  <2>. QED
    BY <2>2, <2>4, <2>5, <2>6, <2>7 DEF UnderWay, driverActiveRideStates, s
<1>7. CASE ClaimCommits(c, r)
  <2> DEFINE x == Entry("requested", "matching", "dispatch")
             y == Entry("matching", "offered_to_driver", "dispatch")
             u == IF ride[r].state = "requested" THEN Append(s, x) ELSE s
  <2>1. /\ x \in AuditRow /\ y \in AuditRow
        /\ x.to = "matching" /\ y.to = "offered_to_driver"
    BY <1>2 DEF Entry, AuditRow
  <2>2. /\ trail'[r] = Append(u, y) /\ ride[r].state \in waitingRideStates
        /\ ride'[r].state = "offered_to_driver" /\ ride[r].driver = None
    BY <1>7 DEF ClaimCommits, s
  <2> HIDE DEF x, y
  <2>3. u \in Seq(AuditRow) /\ (Accepted(u) <=> Accepted(s))
        /\ \A d : Declined(s, d) => Declined(u, d)
    BY <1>1, <2>1, OneMoreRow
  <2> HIDE DEF u
  <2>4. (Accepted(trail'[r]) <=> Accepted(u))
        /\ \A d : Declined(u, d) => Declined(trail'[r], d)
    BY <2>1, <2>2, <2>3, OneMoreRow
  <2>5. ~Accepted(s) BY <1>1, <2>2 DEF poolRideStates
  <2>. QED
    BY <1>3, <2>2, <2>3, <2>4, <2>5 DEF UnderWay, s
<1>. QED
  BY <1>4, <1>5, <1>6, <1>7 DEF Commits, s

LEMMA DriverInvStep ==
  ASSUME IInv, DriverInv, [Next]_vars PROVE DriverInv'
<1>1. ASSUME NEW q \in Rides
      PROVE  \/ ride'[q] = ride[q] /\ trail'[q] = trail[q]
             \/ \E c \in Sessions : Commits(c, q)
  <2>1. CASE UNCHANGED rows
    BY <2>1 DEF rows
  <2>2. ASSUME NEW c \in Sessions, NEW r \in Rides, Commits(c, r), q # r
        PROVE  ride'[q] = ride[q] /\ trail'[q] = trail[q]
    BY <2>2 DEF Commits, BookingCommits, ChangeCommits, DeclineCommits,
                ClaimCommits, OnlyRide
  <2>. QED BY <2>1, <2>2, StepCommits
<1>2. ASSUME NEW q \in Rides
      PROVE  /\ Accepted(trail'[q]) => /\ Driven(trail'[q], ride'[q].driver)
                                      /\ ride'[q].state \notin poolRideStates \cup {NoRow}
             /\ ride'[q].state \in UnderWay => Accepted(trail'[q])
             /\ Accepted(trail[q]) => Accepted(trail'[q])
             /\ \A d : Declined(trail[q], d) => Declined(trail'[q], d)
  BY <1>1, DriversOfACommit DEF DriverInv
<1>3. ASSUME NEW b \in Sessions, pc'[b] \in {"check", "write"}
      PROVE  LET r == job'[b].ride IN
             /\ job'[b].to = "accepted" => b \in DriverSessions
             /\ pc'[b] = "write" /\ job'[b].to = "accepted" =>
                  \/ ride'[r].driver = DriverOf[b]
                  \/ Declined(trail'[r], DriverOf[b])
             /\ job'[b].to \in UnderWay \ {"accepted"} => Accepted(trail'[r])
  <2>1. CASE pc'[b] = pc[b] /\ job'[b] = job[b]
    <3> DEFINE r == job[b].ride
    <3>1. r \in Rides BY <1>3, <2>1, JobTyped DEF HoldsRide
    <3>2. /\ job[b].to = "accepted" => b \in DriverSessions
          /\ pc[b] = "write" /\ job[b].to = "accepted" =>
               ride[r].driver = DriverOf[b] \/ Declined(trail[r], DriverOf[b])
          /\ job[b].to \in UnderWay \ {"accepted"} => Accepted(trail[r])
      BY <1>3, <2>1 DEF DriverInv
    <3>3. ASSUME NEW c \in Sessions, Commits(c, r) PROVE c # b
      <4>1. pc'[c] = "publish"
        BY <3>3 DEF Commits, BookingCommits, ChangeCommits, DeclineCommits,
                    ClaimCommits
      <4>. QED BY <1>3, <4>1
    <3> HIDE DEF r
    <3>4. /\ b \in DriverSessions
          /\ ride[r].driver = DriverOf[b] \/ Declined(trail[r], DriverOf[b])
          => \/ ride'[r].driver = DriverOf[b]
             \/ Declined(trail'[r], DriverOf[b])
      BY <1>1, <1>2, <3>1, <3>3, DriversOfACommit
    <3>. QED BY <1>2, <2>1, <3>1, <3>2, <3>4 DEF r
  <2>2. CASE Begin(b) \/ Continue(b) \/ RequestFails(b)
    <3>1. CASE pc'[b] = "write"
      <4>1. /\ pc[b] = "check" /\ StillInState(b) /\ UNCHANGED rows
            /\ job'[b] = [job[b] EXCEPT !.seen = Len(trail[job[b].ride])]
        BY <2>2, <3>1, StepsOfARequest
      <4>2. job'[b].ride = job[b].ride /\ job'[b].to = job[b].to
            /\ ride' = ride /\ trail' = trail
        BY <4>1, JobTyped DEF Job, rows
      <4>3. b \in DriverSessions => ride[job[b].ride].driver = DriverOf[b]
        BY <4>1, SessionAssumption DEF StillInState, Owns
      <4>. QED BY <4>1, <4>2, <4>3 DEF DriverInv
    <3>2. CASE pc'[b] = "check"
      <4>1. UNCHANGED rows BY <2>2, <3>2, StepsOfARequest
      <4>2. ASSUME NEW r \in Rides, Owns(b, r), b \in RiderSessions,
                   job'[b] = HasRead(r, ride[r].state, "cancelled_by_rider")
            PROVE  job'[b].to \notin UnderWay \cup {"accepted"}
        BY <4>2 DEF HasRead, UnderWay, driverActiveRideStates
      <4>3. ASSUME NEW r \in Rides, Owns(b, r), b \in DriverSessions,
                   NEW to \in driverAdvanceStates \cup
                                {"accepted", "cancelled_by_driver"},
                   canTransitionRideState(ride[r].state, to),
                   job'[b] = HasRead(r, ride[r].state, to)
            PROVE  job'[b].to \in UnderWay \ {"accepted"} =>
                     Accepted(trail[job'[b].ride])
        <5>1. job'[b].to = to /\ job'[b].ride = r BY <4>3 DEF HasRead
        <5>2. ride[r].state \in RideState BY <4>3, OwnsBooked
        <5>3. to \in driverAdvanceStates => ride[r].state \in UnderWay
          BY <4>3, <5>2, AdvancesFromUnderWay
        <5>4. "cancelled_by_driver" \notin UnderWay
          BY DEF UnderWay, driverActiveRideStates
        <5>. QED BY <5>1, <5>3, <5>4 DEF DriverInv
      <4>4. ASSUME NEW r \in Rides, ride[r].state = "arrived_at_destination",
                   b \in DriverSessions,
                   job'[b] = HasRead(r, "arrived_at_destination",
                                     "payment_pending")
            PROVE  Accepted(trail[job'[b].ride])
        <5>1. job'[b].ride = r BY <4>4 DEF HasRead
        <5>. QED
          BY <4>4, <5>1 DEF DriverInv, UnderWay, driverActiveRideStates
      <4>5. ASSUME pc[b] = "publish", b \in DriverSessions,
                   job'[b] = HasRead(job[b].ride, "payment_pending", "completed")
            PROVE  job'[b].to \notin UnderWay \cup {"accepted"}
        BY <4>5 DEF HasRead, UnderWay, driverActiveRideStates
      <4>6. trail' = trail BY <4>1 DEF rows
      <4>. QED
        BY <2>2, <3>2, <4>2, <4>3, <4>4, <4>5, <4>6, StepsOfARequest
    <3>. QED BY <1>3, <3>1, <3>2
  <2>. QED BY <2>1, <2>2, Movers
<1>. QED BY <1>2, <1>3 DEF DriverInv

\* A ride under way is driven by its last accepter, unless that driver also
\* declined it: with one request at a time, always.
THEOREM DriversHaveAccepted == Spec => []DrivenByItsAccepter
<1>1. Init => DriverInv
  BY DEF Init, DriverInv, Accepted, UnderWay, NoRow, driverActiveRideStates
<1>2. IInv /\ DriverInv /\ [Next]_vars => DriverInv'
  BY DriverInvStep
<1>3. DriverInv => DrivenByItsAccepter
  BY DEF DriverInv, DrivenByItsAccepter, Driven, UnderWay
<1>. QED
  BY <1>1, <1>2, <1>3, InductiveInvariant, PTL DEF Spec

-----------------------------------------------------------------------------
(***************************************************************************)
(* What is told.                                                           *)
(***************************************************************************)

\* What a request is about to publish has been audited.
ToldInv ==
  /\ ToldWasCommitted
  /\ \A c \in Sessions : pc[c] = "publish" =>
       \E i \in DOMAIN trail[job[c].ride] : trail[job[c].ride][i].to = job[c].to

\* A request comes to publish the state its ride is in.
LEMMA PublishesTheState ==
  ASSUME IInv, NEW c \in Sessions, Begin(c) \/ Continue(c) \/ RequestFails(c),
         pc'[c] = "publish"
  PROVE  \E r \in Rides : /\ job'[c].ride = r /\ job'[c].to = ride'[r].state
                         /\ ride'[r].state # NoRow
<1>1. Continue(c)
  <2>1. ~Begin(c)
    BY GotoLeads DEF Begin, CreateRide, RiderCancelRide, AcceptRide, AdvanceRide,
       DriverCancelRide, CompleteRide, DeclineRide, GetCurrentRide, StartChange
  <2>2. ~RequestFails(c) BY GotoLeads DEF RequestFails, Finish
  <2>. QED BY <2>1, <2>2
<1>2. /\ \A r \in Rides : ride[r] \in RideRow
      /\ ride \in [Rides -> RideRow] /\ "requested" # NoRow
      /\ "matching" # NoRow /\ "offered_to_driver" # NoRow
  BY DEF IInv, TypeOK, NoRow
<1>3. CASE QuoteRide(c) \/ CheckState(c) \/ ClaimReadDriver(c) \/ ClaimPick(c)
  BY <1>3, GotoLeads
     DEF QuoteRide, CheckState, ClaimReadDriver, ClaimPick, Finish
<1>4. CASE Publish(c)
  BY <1>4, GotoLeads DEF Publish, Finish
<1>5. CASE InsertRide(c)
  <2>1. Booked(RiderOf[c], job[c].key) = {}
    BY <1>5, GotoLeads DEF InsertRide
  <2>2. PICK r \in Rides :
          /\ ride' = [ride EXCEPT ![r] =
                        [ state |-> "requested", driver |-> None,
                          rider |-> RiderOf[c], key |-> job[c].key,
                          pickup |-> job[c].pickup,
                          requestedAt |-> job[c].at, finalFare |-> FALSE ]]
          /\ job'[c] = HasRead(r, NoRow, "requested")
    BY <1>5, <2>1, GotoLeads DEF InsertRide
  <2>3. ride'[r].state = "requested" BY <1>2, <2>2
  <2>. QED BY <1>2, <2>2, <2>3 DEF HasRead
<1>6. CASE RefetchRide(c)
  <2>1. PICK r \in Booked(RiderOf[c], job[c].key) :
          job'[c] = HasRead(r, NoRow, ride[r].state) /\ ride' = ride
    BY <1>6, GotoLeads DEF RefetchRide, rows
  <2>2. r \in Rides /\ ride[r].rider = RiderOf[c] BY DEF Booked
  <2>3. c \in RiderSessions /\ RiderOf[c] # None
    BY <1>6, JobTyped, SessionAssumption, NoneAssumption DEF RefetchRide, HoldsRole
  <2>4. ride[r].state # NoRow BY <2>2, <2>3 DEF IInv, RowOK
  <2>. QED BY <2>1, <2>2, <2>4 DEF HasRead
<1>7. CASE WriteState(c)
  <2>1. /\ job[c].ride \in Rides
        /\ ChangeCommits(c, job[c].ride, job[c].from, job[c].to)
    BY <1>7, WriteCommits
  <2>2. job'[c] = HasRead(job[c].ride, NoRow, job[c].to)
    BY <1>7, GotoLeads DEF WriteState
  <2>. QED BY <2>1, <2>2, StatesOfTheTable DEF ChangeCommits, HasRead
<1>8. CASE DeclineOffer(c)
  <2> DEFINE r == job[c].ride
  <2>1. HoldsOffer(c, r) /\ r \in Rides
    BY <1>8, GotoLeads, JobTyped DEF DeclineOffer, Finish, HoldsRide
  <2>2. /\ ride' = [ride EXCEPT ![r].state = "matching", ![r].driver = None]
        /\ job'[c] = HasRead(r, NoRow, "matching")
    BY <1>8, <2>1, GotoLeads DEF DeclineOffer
  <2>3. ride'[r].state = "matching" BY <1>2, <2>1, <2>2 DEF RideRow
  <2>. QED BY <1>2, <2>1, <2>2, <2>3 DEF HasRead
<1>9. CASE ClaimTake(c)
  <2> DEFINE r == job[c].ride
  <2>1. StillUnclaimed(c, r) /\ r \in Rides
    BY <1>9, GotoLeads, JobTyped DEF ClaimTake, Finish, HoldsRide
  <2>2. /\ ride' = [ride EXCEPT ![r].state = "offered_to_driver",
                               ![r].driver = DriverOf[c]]
        /\ job'[c] = HasRead(r, NoRow, "offered_to_driver")
    BY <1>9, <2>1, GotoLeads DEF ClaimTake
  <2>3. ride'[r].state = "offered_to_driver" BY <1>2, <2>1, <2>2 DEF RideRow
  <2>. QED BY <1>2, <2>1, <2>2, <2>3 DEF HasRead
<1>. QED
  BY <1>1, <1>3, <1>4, <1>5, <1>6, <1>7, <1>8, <1>9 DEF Continue

LEMMA ToldInvStep ==
  ASSUME IInv, AuditTrail, AuditTrail', IInv', ToldInv, [Next]_vars
  PROVE  ToldInv'
<1>1. ASSUME NEW r \in Rides, NEW state,
             \E i \in DOMAIN trail[r] : trail[r][i].to = state
      PROVE  \E i \in DOMAIN trail'[r] : trail'[r][i].to = state
  <2>1. CASE trail'[r] = trail[r] BY <1>1, <2>1
  <2>2. ASSUME NEW c \in Sessions, Commits(c, r)
        PROVE  \E i \in DOMAIN trail'[r] : trail'[r][i].to = state
    BY <1>1, <2>2, CommitExtends
  <2>3. ASSUME NEW c \in Sessions, NEW q \in Rides, Commits(c, q), q # r
        PROVE  trail'[r] = trail[r]
    BY <2>3 DEF Commits, BookingCommits, ChangeCommits, DeclineCommits,
                ClaimCommits, OnlyRide
  <2>4. UNCHANGED rows => trail'[r] = trail[r] BY DEF rows
  <2>. QED BY <2>1, <2>2, <2>3, <2>4, StepCommits
<1>2. ASSUME NEW b \in Sessions, pc'[b] = "publish"
      PROVE  \E i \in DOMAIN trail'[job'[b].ride] :
               trail'[job'[b].ride][i].to = job'[b].to
  <2>1. CASE pc'[b] = pc[b] /\ job'[b] = job[b]
    <3>1. job[b].ride \in Rides BY <1>2, <2>1, JobTyped DEF HoldsRide
    <3>. QED BY <1>1, <1>2, <2>1, <3>1 DEF ToldInv
  <2>2. CASE Begin(b) \/ Continue(b) \/ RequestFails(b)
    <3>1. PICK r \in Rides : /\ job'[b].ride = r /\ job'[b].to = ride'[r].state
                            /\ ride'[r].state # NoRow
      BY <1>2, <2>2, PublishesTheState
    <3>2. trail'[r] \in Seq(AuditRow) BY DEF IInv, TypeOK
    <3>3. /\ trail'[r] # << >>
          /\ ride'[r].state = trail'[r][Len(trail'[r])].to
      BY <3>1 DEF AuditTrail
    <3>4. Len(trail'[r]) \in DOMAIN trail'[r] BY <3>2, <3>3
    <3>. QED BY <3>1, <3>3, <3>4
  <2>. QED BY <2>1, <2>2, Movers
<1>3. ToldWasCommitted'
  <2>1. CASE told' = told
    BY <1>1, <2>1 DEF ToldInv, ToldWasCommitted
  <2>2. ASSUME NEW c \in Sessions, Publish(c)
        PROVE  ToldWasCommitted'
    <3> DEFINE r == job[c].ride
    <3>1. /\ r \in Rides /\ told' = [told EXCEPT ![r] = job[c].to]
          /\ told \in [Rides -> RideState \cup {NoRow}]
          /\ \E i \in DOMAIN trail[r] : trail[r][i].to = job[c].to
      BY <2>2, JobTyped DEF Publish, HoldsRide, IInv, TypeOK, ToldInv
    <3> HIDE DEF r
    <3>2. /\ told'[r] = job[c].to
          /\ \A q \in Rides \ {r} : told'[q] = told[q]
      BY <3>1
    <3>3. \E i \in DOMAIN trail'[r] : trail'[r][i].to = told'[r]
      BY <1>1, <3>1, <3>2
    <3>4. \A q \in Rides \ {r} : told'[q] # NoRow =>
            \E i \in DOMAIN trail'[q] : trail'[q][i].to = told'[q]
      BY <1>1, <3>2 DEF ToldInv, ToldWasCommitted
    <3>. QED BY <3>3, <3>4 DEF ToldWasCommitted
  <2>3. told' = told \/ \E c \in Sessions : Publish(c)
    <3>1. ASSUME NEW c \in Sessions, Begin(c) PROVE told' = told
      BY <3>1 DEF Begin, CreateRide, RiderCancelRide, AcceptRide, AdvanceRide,
         DriverCancelRide, CompleteRide, DeclineRide, GetCurrentRide, StartChange
    <3>2. ASSUME NEW c \in Sessions, Continue(c), ~Publish(c) PROVE told' = told
      BY <3>2 DEF Continue, QuoteRide, InsertRide, RefetchRide, CheckState,
         WriteState, DeclineOffer, ClaimReadDriver, ClaimPick, ClaimTake
    <3>3. ASSUME NEW c \in Sessions, RequestFails(c) PROVE told' = told
      BY <3>3 DEF RequestFails
    <3>4. CASE \/ \E d \in Drivers, on \in BOOLEAN : UpdateAvailability(d, on)
               \/ Tick \/ UNCHANGED vars
      BY <3>4 DEF UpdateAvailability, Tick, vars
    <3>. QED BY <3>1, <3>2, <3>3, <3>4 DEF Next
  <2>. QED BY <2>1, <2>2, <2>3
<1>. QED BY <1>2, <1>3 DEF ToldInv

\* An event tells of a state that its ride has been in, whatever failed.
THEOREM EventsAreTrue == Spec => []ToldWasCommitted
<1>1. Init => ToldInv
  BY DEF Init, ToldInv, ToldWasCommitted
<1>2. IInv /\ IInv' /\ AuditTrail /\ AuditTrail' /\ ToldInv /\ [Next]_vars
        => ToldInv'
  BY ToldInvStep
<1>3. ToldInv => ToldWasCommitted BY DEF ToldInv
<1>. QED
  BY <1>1, <1>2, <1>3, InductiveInvariant, AuditTrailIsKept, PTL DEF Spec

-----------------------------------------------------------------------------
(***************************************************************************)
(* Completion and payment.                                                 *)
(***************************************************************************)

\* Settled, with the first completion named, and every booked ride with a
\* payment.
SettledInv ==
  \A r \in Rides :
    /\ ride[r].state # NoRow => payment[r].status # NoRow
    /\ \/ /\ Completions(r) = {} /\ ~ride[r].finalFare
          /\ payment[r].status # "paid" /\ payment[r].collectedBy = None
       \/ /\ ride[r].finalFare /\ payment[r].status = "paid"
          /\ \E i \in Completions(r) :
               /\ \A j \in Completions(r) : i <= j
               /\ payment[r].collectedBy = trail[r][i].by

LEMMA SettledFromInv == ASSUME TypeOK, SettledInv PROVE Settled
<1> SUFFICES ASSUME NEW r \in Rides
             PROVE  /\ ride[r].finalFare <=> Completions(r) # {}
                    /\ payment[r].status = "paid" <=> Completions(r) # {}
                    /\ payment[r].collectedBy =
                         IF Completions(r) = {} THEN None
                         ELSE trail[r][CHOOSE i \in Completions(r) :
                                         \A j \in Completions(r) : i <= j].by
  BY DEF Settled
<1>1. CASE /\ Completions(r) = {} /\ ~ride[r].finalFare
           /\ payment[r].status # "paid" /\ payment[r].collectedBy = None
  BY <1>1
<1>2. CASE /\ ride[r].finalFare /\ payment[r].status = "paid"
           /\ \E i \in Completions(r) :
                /\ \A j \in Completions(r) : i <= j
                /\ payment[r].collectedBy = trail[r][i].by
  <2> DEFINE first == CHOOSE i \in Completions(r) :
                        \A j \in Completions(r) : i <= j
  <2>1. PICK i \in Completions(r) :
          /\ \A j \in Completions(r) : i <= j
          /\ payment[r].collectedBy = trail[r][i].by
    BY <1>2
  <2>2. first \in Completions(r) /\ \A j \in Completions(r) : first <= j
    BY <2>1
  <2>3. i \in Nat /\ first \in Nat
    BY <2>2 DEF Completions, TypeOK
  <2>4. i = first
    BY <2>1, <2>2, <2>3
  <2>5. QED
    BY <1>2, <2>1, <2>4
<1>3. QED
  BY <1>1, <1>2 DEF SettledInv

\* The positions of the completions in a trail.
Done(s) == { i \in DOMAIN s : s[i].to = "completed" }

LEMMA AppendDone ==
  ASSUME NEW s \in Seq(AuditRow), NEW x \in AuditRow
  PROVE  /\ Done(Append(s, x)) = IF x.to = "completed"
                                 THEN Done(s) \cup {Len(s) + 1} ELSE Done(s)
         /\ \A i \in Done(s) : i \in Nat /\ i <= Len(s)
                               /\ Append(s, x)[i] = s[i]
         /\ Append(s, x)[Len(s) + 1] = x
         /\ Append(s, x) \in Seq(AuditRow)
<1>1. /\ Append(s, x)[Len(s) + 1] = x
      /\ \A i \in DOMAIN s : i \in Nat /\ i <= Len(s) /\ Append(s, x)[i] = s[i]
      /\ DOMAIN Append(s, x) = DOMAIN s \cup {Len(s) + 1}
      /\ Append(s, x) \in Seq(AuditRow)
  OBVIOUS
<1>2. QED
  BY <1>1 DEF Done

\* Everything but a completion leaves what was collected as it is.
LEMMA OtherCommits ==
  ASSUME IInv, NEW c \in Sessions, NEW r \in Rides, Commits(c, r),
         ~ \E from \in RideState : ChangeCommits(c, r, from, "completed")
  PROVE  /\ Done(trail'[r]) = Done(trail[r])
         /\ \A i \in Done(trail[r]) : trail'[r][i] = trail[r][i]
<1>1. trail[r] \in Seq(AuditRow)
  BY DEF IInv, TypeOK
<1>2. ASSUME NEW x \in AuditRow, x.to # "completed",
             trail'[r] = Append(trail[r], x)
      PROVE  /\ Done(trail'[r]) = Done(trail[r])
             /\ \A i \in Done(trail[r]) : trail'[r][i] = trail[r][i]
  <2>1. /\ Done(Append(trail[r], x)) = Done(trail[r])
        /\ \A i \in Done(trail[r]) : Append(trail[r], x)[i] = trail[r][i]
    BY <1>1, <1>2, AppendDone
  <2>2. QED
    BY <1>2, <2>1
<1>3. ASSUME NEW x \in AuditRow, x.to # "completed",
             NEW y \in AuditRow, y.to # "completed",
             trail'[r] = Append(Append(trail[r], x), y)
      PROVE  /\ Done(trail'[r]) = Done(trail[r])
             /\ \A i \in Done(trail[r]) : trail'[r][i] = trail[r][i]
  <2> DEFINE s == Append(trail[r], x)
  <2>1. /\ Done(s) = Done(trail[r]) /\ s \in Seq(AuditRow)
        /\ \A i \in Done(trail[r]) : s[i] = trail[r][i]
    BY <1>1, <1>3, AppendDone
  <2> HIDE DEF s
  <2>2. /\ Done(Append(s, y)) = Done(s)
        /\ \A i \in Done(s) : Append(s, y)[i] = s[i]
    BY <1>3, <2>1, AppendDone
  <2>3. QED
    BY <1>3, <2>1, <2>2 DEF s
<1>4. /\ "requested" \in RideState /\ "matching" \in RideState
      /\ "offered_to_driver" \in RideState /\ "driver_timeout" \in RideState
      /\ "dispatch" \in Actors
  BY StatesOfTheTable DEF waitingRideStates, driverActiveRideStates, Actors
<1>5. CASE BookingCommits(c, r)
  <2>1. Entry(NoRow, "requested", RiderOf[c]) \in AuditRow
        /\ Entry(NoRow, "requested", RiderOf[c]).to # "completed"
    BY <1>4, <1>5, SessionAssumption DEF BookingCommits, Entry, AuditRow, Actors
  <2>2. QED
    BY <1>2, <1>5, <2>1 DEF BookingCommits
<1>6. ASSUME NEW from \in RideState, NEW to \in RideState,
             ChangeCommits(c, r, from, to)
      PROVE  /\ Done(trail'[r]) = Done(trail[r])
             /\ \A i \in Done(trail[r]) : trail'[r][i] = trail[r][i]
  <2>1. to # "completed"
    BY <1>6
  <2>2. Entry(from, to, ActorOf(c, to)) \in AuditRow
        /\ Entry(from, to, ActorOf(c, to)).to # "completed"
    BY <1>4, <2>1, SessionAssumption
    DEF Entry, AuditRow, ActorOf, Actors, Sessions
  <2>3. QED
    BY <1>2, <1>6, <2>2 DEF ChangeCommits
<1>7. CASE DeclineCommits(c, r)
  <2> DEFINE x == Entry("offered_to_driver", "driver_timeout", DriverOf[c])
             y == Entry("driver_timeout", "matching", "dispatch")
  <2>1. /\ x \in AuditRow /\ y \in AuditRow
        /\ x.to # "completed" /\ y.to # "completed"
    BY <1>4, <1>7, SessionAssumption DEF DeclineCommits, Entry, AuditRow, Actors
  <2>2. trail'[r] = Append(Append(trail[r], x), y)
    BY <1>7 DEF DeclineCommits
  <2> HIDE DEF x, y
  <2>3. QED
    BY <1>3, <2>1, <2>2
<1>8. CASE ClaimCommits(c, r)
  <2> DEFINE x == Entry("requested", "matching", "dispatch")
             y == Entry("matching", "offered_to_driver", "dispatch")
  <2>1. /\ x \in AuditRow /\ y \in AuditRow
        /\ x.to # "completed" /\ y.to # "completed"
    BY <1>4 DEF Entry, AuditRow
  <2>2. \/ trail'[r] = Append(trail[r], y)
        \/ trail'[r] = Append(Append(trail[r], x), y)
    BY <1>8 DEF ClaimCommits
  <2> HIDE DEF x, y
  <2>3. QED
    BY <1>2, <1>3, <2>1, <2>2
<1>9. QED
  BY <1>5, <1>6, <1>7, <1>8 DEF Commits

LEMMA SettledInvStep ==
  ASSUME IInv, AuditTrail, SettledInv, [Next]_vars PROVE SettledInv'
<1> DEFINE Fine(r) ==
      /\ ride[r].state # NoRow => payment[r].status # NoRow
      /\ \/ /\ Completions(r) = {} /\ ~ride[r].finalFare
            /\ payment[r].status # "paid" /\ payment[r].collectedBy = None
         \/ /\ ride[r].finalFare /\ payment[r].status = "paid"
            /\ \E i \in Completions(r) :
                 /\ \A j \in Completions(r) : i <= j
                 /\ payment[r].collectedBy = trail[r][i].by
<1>1. SettledInv <=> \A r \in Rides : Fine(r)
  BY DEF SettledInv
<1>2. SettledInv' <=> \A r \in Rides : Fine(r)'
  BY DEF SettledInv
<1>3. CASE UNCHANGED rows
  BY <1>1, <1>2, <1>3 DEF rows, Completions
<1>4. ASSUME NEW c \in Sessions, NEW r \in Rides, Commits(c, r)
      PROVE  SettledInv'
  <2>1. \A q \in Rides \ {r} : Fine(q)'
    <3>1. \A q \in Rides \ {r} : /\ ride'[q] = ride[q] /\ trail'[q] = trail[q]
                                 /\ payment'[q] = payment[q]
      BY <1>4 DEF Commits, BookingCommits, ChangeCommits, DeclineCommits,
                  ClaimCommits, OnlyRide
    <3>2. QED
      BY <1>1, <3>1 DEF Completions
  <2>2. Completions(r) = Done(trail[r]) /\ Completions(r)' = Done(trail'[r])
    BY DEF Completions, Done
  <2>3. /\ trail[r] \in Seq(AuditRow) /\ payment[r] \in PaymentRow
        /\ payment[r].status \in {NoRow, "pending", "paid"}
    BY DEF IInv, TypeOK, PaymentRow
  <2>4. Fine(r)
    BY <1>1
  <2>5. CASE \E from \in RideState : ChangeCommits(c, r, from, "completed")
    <3> DEFINE n == Len(trail[r]) + 1
    <3>1. PICK from \in RideState : ChangeCommits(c, r, from, "completed")
      BY <2>5
    <3>2. c \in DriverSessions /\ c \notin RiderSessions
      BY <3>1, SessionAssumption DEF ChangeCommits
    <3> DEFINE x == Entry(from, "completed", ActorOf(c, "completed"))
    <3>3. x \in AuditRow /\ x.to = "completed" /\ x.by = DriverOf[c]
      BY <3>2, SessionAssumption, StatesOfTheTable
      DEF Entry, AuditRow, ActorOf, Actors
    <3>4. /\ trail'[r] = Append(trail[r], x) /\ ride'[r].finalFare
          /\ ride[r].state # NoRow
          /\ payment'[r] = IF payment[r].status = "pending"
                           THEN [status |-> "paid", collectedBy |-> DriverOf[c]]
                           ELSE payment[r]
      BY <3>1 DEF ChangeCommits
    <3> HIDE DEF x
    <3>5. /\ Done(trail'[r]) = Done(trail[r]) \cup {n}
          /\ trail'[r][n] = x /\ n \in Nat
          /\ \A i \in Done(trail[r]) : i \in Nat /\ i <= n
                                       /\ trail'[r][i] = trail[r][i]
      <4>1. /\ Done(Append(trail[r], x)) = Done(trail[r]) \cup {n}
            /\ Append(trail[r], x)[n] = x
            /\ \A i \in Done(trail[r]) : i \in Nat /\ i <= Len(trail[r])
                                   /\ Append(trail[r], x)[i] = trail[r][i]
        BY <2>3, <3>3, AppendDone
      <4>2. Len(trail[r]) \in Nat
        BY <2>3
      <4>3. n \in Nat /\ \A i \in Done(trail[r]) : i \in Nat /\ i <= n
        BY <4>1, <4>2
      <4> HIDE DEF n
      <4>4. QED
        BY <3>4, <4>1, <4>3
    <3> HIDE DEF n
    <3>6. CASE payment[r].status = "pending"
      <4>1. Done(trail[r]) = {}
        BY <2>2, <2>4, <3>6
      <4>2. payment'[r].status = "paid" /\ payment'[r].collectedBy = trail'[r][n].by
        BY <3>3, <3>4, <3>5, <3>6
      <4>3. /\ n \in Done(trail'[r])
            /\ \A j \in Done(trail'[r]) : n <= j
        BY <3>5, <4>1
      <4>4. \E i \in Completions(r)' :
              /\ \A j \in Completions(r)' : i <= j
              /\ payment'[r].collectedBy = trail'[r][i].by
        BY <2>2, <4>2, <4>3
      <4>5. Fine(r)'
        BY <3>4, <4>2, <4>4 DEF NoRow
      <4>6. QED
        BY <1>2, <2>1, <4>5
    <3>7. CASE payment[r].status # "pending"
      <4>1. payment[r].status = "paid" /\ payment'[r] = payment[r]
        BY <2>3, <2>4, <3>4, <3>7
      <4>2. PICK i \in Done(trail[r]) :
              /\ \A j \in Done(trail[r]) : i <= j
              /\ payment[r].collectedBy = trail[r][i].by
        BY <2>2, <2>4, <4>1
      <4>3. /\ i \in Done(trail'[r]) /\ \A j \in Done(trail'[r]) : i <= j
            /\ payment'[r].collectedBy = trail'[r][i].by
        BY <3>5, <4>1, <4>2
      <4>4. \E k \in Completions(r)' :
              /\ \A j \in Completions(r)' : k <= j
              /\ payment'[r].collectedBy = trail'[r][k].by
        BY <2>2, <4>3
      <4>5. Fine(r)'
        BY <3>4, <4>1, <4>4 DEF NoRow
      <4>6. QED
        BY <1>2, <2>1, <4>5
    <3>8. QED
      BY <3>6, <3>7
  <2>6. CASE ~ \E from \in RideState : ChangeCommits(c, r, from, "completed")
    <3>1. /\ Done(trail'[r]) = Done(trail[r])
          /\ \A i \in Done(trail[r]) : trail'[r][i] = trail[r][i]
      BY <1>4, <2>6, OtherCommits
    <3>2. CASE BookingCommits(c, r)
      <4>1. trail[r] = << >>
        <5>1. CASE trail[r] # << >>
          <6>1. trail[r][Len(trail[r])] \in AuditRow
            BY <2>3, <5>1
          <6>2. ride[r].state \in RideState
            BY <5>1, <6>1, AuditTrailParts DEF LeadsTo, AuditRow
          <6>3. QED
            BY <3>2, <6>2, StatesOfTheTable DEF BookingCommits
        <5>2. QED
          BY <5>1
      <4>2. Done(trail[r]) = {}
        BY <4>1 DEF Done
      <4>3. /\ payment'[r].status = "pending" /\ payment'[r].collectedBy = None
            /\ ~ride'[r].finalFare
        BY <2>2, <2>4, <3>2, <4>2 DEF BookingCommits
      <4>4. Fine(r)'
        BY <2>2, <3>1, <4>2, <4>3 DEF NoRow
      <4>5. QED
        BY <1>2, <2>1, <4>4
    <3>3. CASE ~BookingCommits(c, r)
      <4>1. /\ ride[r].state # NoRow /\ payment'[r] = payment[r]
            /\ ride'[r].finalFare = ride[r].finalFare
        <5>1. ASSUME NEW from \in RideState, NEW to \in RideState,
                     ChangeCommits(c, r, from, to)
              PROVE  /\ ride[r].state # NoRow /\ payment'[r] = payment[r]
                     /\ ride'[r].finalFare = ride[r].finalFare
          <6>1. to # "completed" /\ ride[r].finalFare \in BOOLEAN
            BY <2>6, <5>1 DEF IInv, TypeOK, RideRow
          <6>2. QED
            BY <5>1, <6>1 DEF ChangeCommits
        <5>2. CASE DeclineCommits(c, r)
          BY <5>2 DEF DeclineCommits, NoRow
        <5>3. CASE ClaimCommits(c, r)
          BY <5>3 DEF ClaimCommits, waitingRideStates, NoRow
        <5>4. QED
          BY <1>4, <3>3, <5>1, <5>2, <5>3 DEF Commits
      <4>2. Fine(r)'
        BY <2>2, <2>4, <3>1, <4>1
      <4>3. QED
        BY <1>2, <2>1, <4>2
    <3>4. QED
      BY <3>2, <3>3
  <2>7. QED
    BY <2>5, <2>6
<1>5. QED
  BY <1>3, <1>4, StepCommits

\* The payment is collected once, by the driver of the first completion, and
\* only with it.
THEOREM PaymentsAreSettled == Spec => []Settled
<1>1. Init => SettledInv
  BY DEF Init, SettledInv, Completions, NoRow
<1>2. IInv /\ AuditTrail /\ SettledInv /\ [Next]_vars => SettledInv'
  BY SettledInvStep
<1>3. IInv /\ SettledInv => Settled
  BY SettledFromInv DEF IInv
<1>4. QED
  BY <1>1, <1>2, <1>3, InductiveInvariant, AuditTrailIsKept, PTL DEF Spec

=============================================================================
