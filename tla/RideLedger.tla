----------------------------- MODULE RideLedger -----------------------------
(***************************************************************************)
(* What the API promises of the rows of a ride, whatever requests overlap: *)
(* the ledger of a ride moves in the atomic steps below.  Each step leaves *)
(* audit rows the transition table allows, a driver is attached only by an *)
(* offer and detached only by returning that offer, a ride that has left   *)
(* dispatch never goes back, and the payment is settled by the first       *)
(* completion.  Overwrite is the weak spot: a move that was right when the *)
(* ride was read and is no longer when it is written.                      *)
(***************************************************************************)
EXTENDS Naturals, Sequences, RideStateMachine

CONSTANTS Rides, Riders, Drivers, None

VARIABLES
  state,    \* of each ride, "none" until it is booked
  driver,   \* the driver of each ride, or None
  trail,    \* the audit rows of each ride, oldest first
  payment   \* the payment of each ride

vars == << state, driver, trail, payment >>

Unbooked == "none"

Row(from, to, by) == [from |-> from, to |-> to, by |-> by]

Extend(r, newRows) == trail' = [trail EXCEPT ![r] = @ \o newRows]

\* States this ride has been in.
Past(r) == { trail[r][i].to : i \in DOMAIN trail[r] }

Init ==
  /\ state = [r \in Rides |-> Unbooked]
  /\ driver = [r \in Rides |-> None]
  /\ trail = [r \in Rides |-> << >>]
  /\ payment = [r \in Rides |-> [status |-> "none", collectedBy |-> None]]

Open(r) ==
  /\ state[r] = Unbooked
  /\ state' = [state EXCEPT ![r] = "requested"]
  /\ payment' = [payment EXCEPT ![r].status = "pending"]
  /\ \E rider \in Riders : Extend(r, << Row(Unbooked, "requested", rider) >>)
  /\ UNCHANGED driver

\* From requested the ride passes through matching in the same step.
Offer(r, d) ==
  /\ state[r] \in waitingRideStates /\ driver[r] = None
  /\ state' = [state EXCEPT ![r] = "offered_to_driver"]
  /\ driver' = [driver EXCEPT ![r] = d]
  /\ LET offered == << Row("matching", "offered_to_driver", "dispatch") >>
     IN IF state[r] = "matching" THEN Extend(r, offered)
        ELSE Extend(r, << Row("requested", "matching", "dispatch") >>
                         \o offered)
  /\ UNCHANGED payment

\* Only the driver who holds the offer returns it.
Return(r) ==
  /\ state[r] = "offered_to_driver"
  /\ state' = [state EXCEPT ![r] = "matching"]
  /\ driver' = [driver EXCEPT ![r] = None]
  /\ Extend(r, << Row("offered_to_driver", "driver_timeout", driver[r]),
                  Row("driver_timeout", "matching", "dispatch") >>)
  /\ UNCHANGED payment

\* One audited move to a state beyond dispatch, by a party allowed to make it.
Record(r, from, to) ==
  /\ canTransitionRideState(from, to)
  /\ state' = [state EXCEPT ![r] = to]
  /\ \/ /\ to = "cancelled_by_rider"
        /\ \E rider \in Riders : Extend(r, << Row(from, to, rider) >>)
        /\ UNCHANGED payment
     \/ /\ to = "payment_pending"
        /\ Extend(r, << Row(from, to, "dispatch") >>)
        /\ UNCHANGED payment
     \/ \E d \in Drivers :
          /\ to \in driverAdvanceStates
                      \cup {"accepted", "cancelled_by_driver", "completed"}
          /\ Extend(r, << Row(from, to, d) >>)
          /\ payment' =
               IF to = "completed" /\ payment[r].status = "pending"
               THEN [payment EXCEPT ![r] = [status |-> "paid",
                                            collectedBy |-> d]]
               ELSE payment
  /\ UNCHANGED driver

Move(r) == \E to \in RideState : Record(r, state[r], to)

\* The move starts from a state the ride was in and has left.
Overwrite(r) ==
  \E from \in Past(r) \ {state[r]}, to \in RideState : Record(r, from, to)

Next ==
  \E r \in Rides :
    \/ Open(r) \/ Return(r)
    \/ \E d \in Drivers : Offer(r, d)
    \/ state[r] # Unbooked /\ (Move(r) \/ Overwrite(r))

Spec == Init /\ [][Next]_vars
=============================================================================
