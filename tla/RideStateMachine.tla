-------------------------- MODULE RideStateMachine --------------------------
(***************************************************************************)
(* The ride states and the transition table every part of the system       *)
(* shares: packages/shared/src/ride-states.ts and ride-state-machine.ts,   *)
(* and the groups of states the API's queries are written with.            *)
(***************************************************************************)

normalRideStates ==
  { "requested", "matching", "offered_to_driver", "accepted",
    "driver_en_route_to_pickup", "arrived_at_pickup", "rider_onboarded",
    "in_progress", "arrived_at_destination", "payment_pending", "completed" }

exceptionRideStates ==
  { "cancelled_by_rider", "cancelled_by_driver", "cancelled_by_admin",
    "no_show", "driver_timeout", "payment_failed", "disputed",
    "incident_reported" }

RideState == normalRideStates \cup exceptionRideStates

\* The table: from each state, the states a ride may move to.
transitions ==
  [ requested |-> { "matching", "cancelled_by_rider", "cancelled_by_admin" },
    matching |-> { "offered_to_driver", "driver_timeout",
                   "cancelled_by_rider", "cancelled_by_admin" },
    offered_to_driver |-> { "accepted", "driver_timeout",
                            "cancelled_by_rider", "cancelled_by_admin" },
    accepted |-> { "driver_en_route_to_pickup", "cancelled_by_rider",
                   "cancelled_by_driver", "cancelled_by_admin",
                   "incident_reported" },
    driver_en_route_to_pickup |-> { "arrived_at_pickup", "cancelled_by_rider",
                                    "cancelled_by_driver",
                                    "cancelled_by_admin",
                                    "incident_reported" },
    arrived_at_pickup |-> { "rider_onboarded", "no_show",
                            "cancelled_by_rider", "cancelled_by_driver",
                            "cancelled_by_admin", "incident_reported" },
    rider_onboarded |-> { "in_progress", "cancelled_by_admin",
                          "incident_reported" },
    in_progress |-> { "arrived_at_destination", "cancelled_by_admin",
                      "incident_reported", "disputed" },
    arrived_at_destination |-> { "payment_pending", "disputed",
                                 "incident_reported" },
    payment_pending |-> { "completed", "payment_failed", "disputed" },
    completed |-> { "disputed" },
    cancelled_by_rider |-> { "disputed" },
    cancelled_by_driver |-> { "disputed" },
    cancelled_by_admin |-> { "disputed" },
    no_show |-> { "disputed" },
    driver_timeout |-> { "matching", "cancelled_by_admin" },
    payment_failed |-> { "payment_pending", "disputed" },
    disputed |-> {},
    incident_reported |-> { "disputed", "cancelled_by_admin" } ]

canTransitionRideState(from, to) == to \in transitions[from]

-----------------------------------------------------------------------------
(***************************************************************************)
(* Groups of states used by the queries of the API.                        *)
(***************************************************************************)

\* The states a claim looks for: no driver has been found yet.
waitingRideStates == { "requested", "matching" }

\* A ride in one of these is its driver's current ride.
driverActiveRideStates ==
  { "offered_to_driver", "accepted", "driver_en_route_to_pickup",
    "arrived_at_pickup", "rider_onboarded", "in_progress",
    "arrived_at_destination", "payment_pending" }

\* The targets POST /driver/rides/:id/advance accepts.
driverAdvanceStates ==
  { "driver_en_route_to_pickup", "arrived_at_pickup", "rider_onboarded",
    "in_progress", "arrived_at_destination" }

\* A ride in one of these has not left dispatch.
poolRideStates == waitingRideStates \cup {"offered_to_driver"}

\* The targets of changeRideStateForDriver and changeRideStateForRider.
changeRideStates ==
  driverAdvanceStates \cup
    { "accepted", "payment_pending", "completed", "cancelled_by_driver",
      "cancelled_by_rider" }

\* What becomes of a ride, in one move or in several.  A change is written by
\* the ride's id alone, so it may follow any state the ride has been in, also
\* when the ride is over; an accept written late even finds a ride that was
\* declined meanwhile, and is nobody's, or another driver's, and whoever
\* advances a ride is its driver.
MayBecome(ride, to, driver, none) ==
  \/ ride.state \in poolRideStates /\ to = "matching" /\ driver = none
  \/ ride.state \in poolRideStates /\ to = "offered_to_driver" /\ driver # none
  \/ /\ to \in changeRideStates
     /\ ride.state \in poolRideStates \/ driver = ride.driver
     /\ driver = none => to \in {"accepted", "cancelled_by_rider"}
=============================================================================
