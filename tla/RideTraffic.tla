---------------------------- MODULE RideTraffic -----------------------------
(***************************************************************************)
(* The rides of one rider as the chat and the lists find them.  Between    *)
(* two looks a ride may have made several moves, overwrites among them, of *)
(* which RideDispatch leaves what MayBecome says.                          *)
(***************************************************************************)
EXTENDS Naturals, Sequences, FiniteSets, RideStateMachine

CONSTANTS
  Drivers,
  None,
  Followed,   \* the states of a ride that are told apart, others only passed
  Quotas      \* what is open, and how often things may happen, in a behaviour

ASSUME NoneAssumption == None \notin Drivers /\ None \notin Nat
ASSUME FollowedAssumption == Followed \subseteq RideState /\ "requested" \in Followed

VARIABLES
  rides,   \* in the order of their requestedAt
  day,     \* what updatedAt is compared with
  quota    \* what is left of one of the Quotas

traffic == << rides, day, quota >>

Quota == [ open : SUBSET {"chat", "trips", "pages", "earnings", "overview"},
           drivers : SUBSET Drivers, scheduled : BOOLEAN,
           rides : Nat, moves : Nat, calls : Nat, faults : Nat, reads : Nat ]

ASSUME QuotaAssumption == Quotas \subseteq Quota

Ride == [ state : Followed, driver : Drivers \cup {None},
          ahead : BOOLEAN,      \* scheduledPickupAt is in the future
          day : Nat ]           \* of its last change

RideIds == DOMAIN rides

Open(screen) == screen \in quota.open
Spend(kind) == quota[kind] > 0 /\ quota' = [quota EXCEPT ![kind] = @ - 1]

Book ==
  /\ Spend("rides") /\ UNCHANGED day
  /\ \E ahead \in {FALSE, quota.scheduled} :
       rides' = Append(rides, [ state |-> "requested", driver |-> None,
                                ahead |-> ahead, day |-> day ])

Move(r) ==
  /\ Spend("moves") /\ UNCHANGED day
  /\ \E to \in Followed, d \in quota.drivers \cup {None} :
       /\ MayBecome(rides[r], to, d, None)
       /\ rides' = [rides EXCEPT ![r].state = to, ![r].driver = d, ![r].day = day]
  /\ rides' # rides

\* Its pickup time comes.
Due(r) ==
  /\ rides[r].ahead /\ rides' = [rides EXCEPT ![r].ahead = FALSE]
  /\ UNCHANGED << day, quota >>

Midnight ==
  /\ Spend("moves") /\ day' = day + 1 /\ UNCHANGED rides

TrafficInit == rides = << >> /\ day = 0 /\ quota \in Quotas

TrafficTypeOK ==
  /\ rides \in Seq(Ride) /\ day \in Nat /\ quota \in Quota
=============================================================================
