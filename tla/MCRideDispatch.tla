--------------------------- MODULE MCRideDispatch ---------------------------
(***************************************************************************)
(* Instances of RideDispatch for TLC.  The sessions are model values; the  *)
(* account of a session is chosen here because a cfg cannot write a        *)
(* function.                                                               *)
(***************************************************************************)
EXTENDS RideDispatch, FiniteSets

CONSTANTS r1, d1, d2, ra, rb, da, db, dc

\* One account of each kind, every session signed in to it.
OneRider == [c \in RiderSessions |-> r1]
OneDriver == [c \in DriverSessions |-> d1]

\* Two drivers, the second with one session.
TwoDrivers == [c \in DriverSessions |-> IF c = db THEN d2 ELSE d1]

\* Keeps to the behaviours in which a ride reaches its destination without a
\* detour; what overlaps there, and after, is left free.
PlainTrip ==
  << "requested", "matching", "offered_to_driver", "accepted",
     "driver_en_route_to_pickup", "arrived_at_pickup", "rider_onboarded",
     "in_progress", "arrived_at_destination" >>

ReachesDestination ==
  \A r \in Rides : \A i \in DOMAIN trail[r] \cap DOMAIN PlainTrip :
    trail[r][i].to = PlainTrip[i]

\* The rider's second session only books; what it cancels is cut.
SecondBooks ==
  \A c \in RiderSessions \ {ra} : pc[c] \notin {"check", "write"}

\* Riders cancel only before a driver has answered; what they cancel later is cut.
EarlyCancels ==
  \A c \in RiderSessions :
    pc[c] \in {"check", "write"} => \A r \in Rides : Len(trail[r]) <= 3

\* The first driver's second session only declines; what else it does is cut.
SecondDeclines == pc[dc] \in {"idle", "decline", "publish"}

\* A driver who has gone on duty stays so.
StaysOnDuty == \A d \in Drivers : online[d] => online'[d]
=============================================================================
