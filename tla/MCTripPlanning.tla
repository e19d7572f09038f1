--------------------------- MODULE MCTripPlanning ---------------------------
(***************************************************************************)
(* An instance of TripPlanning: two policies, of which the second has a    *)
(* cap that is met and no rate for scheduled rides; from the park a route  *)
(* that rounds to nothing beside a longer one, and half-way cases of the   *)
(* rounding on every road.                                                 *)
(***************************************************************************)
EXTENDS TripPlanning, TLC

CONSTANTS home, park, mall, taxi, later, v1, v2, near, far

\* Half-way cases fall either way, as the doubles happen to.
EitherWay(a, b, d) == (a + b) % 2 = 0

MatchesOf == [q \in Queries |-> IF q = near THEN {mall} ELSE {}]

Base ==
  [ baseFare |-> 20, perKilometer |-> 35, perMinute |-> 5, bookingFee |-> 2,
    minimumFare |-> 70, maximumFare |-> NoMaximum, demandMultiplier |-> 110,
    maximumMultiplier |-> 115, categoryMultiplier |-> 100 ]

TermsOf ==
  (v1 :> (taxi :> Base @@ later :> [Base EXCEPT !.categoryMultiplier = 105]))
   @@ (v2 :> (taxi :> [Base EXCEPT !.maximumFare = 85] @@ later :> None))

RoadsOf ==
  [ends \in Places \X Places |->
     IF ends[1] = park THEN { [distance |-> 4, duration |-> 905],
                              [distance |-> 9005, duration |-> 600] }
     ELSE {[distance |-> 15005, duration |-> 905]}]
=============================================================================
