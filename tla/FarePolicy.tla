----------------------------- MODULE FarePolicy -----------------------------
(***************************************************************************)
(* What PricingService.estimateFare computes from a fare policy and a      *)
(* route.  Money is in minor units, a distance in metres, a duration in    *)
(* seconds, a multiplier in hundredths, as the columns are Decimal(5, 2).  *)
(* There is no state here: TripPlanning asks, reads and answers.           *)
(***************************************************************************)
EXTENDS Integers

CONSTANTS
  TieUp(_, _, _),  \* where a product half-way between two integers lands
  NoMaximum        \* maximumFareMinor is null

ASSUME FareAssumption == NoMaximum \notin Nat

\* A FarePolicy row and one of its category rates.
Policy ==
  [ baseFare : Nat, perKilometer : Nat, perMinute : Nat, bookingFee : Nat,
    minimumFare : Nat, maximumFare : Nat \cup {NoMaximum},
    demandMultiplier : Nat, maximumMultiplier : Nat, categoryMultiplier : Nat ]

\* PricingService.validatePolicy; the columns' types exclude the rest of it.
ValidPolicy(p) ==
  /\ p.demandMultiplier > 0 /\ p.maximumMultiplier > 0
  /\ p.categoryMultiplier > 0
  /\ p.maximumMultiplier >= p.demandMultiplier
  /\ p.maximumFare # NoMaximum => p.maximumFare >= p.minimumFare

\* Math.round(a * b / d).  Half-way cases round up, but a * b / d is a product
\* of doubles, which may lie a little below the half it stands for.
Rounded(a, b, d) ==
  LET q == (a * b) \div d
      r == 2 * ((a * b) % d)
  IN IF r > d \/ (r = d /\ TieUp(a, b, d)) THEN q + 1 ELSE q

AtMost(a, b) == IF a < b THEN a ELSE b
AtLeast(a, b) == IF a < b THEN b ELSE a

\* roundMultiplier(Math.min(category * demand, maximum)).
Multiplier(p) ==
  Rounded(1, AtMost(p.categoryMultiplier * p.demandMultiplier,
                    100 * p.maximumMultiplier), 100)

Subtotal(p, distance, duration) ==
  p.baseFare + Rounded(distance, p.perKilometer, 1000)
    + Rounded(duration, p.perMinute, 60) + p.bookingFee

\* The fare before the policy's minimum and maximum.
Multiplied(p, distance, duration) ==
  Rounded(Subtotal(p, distance, duration), Multiplier(p), 100)

\* The minimum first, the cap after it.
Raised(p, distance, duration) ==
  AtLeast(Multiplied(p, distance, duration), p.minimumFare)

CapApplied(p, distance, duration) ==
  /\ p.maximumFare # NoMaximum
  /\ Raised(p, distance, duration) > p.maximumFare

MinimumApplied(p, distance, duration) ==
  Multiplied(p, distance, duration) < p.minimumFare

\* Mutant: the cap is compared with the fare before its multiplier.
FareCappedEarly(p, distance, duration) ==
  IF /\ p.maximumFare # NoMaximum
     /\ Subtotal(p, distance, duration) > p.maximumFare
  THEN p.maximumFare ELSE Raised(p, distance, duration)

Fare(p, distance, duration) ==
  IF CapApplied(p, distance, duration)
  THEN p.maximumFare ELSE Raised(p, distance, duration)
=============================================================================
