---------------------------- MODULE MCRideDesk ------------------------------
(***************************************************************************)
(* An instance of RideDesk: a behaviour is mostly talk, or mostly one of   *)
(* the lists, or a little of everything.                                   *)
(***************************************************************************)
EXTENDS RideDesk, TLC

CONSTANTS ali, baber, carl

Mix(screens, who, scheduled, r, m, c, f, s) ==
  [ open |-> screens, drivers |-> who, scheduled |-> scheduled, rides |-> r,
    moves |-> m, calls |-> c, faults |-> f, reads |-> s ]

SheetMix == {Mix({"chat"}, {baber}, FALSE, 1, 1, 3, 0, 0)}
NoticeMix == {Mix({"chat"}, {baber}, FALSE, 1, 2, 2, 1, 0)}
DriversMix == {Mix({"chat"}, {baber, carl}, FALSE, 1, 2, 2, 0, 0)}
TripsMix == {Mix({"trips"}, {baber}, TRUE, 2, 2, 0, 1, 1)}
PagesMix == {Mix({"pages"}, {baber}, FALSE, 3, 5, 0, 0, 4)}
EarningsMix == {Mix({"earnings"}, {baber, carl}, FALSE, 2, 3, 0, 1, 1),
                Mix({"earnings"}, {baber}, FALSE, 2, 2, 0, 1, 2)}
OverviewMix == {Mix({"overview"}, {baber}, FALSE, 1, 2, 0, 1, 0)}
SomeMix == {Mix({"chat", "trips"}, {baber}, FALSE, 1, 2, 1, 1, 1)}
QuotasOf ==
  SheetMix \cup NoticeMix \cup DriversMix \cup TripsMix \cup PagesMix \cup EarningsMix
    \cup OverviewMix \cup SomeMix
=============================================================================
