------------------------------ MODULE RideDesk ------------------------------
(***************************************************************************)
(* RideChat and RideViews over the same rides: while drivers and rider     *)
(* move the rides on, they talk about the first and everyone looks at all. *)
(***************************************************************************)
EXTENDS RideChat, RideViews

vars == << traffic, chat, views >>

Init == TrafficInit /\ ChatInit /\ ViewsInit

\* The rides move under the reads that are underway.
RidesMove ==
  \/ Book /\ Touched(Len(rides) + 1) /\ UNCHANGED chat
  \/ \E r \in RideIds : (Move(r) \/ Due(r)) /\ Touched(r) /\ UNCHANGED chat
  \/ Midnight /\ UNCHANGED << chat, views >>

Next ==
  \/ RidesMove
  \/ ChatNext /\ UNCHANGED views
  \/ ViewsNext /\ UNCHANGED chat

Spec == Init /\ [][Next]_vars

FairSpec == Spec /\ ViewsFairness

TypeOK == TrafficTypeOK /\ ChatTypeOK /\ ViewsTypeOK
=============================================================================
