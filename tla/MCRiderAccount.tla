--------------------------- MODULE MCRiderAccount ---------------------------
(***************************************************************************)
(* An instance of RiderAccount: a rider with a home and a work sends three  *)
(* requests, perhaps about the home of another.                             *)
(***************************************************************************)
EXTENDS RiderAccount, TLC

CONSTANTS ann, bob, city, name

PlaceOf(r, d) == [rider |-> r, designation |-> d, content |-> 0]

PastOf ==
  {[p \in PlaceIds |-> CASE p = 1 -> PlaceOf(ann, "home")
                        [] p = 2 -> PlaceOf(ann, "work")
                        [] p = 3 -> PlaceOf(bob, "home")
                        [] OTHER -> None]}
=============================================================================
