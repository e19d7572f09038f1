----------------------------- MODULE PlaceBook ------------------------------
(***************************************************************************)
(* What a rider's saved places promise: InMemorySavedPlacesRepository, in  *)
(* which every operation is one step.  A rider has one home and one work;  *)
(* giving a place such a designation takes the place that had it away.     *)
(***************************************************************************)
EXTENDS Naturals

CONSTANTS
  Riders,
  MaxPlaces,   \* ids are numbered in the order they are made
  Contents,    \* label, address and coordinates, as one
  None

PlaceIds == 1 .. MaxPlaces
Designation == {"home", "work", None}
Place == [rider : Riders, designation : Designation, content : Contents]

VARIABLES
  book,   \* the places by id
  made    \* the last id given out

Holds(places, p, r, d) ==
  places[p] # None /\ places[p].rider = r /\ places[p].designation = d

\* The places of r that keep p from being its d.
InTheWay(places, p, r, d) ==
  {q \in PlaceIds \ {p} : d # None /\ Holds(places, q, r, d)}

\* With a designation the place that has it is overwritten, if there is one.
SavePlace(r, d, content) ==
  LET held == {p \in PlaceIds : d # None /\ Holds(book, p, r, d)}
  IN \/ \E p \in held :
          book' = [book EXCEPT ![p].content = content] /\ UNCHANGED made
     \/ /\ held = {} /\ made < MaxPlaces
        /\ made' = made + 1
        /\ book' = [book EXCEPT ![made + 1] =
             [rider |-> r, designation |-> d, content |-> content]]

UpdatePlace(p, r, d, content) ==
  /\ book[p] # None /\ book[p].rider = r
  /\ book' = [q \in PlaceIds |->
       IF q = p THEN [rider |-> r, designation |-> d, content |-> content]
       ELSE IF q \in InTheWay(book, p, r, d) THEN None ELSE book[q]]
  /\ UNCHANGED made

DeletePlace(p, r) ==
  /\ book[p] # None /\ book[p].rider = r
  /\ book' = [book EXCEPT ![p] = None] /\ UNCHANGED made

OneEach ==
  \A p \in PlaceIds : book[p] # None =>
    InTheWay(book, p, book[p].rider, book[p].designation) = {}

\* Any places that riders may have left behind.
Init ==
  /\ made \in 0 .. MaxPlaces
  /\ book \in [PlaceIds -> Place \cup {None}]
  /\ \A p \in PlaceIds : p > made => book[p] = None
  /\ OneEach

Next ==
  \E r \in Riders :
    \/ \E p \in PlaceIds : DeletePlace(p, r)
    \/ \E d \in Designation, content \in Contents :
         \/ SavePlace(r, d, content)
         \/ \E p \in PlaceIds : UpdatePlace(p, r, d, content)

Spec == Init /\ [][Next]_<<book, made>>
=============================================================================
