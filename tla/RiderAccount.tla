---------------------------- MODULE RiderAccount ----------------------------
(***************************************************************************)
(* What riders keep: their profile (PUT /rider/me) and their saved places  *)
(* (/rider/places), as the Prisma repositories write them, query by query. *)
(* A statement sees what has been committed; one that meets a row another  *)
(* transaction has deleted and not yet committed waits for it, and the     *)
(* database aborts one of those that wait for each other.                  *)
(*                                                                         *)
(* The city of a place is the one the guard read with the session; it and  *)
(* the session's lastUsedAt are never looked at again, and left out.       *)
(***************************************************************************)
EXTENDS Naturals, Sequences, FiniteSets

CONSTANTS
  Riders, MaxPlaces, None,
  Callers,       \* the riders who send requests
  Fields,        \* of a profile: the city, the name, the email, the image
  City,          \* the one every request has to send
  Past,          \* what the places may be at first; content 0
  MaxRequests

ASSUME AccountAssumption ==
  /\ Callers \subseteq Riders /\ City \in Fields
  /\ MaxRequests \in Nat /\ MaxPlaces \in Nat /\ MaxPlaces >= MaxRequests
  /\ None \notin Nat

VARIABLES
  places, made,  \* the SavedPlace rows and the number of ids given out
  profile,       \* the Rider rows: which request wrote each field, 0 for none
  requests,      \* in the order they arrived
  lost           \* kept for checking: the places that updates took away

vars == << places, made, profile, requests, lost >>

Ids == 1 .. MaxRequests

Book == INSTANCE PlaceBook WITH book <- places, Contents <- 0 .. MaxRequests

PlaceIds == Book!PlaceIds
Designation == Book!Designation

ASSUME PlaceAssumption == None \notin Book!Place

\* The index keeps a second home or work of one rider out.
ASSUME PastAssumption ==
  \A past \in Past :
    /\ past \in [PlaceIds -> Book!Place \cup {None}]
    /\ \A p \in PlaceIds :
         /\ p > MaxPlaces - MaxRequests => past[p] = None
         /\ past[p] # None =>
              Book!InTheWay(past, p, past[p].rider, past[p].designation) = {}

\* What a place or a field contains is told apart by the request that wrote it.
Profile == [Fields -> 0 .. MaxRequests]

Outcome == {"ok", "refused", "error"}    \* 2xx, 4xx, 5xx

Request ==
  [ op : {"save", "update", "delete", "profile"}, rider : Riders,
    place : PlaceIds \cup {None}, designation : Designation,
    sends : SUBSET Fields,
    at : {"start", "found", "deleting", "writing"} \cup Outcome,
    seen : PlaceIds \cup {None},      \* the conflict it found
    read : Profile \cup {None},       \* the profile it read
    after : SUBSET Ids ]      \* kept for checking: what had been answered

Answered == {k \in DOMAIN requests : requests[k].at \in Outcome}
Running == DOMAIN requests \ Answered

Overlap(j, k) == j # k /\ j \notin requests[k].after /\ k \notin requests[j].after

\* What is left of a request without effect.
Ended(q, at) ==
  [q EXCEPT !.at = at, !.op = "profile", !.place = None, !.designation = None,
            !.sends = {}, !.seen = None, !.read = None, !.after = {}]

Step(k, at, seen) ==
  requests' = [requests EXCEPT ![k] =
    IF at \in {"refused", "error"} THEN Ended(@, at)
    ELSE [@ EXCEPT !.at = at, !.seen = seen, !.read = None]]
Data == << places, made, profile, lost >>

-----------------------------------------------------------------------------
(***************************************************************************)
(* Requests.                                                               *)
(***************************************************************************)

\* What the controllers take.  A place id is one that was given out, perhaps for
\* the place of another.
Takes(op, p, d, sends) ==
  /\ p # None <=> op \in {"update", "delete"}
  /\ p \in 1 .. made \cup {None}
  /\ d # None => op \in {"save", "update"}
  /\ IF op = "profile" THEN City \in sends ELSE sends = {}

\* Behind RiderAuthGuard: a session may have expired, and validatePayload may
\* refuse what was typed.
Arrive(r, op, p, d, sends) ==
  /\ Len(requests) < MaxRequests /\ Takes(op, p, d, sends)
  /\ LET q == [ op |-> op, rider |-> r, place |-> p, designation |-> d,
                sends |-> sends, at |-> "start", seen |-> None, read |-> None,
                after |-> Answered ]
     IN requests' \in {Append(requests, q), Append(requests, Ended(q, "refused"))}
  /\ UNCHANGED Data

-----------------------------------------------------------------------------
(***************************************************************************)
(* PrismaSavedPlacesRepository.                                            *)
(***************************************************************************)

\* The update that has deleted p and not committed.
Deleting(p) ==
  {k \in Running : requests[k].at = "writing" /\ requests[k].op = "update"
                     /\ requests[k].seen = p}

\* The places of r that have designation d; the index leaves one at most.
Having(r, d) == {p \in PlaceIds : d # None /\ Book!Holds(places, p, r, d)}

\* The requests the next statement of k has to wait for: those that hold its row,
\* or the row that has the designation it is about to write.
Blockers(k) ==
  LET q == requests[k]
      rows == CASE q.op = "delete" /\ q.at = "start" -> {q.place}
                [] q.op = "save" /\ q.at = "start" -> Having(q.rider, q.designation)
                [] q.op = "update" /\ q.at = "deleting" -> {q.seen}
                [] q.op = "update" /\ q.at = "writing" ->
                     {q.place} \cup Having(q.rider, q.designation)
                [] OTHER -> {}
  IN (UNION {Deleting(p) : p \in rows}) \ {k}

\* Mutant: the id of a new place is not kept.
SaveReusesIds(k) ==
  LET q == requests[k]
  IN /\ q.op = "save" /\ q.at = "start" /\ Blockers(k) = {} /\ made < MaxPlaces
     /\ places' = [places EXCEPT ![made + 1] =
          [rider |-> q.rider, designation |-> q.designation, content |-> k]]
     /\ Step(k, "ok", None) /\ UNCHANGED << made, profile, lost >>

\* savePlaceForRider without an id: create, or the upsert, which is one INSERT
\* ON CONFLICT as its where and its create agree.
Save(k) ==
  LET q == requests[k]
      had == Having(q.rider, q.designation)
  IN /\ q.op = "save" /\ q.at = "start" /\ Blockers(k) = {}
     /\ IF had # {}
        THEN /\ places' = [p \in PlaceIds |-> IF p \in had
                             THEN [places[p] EXCEPT !.content = k] ELSE places[p]]
             /\ UNCHANGED made
        ELSE /\ made < MaxPlaces /\ made' = made + 1
             /\ places' = [places EXCEPT ![made + 1] =
                  [rider |-> q.rider, designation |-> q.designation, content |-> k]]
     /\ Step(k, "ok", None) /\ UNCHANGED << profile, lost >>

\* The transaction of an update: the place must be the rider's.
FindExisting(k) ==
  LET q == requests[k]
      existing == places[q.place] # None /\ places[q.place].rider = q.rider
  IN /\ q.op = "update" /\ q.at = "start"
     /\ Step(k, IF existing THEN "found" ELSE "refused", None)
     /\ UNCHANGED Data

\* Mutant: without the designation in its where.
FindAnyConflict(k) ==
  LET q == requests[k]
      others == {p \in PlaceIds \ {q.place} :
                  /\ q.designation # None /\ places[p] # None
                  /\ places[p].rider = q.rider}
  IN /\ q.op = "update" /\ q.at = "found"
     /\ IF others = {} THEN Step(k, "writing", None)
        ELSE \E p \in others : Step(k, "deleting", p)
     /\ UNCHANGED Data

FindConflict(k) ==
  LET q == requests[k]
      others == Having(q.rider, q.designation) \ {q.place}
  IN /\ q.op = "update" /\ q.at = "found"
     /\ IF others = {} THEN Step(k, "writing", None)
        ELSE \E p \in others : Step(k, "deleting", p)
     /\ UNCHANGED Data

\* Mutant: outside the transaction.
DeleteConflictAtOnce(k) ==
  LET q == requests[k]
  IN /\ q.op = "update" /\ q.at = "deleting"
     /\ places' = [places EXCEPT ![q.seen] = None]
     /\ Step(k, "writing", None) /\ UNCHANGED << made, profile, lost >>

\* Mutant: a row that is gone is not an error and not an answer either.
DeleteConflictOrHang(k) ==
  LET q == requests[k]
  IN /\ q.op = "update" /\ q.at = "deleting" /\ Blockers(k) = {}
     /\ places[q.seen] # None /\ Step(k, "writing", q.seen)
     /\ UNCHANGED Data

\* The delete by id fails when the row is gone.
DeleteConflict(k) ==
  LET q == requests[k]
  IN /\ q.op = "update" /\ q.at = "deleting" /\ Blockers(k) = {}
     /\ IF places[q.seen] = None THEN Step(k, "error", None)
        ELSE Step(k, "writing", q.seen)
     /\ UNCHANGED Data

\* The update by id and the commit; a row that is gone and a designation that is
\* taken fail and undo the delete.
UpdatePlace(k) ==
  LET q == requests[k]
      taken == Having(q.rider, q.designation) \ {q.place, q.seen}
  IN /\ q.op = "update" /\ q.at = "writing" /\ Blockers(k) = {}
     /\ IF places[q.place] = None \/ taken # {}
        THEN Step(k, "error", None) /\ UNCHANGED Data
        ELSE /\ places' = [p \in PlaceIds |->
                  IF p = q.place
                  THEN [rider |-> places[p].rider, designation |-> q.designation,
                        content |-> k]
                  ELSE IF p = q.seen THEN None ELSE places[p]]
             /\ lost' = lost \cup
                  (IF q.seen = None THEN {}
                   ELSE {[ place |-> q.seen, by |-> k,
                           held |-> places[q.seen].designation = q.designation ]})
             /\ Step(k, "ok", None) /\ UNCHANGED << made, profile >>

Delete(k) ==
  LET q == requests[k]
      mine == places[q.place] # None /\ places[q.place].rider = q.rider
  IN /\ q.op = "delete" /\ q.at = "start" /\ Blockers(k) = {}
     /\ places' = IF mine THEN [places EXCEPT ![q.place] = None] ELSE places
     /\ Step(k, IF mine THEN "ok" ELSE "refused", None)
     /\ UNCHANGED << made, profile, lost >>

-----------------------------------------------------------------------------
(***************************************************************************)
(* RiderProfileService.updateProfile.                                      *)
(***************************************************************************)

\* isCityActive: the city may have been switched off.
CheckCity(k) ==
  /\ requests[k].op = "profile" /\ requests[k].at = "start"
  /\ \E at \in {"found", "refused"} : Step(k, at, None)
  /\ UNCHANGED Data

GetProfile(k) ==
  /\ requests[k].op = "profile" /\ requests[k].at = "found"
  /\ requests' = [requests EXCEPT ![k].at = "writing",
                                  ![k].read = profile[requests[k].rider]]
  /\ UNCHANGED Data

\* Mutant: what is not sent is cleared.
MergedWithNothing(k) ==
  [f \in Fields |-> IF f \in requests[k].sends THEN k ELSE 0]

\* request.name ?? rider.name, of the profile read before.
Merged(k) ==
  [f \in Fields |-> IF f \in requests[k].sends THEN k ELSE requests[k].read[f]]

WriteProfile(k) ==
  /\ requests[k].op = "profile" /\ requests[k].at = "writing"
  /\ profile' = [profile EXCEPT ![requests[k].rider] = Merged(k)]
  /\ Step(k, "ok", None) /\ UNCHANGED << places, made, lost >>

-----------------------------------------------------------------------------
Query(k) ==
  \/ Save(k) \/ FindExisting(k) \/ FindConflict(k) \/ DeleteConflict(k)
  \/ UpdatePlace(k) \/ Delete(k)
  \/ CheckCity(k) \/ GetProfile(k) \/ WriteProfile(k)

\* A query fails: 500, and its transaction is undone.
Fail(k) == Step(k, "error", None) /\ UNCHANGED Data

\* PostgreSQL aborts one of a circle of transactions.
Deadlocked(k) ==
  \E circle \in SUBSET Running :
    k \in circle /\ \A j \in circle : Blockers(j) \cap circle # {}

Abort(k) == Deadlocked(k) /\ Fail(k)

Init ==
  /\ places \in Past /\ made = MaxPlaces - MaxRequests
  /\ profile = [r \in Riders |-> [f \in Fields |-> 0]]
  /\ requests = << >> /\ lost = {}

Next ==
  \/ \E r \in Callers, p \in PlaceIds \cup {None}, d \in Designation,
        op \in {"save", "update", "delete", "profile"}, sends \in SUBSET Fields :
       Arrive(r, op, p, d, sends)
  \/ \E k \in Running : Query(k) \/ Fail(k) \/ Abort(k)

Spec == Init /\ [][Next]_vars

\* The server goes on with every request, and the database finds its deadlocks.
FairSpec ==
  Spec /\ \A k \in Ids : WF_vars(k \in Running /\ (Query(k) \/ Abort(k)))

-----------------------------------------------------------------------------
TypeOK ==
  /\ places \in [PlaceIds -> Book!Place \cup {None}] /\ made \in 0 .. MaxPlaces
  /\ profile \in [Riders -> Profile]
  /\ requests \in Seq(Request) /\ Len(requests) <= MaxRequests
  /\ lost \subseteq [place : PlaceIds, by : Ids, held : BOOLEAN]
  /\ \A p \in PlaceIds : p > made => places[p] = None

\* However the statements of requests interleave and fail, a request that is
\* answered with success has at that moment done one operation of PlaceBook, and
\* nothing else ever changes the places; all that may differ is that an update
\* takes away a place that has been moved since it looked.
Promised(k) ==
  LET q == requests[k]
  IN CASE q.op = "save" -> Book!SavePlace(q.rider, q.designation, k)
       [] q.op = "delete" -> Book!DeletePlace(q.place, q.rider)
       [] q.op = "update" ->
            \/ Book!UpdatePlace(q.place, q.rider, q.designation, k)
            \/ \E l \in lost' \ lost : ~l.held
       [] OTHER -> UNCHANGED << places, made >>

OneOperationAtATime ==
  [][LET done == {k \in Running : requests'[k].at = "ok"}
     IN /\ \A k \in done : Promised(k)
        /\ done = {} => UNCHANGED << places, made >>]_vars

\* An update takes away a place without the designation it is after only if a
\* request that overlapped it has moved that place.
LostOnlyToOverlap ==
  \A l \in lost : ~l.held =>
    \E j \in DOMAIN requests :
      /\ Overlap(j, l.by) /\ requests[j].op = "update"
      /\ requests[j].place = l.place /\ requests[j].at = "ok"

\* However updates of a profile overlap, a field that was sent with success holds
\* that, or what another update sent that was not over before; the only way an
\* older content comes back is an update that overlapped and left the field out.
Resent(j, k, f) ==
  f \in requests[j].sends /\ j \notin requests[k].after
BroughtBack(j, k, f) ==
  f \notin requests[j].sends /\ Overlap(j, k)

FieldsComeBackByOverlap ==
  \A k \in DOMAIN requests :
    LET written == {j \in DOMAIN requests :
          /\ requests[j].op = "profile" /\ requests[j].at = "ok"
          /\ requests[j].rider = requests[k].rider}
    IN k \in written =>
         \A f \in requests[k].sends :
           \/ \E j \in written :
                profile[requests[k].rider][f] = j /\ (j = k \/ Resent(j, k, f))
           \/ \E j \in written : BroughtBack(j, k, f)

\* Requests never wait for each other for ever.
RequestsAreAnswered ==
  \A k \in Ids : (k \in Running) ~> (k \in Answered)
=============================================================================
