------------------------- MODULE RiderAccountProofs -------------------------
(***************************************************************************)
(* What RiderAccount keeps for any riders, places and requests: types, one *)
(* home and one work a rider, one operation of PlaceBook for every request *)
(* that is answered with success, and the reason why an update may take    *)
(* away a place it was not after.                                          *)
(***************************************************************************)
EXTENDS RiderAccount, SequenceTheorems, TLAPS

\* Once a place is a rider's it is nobody else's: ids are not given out twice.
OwnedBy(p, r) == places[p] # None => places[p].rider = r

\* Request j has moved p while k was underway.
MovedBy(j, k, p) ==
  /\ Overlap(j, k) /\ requests[j].op = "update"
  /\ requests[j].place = p /\ requests[j].at = "ok"

\* What the transaction of an update knows of the rows it has read.
UpdateOK(k) ==
  LET q == requests[k]
  IN /\ q.place \in 1 .. made
     /\ q.at \in {"found", "deleting", "writing"} => OwnedBy(q.place, q.rider)
     /\ q.at = "deleting" => q.seen # None
     /\ q.seen # None =>
          /\ q.seen \in 1 .. made \ {q.place} /\ q.designation # None
          /\ OwnedBy(q.seen, q.rider)
          /\ \/ places[q.seen] = None
             \/ Book!Holds(places, q.seen, q.rider, q.designation)
             \/ \E j \in DOMAIN requests : MovedBy(j, k, q.seen)

\* A row that is deleted and not committed is there for the one who holds it.
LocksOK ==
  \A k \in Running : \A p \in PlaceIds : k \in Deleting(p) =>
    places[p] # None /\ Deleting(p) = {k}

AccountInv ==
  /\ TypeOK
  /\ \A k \in DOMAIN requests : requests[k].after \subseteq Answered
  /\ \A l \in lost : l.by \in Answered
  /\ Book!OneEach
  /\ \A k \in Running : requests[k].op = "update" => UpdateOK(k)
  /\ \A k \in Running :
       requests[k].op = "profile" /\ requests[k].at = "writing" =>
         requests[k].read \in Profile
  /\ LocksOK
  /\ LostOnlyToOverlap

Stage == {"start", "found", "deleting", "writing"} \cup Outcome

-----------------------------------------------------------------------------
(***************************************************************************)
(* One request at a time.                                                  *)
(***************************************************************************)

\* Request k becomes c; its tie to what was answered before it stays while it
\* runs or succeeds.
Becomes(k, c) ==
  /\ requests' = [requests EXCEPT ![k] = c] /\ c \in Request
  /\ c.after \in {requests[k].after, {}}
  /\ c.at \notin {"refused", "error"} => c.after = requests[k].after

LEMMA StepTaken ==
  ASSUME requests \in Seq(Request), NEW k \in Running,
         NEW at \in Stage, NEW seen \in PlaceIds \cup {None}, Step(k, at, seen)
  PROVE  \E c : /\ Becomes(k, c) /\ c.at = at
                /\ at \notin {"refused", "error"} =>
                     /\ c.op = requests[k].op /\ c.rider = requests[k].rider
                     /\ c.place = requests[k].place /\ c.seen = seen
                     /\ c.designation = requests[k].designation
<1> DEFINE q == requests[k]
           c == IF at \in {"refused", "error"} THEN Ended(q, at)
                ELSE [q EXCEPT !.at = at, !.seen = seen, !.read = None]
<1>1. q \in Request BY DEF Running
<1>2. requests' = [requests EXCEPT ![k] = c] BY DEF Step
<1>3. CASE at \in {"refused", "error"}
  <2>1. /\ c \in Request /\ c.at = at /\ c.after = {}
    BY <1>1, <1>3 DEF Ended, Request, Outcome, Designation, Book!Designation
  <2>. QED BY <1>2, <1>3, <2>1 DEF Becomes
<1>4. CASE at \notin {"refused", "error"}
  <2>1. /\ c \in Request /\ c.at = at /\ c.after = q.after
        /\ c.op = q.op /\ c.rider = q.rider /\ c.place = q.place
        /\ c.seen = seen /\ c.designation = q.designation
    BY <1>1, <1>4 DEF Request, Stage
  <2>. QED BY <1>2, <1>4, <2>1 DEF Becomes
<1>. QED BY <1>3, <1>4

\* What the others see of a request that moves.
LEMMA OthersStay ==
  ASSUME requests \in Seq(Request), NEW k \in Running, NEW c, Becomes(k, c),
         \A i \in DOMAIN requests : requests[i].after \subseteq Answered
  PROVE  /\ requests' \in Seq(Request) /\ Len(requests') = Len(requests)
         /\ DOMAIN requests' = DOMAIN requests /\ requests'[k] = c
         /\ \A i \in DOMAIN requests \ {k} : requests'[i] = requests[i]
         /\ Answered \subseteq Answered'
         /\ Running' = IF c.at \in Outcome THEN Running \ {k} ELSE Running
         /\ \A i \in DOMAIN requests' : requests'[i].after \subseteq Answered'
         /\ \A i \in Running' \cup Answered, j \in DOMAIN requests, p \in PlaceIds :
              MovedBy(j, i, p) => MovedBy(j, i, p)'
<1>1. /\ requests' \in Seq(Request) /\ Len(requests') = Len(requests)
      /\ DOMAIN requests' = DOMAIN requests /\ requests'[k] = c
      /\ k \in DOMAIN requests
      /\ \A i \in DOMAIN requests \ {k} : requests'[i] = requests[i]
  BY DEF Becomes, Running
<1>2. /\ Answered \subseteq Answered'
      /\ Running' = IF c.at \in Outcome THEN Running \ {k} ELSE Running
  BY <1>1 DEF Answered, Running
<1>3. \A i \in DOMAIN requests' : requests'[i].after \subseteq Answered'
  BY <1>1, <1>2 DEF Becomes
<1>4. ASSUME NEW i \in Running' \cup Answered, NEW j \in DOMAIN requests,
             NEW p \in PlaceIds, MovedBy(j, i, p)
      PROVE  MovedBy(j, i, p)'
  <2>1. j # k BY <1>4 DEF MovedBy, Running, Answered, Outcome
  <2>2. i \in DOMAIN requests BY <1>1 DEF Running, Answered
  <2>3. requests'[i].after = requests[i].after
    BY <1>1, <1>2, <2>2 DEF Becomes, Running, Answered, Outcome
  <2>. QED BY <1>1, <1>4, <2>1, <2>3 DEF MovedBy, Overlap
<1>. QED BY <1>1, <1>2, <1>3, <1>4

\* A step that leaves the places alone.
LEMMA QuietStep ==
  ASSUME AccountInv, NEW k \in Running, NEW c, Becomes(k, c),
         UNCHANGED << places, made, lost >>, profile' \in [Riders -> Profile],
         (c.at \notin Outcome /\ c.op = "update") => UpdateOK(k)',
         (c.at = "writing" /\ c.op = "profile") => c.read \in Profile,
         \A p \in PlaceIds :
           (c.at = "writing" /\ c.op = "update" /\ c.seen = p) =>
             places[p] # None /\ Deleting(p) \ {k} = {}
  PROVE  AccountInv'
<1>1. /\ requests \in Seq(Request)
      /\ \A i \in DOMAIN requests : requests[i].after \subseteq Answered
      /\ k \in DOMAIN requests
  BY DEF AccountInv, TypeOK, Running
<1>2. /\ requests' \in Seq(Request) /\ Len(requests') = Len(requests)
      /\ DOMAIN requests' = DOMAIN requests /\ requests'[k] = c
      /\ \A i \in DOMAIN requests \ {k} : requests'[i] = requests[i]
      /\ Answered \subseteq Answered'
      /\ Running' = IF c.at \in Outcome THEN Running \ {k} ELSE Running
      /\ \A i \in DOMAIN requests' : requests'[i].after \subseteq Answered'
      /\ \A i \in Running' \cup Answered, j \in DOMAIN requests, p \in PlaceIds :
           MovedBy(j, i, p) => MovedBy(j, i, p)'
  BY <1>1, OthersStay
<1>3. TypeOK' BY <1>2 DEF AccountInv, TypeOK
<1>4. \A l \in lost' : l.by \in Answered' BY <1>2 DEF AccountInv
<1>5. Book!OneEach' BY DEF AccountInv, Book!OneEach, Book!InTheWay, Book!Holds
<1>6. ASSUME NEW i \in Running', requests'[i].op = "update"
      PROVE  UpdateOK(i)'
  <2>1. CASE i = k BY <1>2, <1>6, <2>1 DEF Running, Answered
  <2>2. CASE i # k
    <3>1. i \in Running /\ requests'[i] = requests[i]
      BY <1>2, <1>6, <2>2 DEF Running
    <3>2. UpdateOK(i) BY <1>6, <3>1 DEF AccountInv
    <3>3. requests[i].seen \in PlaceIds \cup {None}
      <4>1. requests[i] \in Request BY <1>1, <3>1 DEF Running
      <4>. QED BY <4>1 DEF Request
    <3>. QED
      BY <1>2, <1>6, <3>1, <3>2, <3>3
         DEF UpdateOK, OwnedBy, Book!Holds
  <2>. QED BY <2>1, <2>2
<1>7. \A i \in Running' :
        requests'[i].op = "profile" /\ requests'[i].at = "writing" =>
          requests'[i].read \in Profile
  BY <1>2 DEF AccountInv, Running
<1>8. LocksOK'
  <2>1. ASSUME NEW i \in Running', NEW p \in PlaceIds, i \in Deleting(p)'
        PROVE  places[p] # None /\ Deleting(p)' = {i}
    <3>1. \A j : j \in Deleting(p)' /\ j # k => j \in Deleting(p)
      BY <1>2 DEF Deleting, Running
    <3>2. k \in Deleting(p)' =>
            /\ c.at = "writing" /\ c.op = "update" /\ c.seen = p
      BY <1>2 DEF Deleting
    <3>3. CASE k \in Deleting(p)'
      BY <2>1, <3>1, <3>2, <3>3
    <3>4. CASE k \notin Deleting(p)'
      BY <2>1, <3>1, <3>4 DEF AccountInv, LocksOK, Deleting
    <3>. QED BY <3>3, <3>4
  <2>. QED BY <2>1 DEF LocksOK
<1>9. LostOnlyToOverlap'
  <2>1. ASSUME NEW l \in lost, ~l.held
        PROVE  \E j \in DOMAIN requests' : MovedBy(j, l.by, l.place)'
    <3>1. PICK j \in DOMAIN requests : MovedBy(j, l.by, l.place)
      BY <2>1 DEF AccountInv, LostOnlyToOverlap, MovedBy
    <3>2. l.by \in Answered /\ l.place \in PlaceIds
      BY DEF AccountInv, TypeOK
    <3>. QED BY <1>2, <3>1, <3>2
  <2>. QED BY <2>1 DEF LostOnlyToOverlap, MovedBy
<1>. QED
  BY <1>2, <1>3, <1>4, <1>5, <1>6, <1>7, <1>8, <1>9 DEF AccountInv

\* A request that succeeds and changes places: a place keeps its rider, it is not
\* taken from a transaction that holds it, and what others have read of it is
\* still so, unless it is the place of this request.
LEMMA RowStep ==
  ASSUME AccountInv, NEW k \in Running, NEW c, Becomes(k, c),
         c.at = "ok", c.op = requests[k].op, c.place = requests[k].place,
         UNCHANGED profile,
         places' \in [PlaceIds -> Book!Place \cup {None}],
         made' \in made .. MaxPlaces,
         \A p \in PlaceIds : p > made' => places'[p] = None,
         lost' \subseteq [place : PlaceIds, by : Ids, held : BOOLEAN],
         \A l \in lost' \ lost :
           l.by = k /\ (~l.held => \E j \in DOMAIN requests :
                                     MovedBy(j, k, l.place)),
         Book!OneEach',
         \A p \in 1 .. made :
           places'[p] # None => /\ places[p] # None
                                /\ places'[p].rider = places[p].rider
                                /\ \/ places'[p].designation
                                        = places[p].designation
                                   \/ c.op = "update" /\ c.place = p,
         \A p \in PlaceIds :
           (places[p] # None /\ Deleting(p) \ {k} # {}) => places'[p] # None
  PROVE  AccountInv'
<1>1. /\ requests \in Seq(Request)
      /\ \A i \in DOMAIN requests : requests[i].after \subseteq Answered
      /\ k \in DOMAIN requests /\ made \in 0 .. MaxPlaces
      /\ MaxPlaces \in Nat /\ c.at \in Outcome
  BY AccountAssumption DEF AccountInv, TypeOK, Running, Outcome
<1>2. /\ requests' \in Seq(Request) /\ Len(requests') = Len(requests)
      /\ DOMAIN requests' = DOMAIN requests /\ requests'[k] = c
      /\ \A i \in DOMAIN requests \ {k} : requests'[i] = requests[i]
      /\ Answered \subseteq Answered' /\ Running' = Running \ {k}
      /\ \A i \in DOMAIN requests' : requests'[i].after \subseteq Answered'
      /\ \A i \in Running' \cup Answered, j \in DOMAIN requests, p \in PlaceIds :
           MovedBy(j, i, p) => MovedBy(j, i, p)'
  BY <1>1, OthersStay
<1>3. TypeOK' BY <1>1, <1>2 DEF AccountInv, TypeOK
<1>4. k \in Answered' BY <1>1, <1>2 DEF Answered
<1>5. \A l \in lost' : l.by \in Answered' BY <1>2, <1>4 DEF AccountInv
<1>6. ASSUME NEW i \in Running', requests'[i].op = "update"
      PROVE  UpdateOK(i)'
  <2>1. i \in Running /\ i # k /\ requests'[i] = requests[i]
    BY <1>2, <1>6 DEF Running
  <2>2. UpdateOK(i) BY <1>6, <2>1 DEF AccountInv
  <2>3. requests[i].seen \in PlaceIds \cup {None}
    <3>1. requests[i] \in Request BY <1>1, <2>1 DEF Running
    <3>. QED BY <3>1 DEF Request
  <2>4. 1 .. made \subseteq 1 .. made' /\ 1 .. made \subseteq PlaceIds
    BY <1>1 DEF PlaceIds, Book!PlaceIds
  <2>5. ASSUME NEW p \in PlaceIds, p = requests[i].seen, p # None
        PROVE  \/ places'[p] = None
               \/ Book!Holds(places', p, requests[i].rider,
                             requests[i].designation)
               \/ \E j \in DOMAIN requests : MovedBy(j, i, p)'
    <3>1. p \in 1 .. made BY <2>2, <2>5 DEF UpdateOK
    <3>2. CASE \E j \in DOMAIN requests : MovedBy(j, i, p)
      BY <1>2, <1>6, <3>1, <3>2
    <3>3. CASE places'[p] # None /\ c.op = "update" /\ c.place = p
      <4>1. Overlap(k, i)'
        <5>1. k \notin requests[i].after BY <1>1, <2>1 DEF Running
        <5>2. i \notin requests[k].after BY <1>1, <2>1 DEF Running
        <5>3. c.after = requests[k].after BY DEF Becomes
        <5>4. requests'[k].after = requests[k].after BY <1>2, <5>3
        <5>5. requests'[i].after = requests[i].after BY <2>1
        <5>. QED BY <2>1, <5>1, <5>2, <5>4, <5>5 DEF Overlap
      <4>2. MovedBy(k, i, p)' BY <1>2, <3>3, <4>1 DEF MovedBy
      <4>. QED BY <1>1, <4>2
    <3>4. CASE /\ places'[p] # None /\ Book!Holds(places, p, requests[i].rider,
                                                  requests[i].designation)
               /\ ~(c.op = "update" /\ c.place = p)
      BY <3>1, <3>4 DEF Book!Holds
    <3>5. places[p] = None => places'[p] = None BY <3>1
    <3>. QED BY <2>2, <2>5, <3>2, <3>3, <3>4, <3>5 DEF UpdateOK
  <2>6. \A p \in 1 .. made : OwnedBy(p, requests[i].rider) =>
          OwnedBy(p, requests[i].rider)'
    BY <2>1 DEF OwnedBy
  <2>7. requests[i].seen # None =>
          \/ places'[requests'[i].seen] = None
          \/ Book!Holds(places', requests'[i].seen, requests[i].rider,
                        requests[i].designation)
          \/ \E j \in DOMAIN requests : MovedBy(j, i, requests[i].seen)'
    BY <2>1, <2>3, <2>5
  <2>. QED
    BY <1>2, <2>1, <2>2, <2>3, <2>4, <2>6, <2>7 DEF UpdateOK, Book!Holds
<1>7. \A i \in Running' :
        requests'[i].op = "profile" /\ requests'[i].at = "writing" =>
          requests'[i].read \in Profile
  BY <1>2 DEF AccountInv, Running
<1>8. LocksOK'
  <2>1. ASSUME NEW i \in Running', NEW p \in PlaceIds, i \in Deleting(p)'
        PROVE  places'[p] # None /\ Deleting(p)' = {i}
    <3>1. Deleting(p)' \subseteq Deleting(p) \ {k}
      BY <1>2 DEF Deleting, Running
    <3>2. i \in Deleting(p) BY <2>1, <3>1
    <3>3. places[p] # None /\ Deleting(p) = {i}
      BY <1>2, <3>2 DEF AccountInv, LocksOK
    <3>. QED BY <2>1, <3>1, <3>3
  <2>. QED BY <2>1 DEF LocksOK
<1>9. LostOnlyToOverlap'
  <2>1. ASSUME NEW l \in lost', ~l.held
        PROVE  \E j \in DOMAIN requests' : MovedBy(j, l.by, l.place)'
    <3>1. CASE l \in lost
      <4>1. PICK j \in DOMAIN requests : MovedBy(j, l.by, l.place)
        BY <2>1, <3>1 DEF AccountInv, LostOnlyToOverlap, MovedBy
      <4>2. l.by \in Answered /\ l.place \in PlaceIds
        BY <3>1 DEF AccountInv, TypeOK
      <4>. QED BY <1>2, <4>1, <4>2
    <3>2. CASE l \notin lost
      <4>1. PICK j \in DOMAIN requests : MovedBy(j, k, l.place)
        BY <2>1, <3>2
      <4>2. j # k BY <4>1 DEF MovedBy, Overlap
      <4>3. MovedBy(j, k, l.place)'
        BY <1>2, <4>1, <4>2 DEF MovedBy, Overlap, Becomes
      <4>. QED BY <1>2, <3>2, <4>3
    <3>. QED BY <3>1, <3>2
  <2>. QED BY <2>1 DEF LostOnlyToOverlap, MovedBy
<1>. QED
  BY <1>2, <1>3, <1>5, <1>6, <1>7, <1>8, <1>9 DEF AccountInv

-----------------------------------------------------------------------------
(***************************************************************************)
(* The handlers.                                                           *)
(***************************************************************************)

LEMMA AccountTypes ==
  ASSUME AccountInv, NEW k \in Running
  PROVE  /\ requests \in Seq(Request) /\ requests[k] \in Request
         /\ k \in DOMAIN requests /\ k \in Ids
         /\ profile \in [Riders -> Profile]
         /\ places \in [PlaceIds -> Book!Place \cup {None}]
         /\ made \in 0 .. MaxPlaces /\ MaxPlaces \in Nat
         /\ PlaceIds = 1 .. MaxPlaces /\ None \notin Nat
<1>1. requests \in Seq(Request) /\ Len(requests) <= MaxRequests
      /\ k \in DOMAIN requests
  BY DEF AccountInv, TypeOK, Running
<1>2. requests[k] \in Request /\ k \in Ids
  BY <1>1, AccountAssumption DEF Ids
<1>. QED
  BY <1>1, <1>2, AccountAssumption
     DEF AccountInv, TypeOK, PlaceIds, Book!PlaceIds

LEMMA Stages ==
  /\ {"found", "deleting", "writing", "ok", "refused", "error"} \subseteq Stage
  /\ {"found", "deleting", "writing"} \cap {"refused", "error"} = {}
BY DEF Stage, Outcome

LEMMA StepGoesOn ==
  ASSUME AccountInv, NEW k \in Running,
         NEW at \in {"found", "deleting", "writing", "ok"},
         NEW seen \in PlaceIds \cup {None}, Step(k, at, seen)
  PROVE  \E c : /\ Becomes(k, c) /\ c.at = at
                /\ c.op = requests[k].op /\ c.rider = requests[k].rider
                /\ c.place = requests[k].place /\ c.seen = seen
                /\ c.designation = requests[k].designation
<1>1. requests \in Seq(Request) BY AccountTypes
<1>2. at \in Stage /\ at \notin {"refused", "error"} BY Stages
<1>. QED BY <1>1, <1>2, StepTaken

\* OneEach without its sets.
Alone(f) ==
  \A p, i \in PlaceIds :
    (p # i /\ f[p] # None /\ f[p].designation # None /\ f[i] # None) =>
      ~(f[i].rider = f[p].rider /\ f[i].designation = f[p].designation)

LEMMA OneEachIsAlone ==
  (Book!OneEach <=> Alone(places)) /\ (Book!OneEach' <=> Alone(places'))
BY DEF Book!OneEach, Book!InTheWay, Book!Holds, Alone, PlaceIds

LEMMA RequestEnds ==
  ASSUME AccountInv, NEW k \in Running, NEW at \in {"refused", "error"},
         Step(k, at, None), UNCHANGED Data
  PROVE  AccountInv'
<1>1. requests \in Seq(Request) /\ at \in Stage
  BY AccountTypes DEF Stage, Outcome
<1>2. PICK c : Becomes(k, c) /\ c.at = at BY <1>1, StepTaken
<1>3. UNCHANGED << places, made, lost >> /\ profile' \in [Riders -> Profile]
  BY AccountTypes DEF Data
<1>4. c.at \in Outcome /\ c.at # "writing" BY <1>2 DEF Outcome
<1>. QED BY <1>2, <1>3, <1>4, QuietStep

LEMMA PlaceFound ==
  ASSUME AccountInv, NEW k \in Running, FindExisting(k)
  PROVE  AccountInv'
<1> DEFINE q == requests[k]
<1>1. /\ q \in Request /\ requests \in Seq(Request)
      /\ UNCHANGED << places, made, lost, profile >>
      /\ profile \in [Riders -> Profile] /\ q.op = "update" /\ q.at = "start"
  BY AccountTypes DEF FindExisting, Data
<1>2. UpdateOK(k) BY <1>1 DEF AccountInv
<1>3. CASE ~(places[q.place] # None /\ places[q.place].rider = q.rider)
  BY <1>3, RequestEnds DEF FindExisting
<1>4. CASE places[q.place] # None /\ places[q.place].rider = q.rider
  <2>1. Step(k, "found", None) BY <1>4 DEF FindExisting
  <2>2. PICK c : /\ Becomes(k, c) /\ c.at = "found"
                 /\ c.op = q.op /\ c.rider = q.rider /\ c.place = q.place
                 /\ c.seen = None /\ c.designation = q.designation
    BY <2>1, StepGoesOn
  <2>3. requests'[k] = c BY <2>2 DEF Becomes, Running
  <2>4. UpdateOK(k)' BY <1>1, <1>2, <1>4, <2>2, <2>3 DEF UpdateOK, OwnedBy
  <2>. QED BY <1>1, <2>2, <2>4, QuietStep
<1>. QED BY <1>3, <1>4

LEMMA ConflictFound ==
  ASSUME AccountInv, NEW k \in Running, FindConflict(k)
  PROVE  AccountInv'
<1> DEFINE q == requests[k]
           others == Having(q.rider, q.designation) \ {q.place}
<1>1. /\ q \in Request /\ requests \in Seq(Request)
      /\ UNCHANGED << places, made, lost, profile >>
      /\ profile \in [Riders -> Profile] /\ q.op = "update" /\ q.at = "found"
      /\ made \in 0 .. MaxPlaces /\ MaxPlaces \in Nat /\ PlaceIds = 1 .. MaxPlaces
      /\ None \notin PlaceIds
  BY AccountTypes DEF FindConflict, Data
<1>2. UpdateOK(k) /\ \A p \in PlaceIds : p > made => places[p] = None
  BY <1>1 DEF AccountInv, TypeOK
<1>3. CASE others = {}
  <2>1. Step(k, "writing", None) /\ requests \in Seq(Request)
    BY <1>1, <1>3 DEF FindConflict
  <2>2. PICK c : /\ Becomes(k, c) /\ c.at = "writing"
                 /\ c.op = q.op /\ c.rider = q.rider /\ c.place = q.place
                 /\ c.seen = None /\ c.designation = q.designation
    BY <2>1, StepGoesOn
  <2>3. requests'[k] = c BY <2>2 DEF Becomes, Running
  <2>4. UpdateOK(k)' BY <1>1, <1>2, <2>2, <2>3 DEF UpdateOK, OwnedBy
  <2>. QED BY <1>1, <2>2, <2>4, QuietStep
<1>4. ASSUME NEW p \in others, Step(k, "deleting", p)
      PROVE  AccountInv'
  <2>1. /\ p \in PlaceIds \ {q.place} /\ q.designation # None
        /\ Book!Holds(places, p, q.rider, q.designation)
    BY <1>4 DEF Having
  <2>2. p \in 1 .. made BY <1>1, <1>2, <2>1 DEF Book!Holds
  <2>3. PICK c : /\ Becomes(k, c) /\ c.at = "deleting"
                 /\ c.op = q.op /\ c.rider = q.rider /\ c.place = q.place
                 /\ c.seen = p /\ c.designation = q.designation
    BY <1>4, <2>1, StepGoesOn
  <2>4. requests'[k] = c BY <2>3 DEF Becomes, Running
  <2>5. UpdateOK(k)'
    BY <1>1, <1>2, <2>1, <2>2, <2>3, <2>4 DEF UpdateOK, OwnedBy, Book!Holds
  <2>. QED BY <1>1, <2>3, <2>5, QuietStep
<1>. QED BY <1>3, <1>4 DEF FindConflict

LEMMA ConflictDeleted ==
  ASSUME AccountInv, NEW k \in Running, DeleteConflict(k)
  PROVE  AccountInv'
<1> DEFINE q == requests[k]
<1>1. /\ q \in Request /\ requests \in Seq(Request)
      /\ UNCHANGED << places, made, lost, profile >>
      /\ profile \in [Riders -> Profile] /\ q.op = "update"
      /\ q.at = "deleting" /\ Blockers(k) = {}
      /\ made \in 0 .. MaxPlaces /\ MaxPlaces \in Nat /\ PlaceIds = 1 .. MaxPlaces
  BY AccountTypes DEF DeleteConflict, Data
<1>2. UpdateOK(k) BY <1>1 DEF AccountInv
<1>3. CASE places[q.seen] = None
  BY <1>3, RequestEnds DEF DeleteConflict
<1>4. CASE places[q.seen] # None
  <2>1. PICK p \in PlaceIds : p = q.seen /\ Step(k, "writing", p)
    BY <1>1, <1>2, <1>4 DEF UpdateOK, DeleteConflict
  <2>2. PICK c : /\ Becomes(k, c) /\ c.at = "writing"
                 /\ c.op = q.op /\ c.rider = q.rider /\ c.place = q.place
                 /\ c.seen = p /\ c.designation = q.designation
    BY <2>1, StepGoesOn
  <2>3. /\ requests'[k] = c /\ k \in DOMAIN requests
        /\ DOMAIN requests' = DOMAIN requests
    BY <2>2 DEF Becomes, Running
  <2>4. \A j \in DOMAIN requests : MovedBy(j, k, p) => MovedBy(j, k, p)'
    <3>1. ASSUME NEW j \in DOMAIN requests, MovedBy(j, k, p)
          PROVE  MovedBy(j, k, p)'
      <4>1. j # k BY <3>1 DEF MovedBy, Overlap
      <4>2. requests'[j] = requests[j] /\ c.after = requests[k].after
        BY <2>2, <3>1, <4>1 DEF Becomes
      <4>. QED BY <2>3, <3>1, <4>1, <4>2 DEF MovedBy, Overlap
    <3>. QED BY <3>1
  <2>5. \/ Book!Holds(places, p, q.rider, q.designation)
        \/ \E j \in DOMAIN requests' : MovedBy(j, k, p)'
    BY <1>1, <1>2, <1>4, <2>1, <2>3, <2>4 DEF UpdateOK
  <2>6. /\ requests'[k].op = "update" /\ requests'[k].at = "writing"
        /\ requests'[k].rider = q.rider /\ requests'[k].place = q.place
        /\ requests'[k].seen = p /\ requests'[k].designation = q.designation
        /\ places' = places /\ made' = made
    BY <1>1, <2>2, <2>3
  <2>7. UpdateOK(k)'
    <3>1. /\ q.place \in 1 .. made /\ OwnedBy(q.place, q.rider)
          /\ p \in 1 .. made \ {q.place} /\ q.designation # None
          /\ OwnedBy(p, q.rider)
      BY <1>1, <1>2, <2>1 DEF UpdateOK
    <3>2. /\ places'[q.place] # None => places'[q.place].rider = q.rider
          /\ places'[p] # None => places'[p].rider = q.rider
      BY <2>6, <3>1 DEF OwnedBy
    <3>3. \/ Book!Holds(places, q.seen, q.rider, q.designation)'
          \/ (\E j \in DOMAIN requests : MovedBy(j, k, requests[k].seen))'
      BY <2>5, <2>6 DEF MovedBy, Book!Holds
    <3>4. /\ (q.place \in 1 .. made)' /\ OwnedBy(q.place, q.rider)'
          /\ (q.seen \in 1 .. made \ {q.place} /\ q.designation # None)'
          /\ OwnedBy(q.seen, q.rider)' /\ (q.at # "deleting")'
      BY <2>6, <3>1, <3>2 DEF OwnedBy
    <3>. QED BY <3>3, <3>4 DEF UpdateOK
  <2>8. Deleting(p) \ {k} = {} BY <1>1, <2>1 DEF Blockers
  <2>. QED BY <1>1, <1>4, <2>1, <2>2, <2>7, <2>8, QuietStep
<1>. QED BY <1>3, <1>4

\* A new place, or the one that has the designation with new content.
LEMMA PlaceSaved ==
  ASSUME AccountInv, NEW k \in Running, Save(k)
  PROVE  AccountInv' /\ requests'[k].at = "ok" /\ Promised(k)
<1> DEFINE q == requests[k]  had == Having(q.rider, q.designation)
<1>1. /\ q \in Request /\ requests \in Seq(Request) /\ k \in Ids
      /\ k \in DOMAIN requests
      /\ places \in [PlaceIds -> Book!Place \cup {None}]
      /\ made \in 0 .. MaxPlaces /\ MaxPlaces \in Nat /\ PlaceIds = 1 .. MaxPlaces
      /\ q.op = "save" /\ q.rider \in Riders /\ q.designation \in Designation
      /\ Step(k, "ok", None) /\ UNCHANGED << profile, lost >>
  BY AccountTypes DEF Save, Request
<1>2. /\ Book!OneEach /\ \A p \in PlaceIds : p > made => places[p] = None
      /\ lost \subseteq [place : PlaceIds, by : Ids, held : BOOLEAN]
  BY DEF AccountInv, TypeOK
<1>3. PICK c : /\ Becomes(k, c) /\ c.at = "ok"
               /\ c.op = q.op /\ c.rider = q.rider /\ c.place = q.place
               /\ c.seen = None /\ c.designation = q.designation
  <2>1. Step(k, "ok", None) BY <1>1
  <2>. QED BY <2>1, StepGoesOn
<1>4. requests'[k].at = "ok" BY <1>1, <1>3 DEF Becomes
<1>5. k \in 0 .. MaxRequests BY <1>1, AccountAssumption DEF Ids
<1>6. CASE had # {}
  <2>1. PICK p \in had : TRUE BY <1>6
  <2>2. /\ p \in PlaceIds /\ q.designation # None /\ places[p] # None
        /\ places[p].rider = q.rider /\ places[p].designation = q.designation
    BY <2>1 DEF Having, Book!Holds
  <2>3. had = {p}
    BY <1>2, <2>1, <2>2, OneEachIsAlone DEF Having, Book!Holds, Alone
  <2>4. /\ places' = [places EXCEPT ![p] = [places[p] EXCEPT !.content = k]]
        /\ made' = made
    <3>1. places' = [i \in PlaceIds |-> IF i \in had
                       THEN [places[i] EXCEPT !.content = k] ELSE places[i]]
      BY <1>6 DEF Save
    <3>2. made' = made BY <1>6 DEF Save
    <3>. QED BY <1>1, <2>3, <3>1, <3>2
  <2>5. [places[p] EXCEPT !.content = k] \in Book!Place
    BY <1>1, <1>5, <2>2 DEF Book!Place
  <2>6. /\ places' \in [PlaceIds -> Book!Place \cup {None}]
        /\ \A i \in PlaceIds :
             /\ places[i] = None => places'[i] = None
             /\ (places[i] # None /\ i # p) => places'[i] = places[i]
        /\ places'[p].rider = places[p].rider
        /\ places'[p].designation = places[p].designation
    BY <1>1, <2>2, <2>4, <2>5 DEF Book!Place
  <2>7. ASSUME NEW i \in PlaceIds, places'[i] # None
        PROVE  /\ places[i] # None /\ places'[i].rider = places[i].rider
               /\ places'[i].designation = places[i].designation
    BY <2>6, <2>7
  <2>8. Book!OneEach' BY <1>2, <2>7, OneEachIsAlone DEF Alone
  <2>9. Book!SavePlace(q.rider, q.designation, k)
    <3>1. p \in {i \in PlaceIds : q.designation # None /\
                   Book!Holds(places, i, q.rider, q.designation)}
      BY <2>1 DEF Having
    <3>2. places' = [places EXCEPT ![p].content = k] BY <2>4
    <3>. QED BY <2>4, <3>1, <3>2 DEF Book!SavePlace, PlaceIds
  <2>10. \A i \in PlaceIds : places[i] # None => places'[i] # None
    <3>1. places'[p] # None BY <1>1, <2>2, <2>4, <2>5, PlaceAssumption
    <3>. QED BY <2>6, <3>1
  <2>11. AccountInv'
    BY <1>1, <1>2, <1>3, <2>4, <2>6, <2>7, <2>8, <2>10, RowStep
  <2>. QED BY <1>1, <1>4, <2>9, <2>11 DEF Promised
<1>7. CASE had = {}
  <2> DEFINE new == [rider |-> q.rider, designation |-> q.designation,
                     content |-> k]
             n == made + 1
  <2>1. /\ n \in PlaceIds /\ places[n] = None /\ made < MaxPlaces
        /\ made' = made + 1 /\ places' = [places EXCEPT ![n] = new]
    BY <1>1, <1>2, <1>7 DEF Save
  <2>2. new \in Book!Place
    BY <1>1, <1>5 DEF Book!Place, Designation
  <2> DEFINE row == new
  <2>3. /\ row.rider = q.rider /\ row.designation = q.designation OBVIOUS
  <2> HIDE DEF row
  <2>4. /\ places' \in [PlaceIds -> Book!Place \cup {None}]
        /\ places'[n] = row
        /\ \A i \in PlaceIds \ {n} : places'[i] = places[i]
    BY <1>1, <2>1, <2>2 DEF row
  <2>5. Book!OneEach'
    <3>1. \A i \in PlaceIds \ {n} :
            (q.designation # None /\ places[i] # None) =>
              ~(places[i].rider = q.rider /\ places[i].designation = q.designation)
      BY <1>7 DEF Having, Book!Holds
    <3>. QED BY <1>2, <2>1, <2>3, <2>4, <3>1, OneEachIsAlone DEF Alone
  <2>6. Book!SavePlace(q.rider, q.designation, k)
    BY <1>7, <2>1 DEF Book!SavePlace, Having, PlaceIds, Book!PlaceIds
  <2>7. made' \in made .. MaxPlaces
        /\ \A i \in PlaceIds : i > made' => places'[i] = None
    BY <1>1, <1>2, <2>1, <2>4
  <2>8. \A i \in PlaceIds : places[i] # None => places'[i] = places[i]
    BY <2>1, <2>4
  <2>9. \A i \in 1 .. made : places'[i] = places[i]
    BY <1>1, <2>1, <2>4
  <2>10. AccountInv'
    BY <1>1, <1>2, <1>3, <2>4, <2>5, <2>7, <2>8, <2>9, RowStep
  <2>. QED BY <1>1, <1>4, <2>6, <2>10 DEF Promised
<1>. QED BY <1>6, <1>7

LEMMA PlaceDeleted ==
  ASSUME AccountInv, NEW k \in Running, Delete(k)
  PROVE  AccountInv' /\ (requests'[k].at = "ok" => Promised(k))
                     /\ (requests'[k].at # "ok" => UNCHANGED << places, made >>)
<1> DEFINE q == requests[k]
           mine == places[q.place] # None /\ places[q.place].rider = q.rider
<1>1. /\ q \in Request /\ requests \in Seq(Request) /\ k \in DOMAIN requests
      /\ places \in [PlaceIds -> Book!Place \cup {None}]
      /\ made \in 0 .. MaxPlaces /\ MaxPlaces \in Nat /\ PlaceIds = 1 .. MaxPlaces
      /\ q.op = "delete" /\ q.at = "start" /\ Blockers(k) = {}
      /\ UNCHANGED << made, profile, lost >>
  BY AccountTypes DEF Delete
<1>2. /\ Book!OneEach /\ \A p \in PlaceIds : p > made => places[p] = None
      /\ lost \subseteq [place : PlaceIds, by : Ids, held : BOOLEAN]
  BY DEF AccountInv, TypeOK
<1>3. CASE ~mine
  <2>1. Step(k, "refused", None) /\ UNCHANGED Data
    BY <1>1, <1>3 DEF Delete, Data
  <2>2. AccountInv' BY <2>1, RequestEnds
  <2>3. requests'[k].at = "refused" BY <1>1, <2>1 DEF Step, Ended, Request
  <2>. QED BY <2>1, <2>2, <2>3 DEF Data
<1>4. CASE mine
  <2>1. Step(k, "ok", None) /\ places' = [places EXCEPT ![q.place] = None]
    BY <1>4 DEF Delete
  <2>2. PICK c : /\ Becomes(k, c) /\ c.at = "ok"
                 /\ c.op = q.op /\ c.rider = q.rider /\ c.place = q.place
                 /\ c.seen = None /\ c.designation = q.designation
    BY <2>1, StepGoesOn
  <2>3. \A p \in PlaceIds :
          places'[p] = IF p = q.place THEN None ELSE places[p]
    BY <1>1, <2>1
  <2>4. places' \in [PlaceIds -> Book!Place \cup {None}] BY <1>1, <2>1
  <2>5. Book!OneEach' BY <1>2, <2>3, OneEachIsAlone DEF Alone
  <2>6. Deleting(q.place) \ {k} = {} BY <1>1 DEF Blockers
  <2>7. \A p \in PlaceIds :
          (places[p] # None /\ Deleting(p) \ {k} # {}) => places'[p] # None
    BY <2>3, <2>6
  <2>8. \A p \in 1 .. made : places'[p] # None => places'[p] = places[p]
    BY <1>1, <2>3
  <2>9. AccountInv'
    BY <1>1, <1>2, <2>2, <2>3, <2>4, <2>5, <2>7, <2>8, RowStep
  <2>10. Book!DeletePlace(q.place, q.rider)
    BY <1>1, <1>4, <2>1 DEF Book!DeletePlace
  <2>11. requests'[k].at = "ok" BY <1>1, <2>2 DEF Becomes
  <2>. QED BY <1>1, <2>9, <2>10, <2>11 DEF Promised
<1>. QED BY <1>3, <1>4

\* The update and the commit: unless the place it takes away has been moved, it is
\* the update of PlaceBook.
LEMMA PlaceUpdated ==
  ASSUME AccountInv, NEW k \in Running, UpdatePlace(k)
  PROVE  AccountInv' /\ (requests'[k].at = "ok" => Promised(k))
                     /\ (requests'[k].at # "ok" => UNCHANGED << places, made >>)
<1> DEFINE q == requests[k]
           taken == Having(q.rider, q.designation) \ {q.place, q.seen}
           new == [rider |-> places[q.place].rider,
                   designation |-> q.designation, content |-> k]
<1>1. /\ q \in Request /\ requests \in Seq(Request) /\ k \in DOMAIN requests
      /\ places \in [PlaceIds -> Book!Place \cup {None}] /\ k \in Ids
      /\ made \in 0 .. MaxPlaces /\ MaxPlaces \in Nat /\ PlaceIds = 1 .. MaxPlaces
      /\ q.op = "update" /\ q.at = "writing" /\ None \notin Nat
      /\ q.designation \in Designation /\ q.rider \in Riders
  BY AccountTypes DEF UpdatePlace, Request
<1>2. /\ Book!OneEach /\ \A p \in PlaceIds : p > made => places[p] = None
      /\ lost \subseteq [place : PlaceIds, by : Ids, held : BOOLEAN]
      /\ UpdateOK(k) /\ \A l \in lost : l.by \in Answered
  BY <1>1 DEF AccountInv, TypeOK
<1>3. q.place \in 1 .. made /\ q.place \in PlaceIds /\ q.seen \in PlaceIds \cup {None}
  BY <1>1, <1>2 DEF UpdateOK, Request
<1>4. CASE places[q.place] = None \/ taken # {}
  <2>1. Step(k, "error", None) /\ UNCHANGED Data
    BY <1>4 DEF UpdatePlace
  <2>2. AccountInv' BY <2>1, RequestEnds
  <2>3. requests'[k].at = "error" BY <1>1, <2>1 DEF Step, Ended, Request
  <2>. QED BY <2>1, <2>2, <2>3 DEF Data
<1>5. CASE places[q.place] # None /\ taken = {}
  <2>1. /\ places' = [p \in PlaceIds |-> IF p = q.place THEN new
                        ELSE IF p = q.seen THEN None ELSE places[p]]
        /\ lost' = lost \cup
             (IF q.seen = None THEN {}
              ELSE {[ place |-> q.seen, by |-> k,
                      held |-> places[q.seen].designation = q.designation ]})
        /\ Step(k, "ok", None) /\ UNCHANGED << made, profile >>
    <3>1. new = [rider |-> places[q.place].rider,
                 designation |-> q.designation, content |-> k]
      OBVIOUS
    <3>. QED BY <1>3, <1>5 DEF UpdatePlace
  <2>2. PICK c : /\ Becomes(k, c) /\ c.at = "ok"
                 /\ c.op = q.op /\ c.rider = q.rider /\ c.place = q.place
                 /\ c.seen = None /\ c.designation = q.designation
    BY <2>1, StepGoesOn
  <2>3. requests'[k].at = "ok" BY <1>1, <2>2 DEF Becomes
  <2>4. /\ new \in Book!Place /\ new.rider = q.rider
        /\ new.designation = q.designation /\ new # None
        /\ new = [rider |-> q.rider, designation |-> q.designation,
                  content |-> k]
        /\ places[q.place].rider = q.rider
    <3>1. k \in 0 .. MaxRequests BY <1>1, AccountAssumption DEF Ids
    <3>2. places[q.place].rider = q.rider
      BY <1>1, <1>2, <1>5 DEF UpdateOK, OwnedBy
    <3>3. new \in Book!Place
      BY <1>1, <3>1, <3>2 DEF Book!Place, Designation
    <3>. QED BY <3>2, <3>3, PlaceAssumption
  <2> HIDE DEF new
  <2>5. /\ places' \in [PlaceIds -> Book!Place \cup {None}]
        /\ \A p \in PlaceIds :
             places'[p] = IF p = q.place THEN new
                          ELSE IF p = q.seen THEN None ELSE places[p]
    BY <1>1, <2>1, <2>4
  <2>6. \A p \in PlaceIds \ {q.place, q.seen} :
          ~Book!Holds(places, p, q.rider, q.designation)
            \/ q.designation = None
    BY <1>5 DEF Having
  <2>7. Book!OneEach'
    <3>1. Alone(places) BY <1>2, OneEachIsAlone
    <3>2. \A p \in PlaceIds \ {q.place} : places'[p] # None =>
            /\ places'[p] = places[p]
            /\ q.designation # None => ~(/\ places[p].rider = q.rider
                                         /\ places[p].designation = q.designation)
      BY <2>5, <2>6 DEF Book!Holds
    <3>3. Alone(places')
      BY <1>3, <2>4, <2>5, <3>1, <3>2 DEF Alone
    <3>. QED BY <3>3, OneEachIsAlone
  <2>8. /\ q.seen # None => /\ q.seen \in 1 .. made \ {q.place}
                            /\ q.seen \in PlaceIds /\ q.designation # None
                            /\ places[q.seen] # None
                            /\ places[q.seen].rider = q.rider
                            /\ Deleting(q.seen) = {k}
    <3>1. SUFFICES ASSUME q.seen # None
          PROVE  /\ q.seen \in 1 .. made \ {q.place}
                 /\ q.seen \in PlaceIds /\ q.designation # None
                 /\ places[q.seen] # None
                 /\ places[q.seen].rider = q.rider
                 /\ Deleting(q.seen) = {k}
      OBVIOUS
    <3>2. /\ q.seen \in 1 .. made \ {q.place} /\ q.designation # None
          /\ q.seen \in PlaceIds /\ OwnedBy(q.seen, q.rider)
      BY <1>1, <1>2, <1>3, <3>1 DEF UpdateOK
    <3>3. k \in Deleting(q.seen) BY <1>1 DEF Deleting
    <3>4. places[q.seen] # None /\ Deleting(q.seen) = {k}
      BY <3>2, <3>3 DEF AccountInv, LocksOK
    <3>. QED BY <3>2, <3>4 DEF OwnedBy
  <2>9. \A p \in PlaceIds :
          (places[p] # None /\ Deleting(p) \ {k} # {}) => places'[p] # None
    <3>1. ASSUME NEW p \in PlaceIds, places[p] # None, Deleting(p) \ {k} # {}
          PROVE  places'[p] # None
      <4>1. p # q.seen
        <5>1. SUFFICES ASSUME p = q.seen PROVE FALSE OBVIOUS
        <5>2. Deleting(p) = {k} BY <1>1, <2>8, <5>1
        <5>. QED BY <3>1, <5>2
      <4>. QED BY <2>4, <2>5, <3>1, <4>1
    <3>. QED BY <3>1
  <2>10. ASSUME NEW p \in 1 .. made, places'[p] # None
         PROVE  /\ places[p] # None /\ places'[p].rider = places[p].rider
                /\ \/ places'[p].designation = places[p].designation
                   \/ c.op = "update" /\ c.place = p
    BY <1>1, <1>5, <2>2, <2>4, <2>5, <2>10
  <2>11. ASSUME NEW l \in lost' \ lost
         PROVE  /\ l.by = k /\ l.place = q.seen /\ q.seen # None
                /\ l.held \in BOOLEAN
                /\ l.held <=> places[q.seen].designation = q.designation
    <3>1. /\ q.seen # None
          /\ l = [ place |-> q.seen, by |-> k,
                   held |-> places[q.seen].designation = q.designation ]
      BY <2>1, <2>11
    <3>. QED BY <3>1
  <2>12. lost' \subseteq [place : PlaceIds, by : Ids, held : BOOLEAN]
    <3> DEFINE h == places[q.seen].designation = q.designation
    <3>1. h \in BOOLEAN OBVIOUS
    <3>2. lost' \subseteq lost \cup {[place |-> q.seen, by |-> k, held |-> h]}
          /\ (q.seen = None => lost' = lost)
      BY <2>1
    <3> HIDE DEF h
    <3>. QED BY <1>1, <1>2, <2>8, <3>1, <3>2
  <2>13. ASSUME NEW l \in lost' \ lost, ~l.held
         PROVE  \E j \in DOMAIN requests : MovedBy(j, k, l.place)
    <3>1. /\ q.seen # None /\ places[q.seen] # None /\ l.place = q.seen
          /\ places[q.seen].designation # q.designation
      BY <2>8, <2>11, <2>13
    <3>2. ~Book!Holds(places, q.seen, q.rider, q.designation)
      BY <3>1 DEF Book!Holds
    <3>3. \E j \in DOMAIN requests : MovedBy(j, k, q.seen)
      BY <1>2, <3>1, <3>2 DEF UpdateOK
    <3>. QED BY <3>1, <3>3
  <2>14. AccountInv'
    <3>1. made' \in made .. MaxPlaces BY <1>1, <2>1
    <3>2. \A p \in PlaceIds : p > made' => places'[p] = None
      BY <1>1, <1>2, <1>3, <2>1, <2>5
    <3>3. \A l \in lost' \ lost :
            l.by = k /\ (~l.held => \E j \in DOMAIN requests :
                                      MovedBy(j, k, l.place))
      BY <2>11, <2>13
    <3>4. places' \in [PlaceIds -> Book!Place \cup {None}] BY <2>5
    <3>5. UNCHANGED profile BY <2>1
    <3>. QED
      BY <2>2, <2>7, <2>9, <2>10, <2>12, <3>1, <3>2, <3>3, <3>4, <3>5, RowStep
  <2>15. CASE \E l \in lost' \ lost : ~l.held
    BY <1>1, <2>3, <2>14, <2>15 DEF Promised
  <2>16. CASE \A l \in lost' \ lost : l.held
    <3>1. q.seen # None => Book!Holds(places, q.seen, q.rider, q.designation)
      <4>1. SUFFICES ASSUME q.seen # None
            PROVE  places[q.seen].designation = q.designation
        BY <2>8 DEF Book!Holds
      <4> DEFINE h == places[q.seen].designation = q.designation
                 l == [place |-> q.seen, by |-> k, held |-> h]
      <4>2. l \in lost' BY <2>1, <4>1
      <4>3. l.by = k /\ l.held = h OBVIOUS
      <4>4. l \notin lost BY <1>2, <4>3 DEF Running
      <4>. QED BY <2>16, <4>2, <4>3, <4>4
    <3>2. Book!InTheWay(places, q.place, q.rider, q.designation)
            = IF q.seen = None THEN {} ELSE {q.seen}
      <4>1. ASSUME NEW p \in PlaceIds \ {q.place}
            PROVE  (q.designation # None
                     /\ Book!Holds(places, p, q.rider, q.designation))
                   <=> (q.seen # None /\ p = q.seen)
        <5>1. CASE q.seen # None /\ p = q.seen BY <2>8, <3>1, <5>1
        <5>2. CASE p # q.seen BY <2>6, <5>2
        <5>3. q.seen = None => p # q.seen BY <1>1
        <5>. QED BY <5>1, <5>2, <5>3
      <4>. QED BY <1>3, <2>8, <4>1 DEF Book!InTheWay, PlaceIds
    <3>3. places' = [p \in PlaceIds |->
            IF p = q.place THEN [rider |-> q.rider,
                                 designation |-> q.designation, content |-> k]
            ELSE IF p \in Book!InTheWay(places, q.place, q.rider, q.designation)
                 THEN None ELSE places[p]]
      BY <1>1, <2>1, <2>4, <3>2
    <3>4. Book!UpdatePlace(q.place, q.rider, q.designation, k)
      BY <1>5, <2>1, <2>4, <3>3 DEF Book!UpdatePlace, PlaceIds
    <3>. QED BY <1>1, <2>3, <2>14, <3>4 DEF Promised
  <2>. QED BY <2>3, <2>14, <2>15, <2>16
<1>. QED BY <1>4, <1>5

\* The three steps of a profile update.
LEMMA CityChecked ==
  ASSUME AccountInv, NEW k \in Running, CheckCity(k)
  PROVE  AccountInv' /\ UNCHANGED << places, made >> /\ requests'[k].at # "ok"
<1>1. /\ requests[k] \in Request /\ requests \in Seq(Request)
      /\ k \in DOMAIN requests /\ requests[k].op = "profile"
      /\ UNCHANGED Data /\ profile \in [Riders -> Profile]
  BY AccountTypes DEF CheckCity
<1>2. CASE Step(k, "refused", None)
  <2>1. AccountInv' BY <1>1, <1>2, RequestEnds
  <2>2. requests'[k].at = "refused" BY <1>1, <1>2 DEF Step, Ended, Request
  <2>. QED BY <1>1, <2>1, <2>2 DEF Data
<1>3. CASE Step(k, "found", None)
  <2>1. PICK c : Becomes(k, c) /\ c.at = "found" /\ c.op = "profile"
    BY <1>1, <1>3, StepGoesOn
  <2>2. AccountInv' BY <1>1, <2>1, QuietStep DEF Data
  <2>3. requests'[k].at = "found" BY <1>1, <2>1 DEF Becomes
  <2>. QED BY <1>1, <2>2, <2>3 DEF Data
<1>. QED BY <1>2, <1>3 DEF CheckCity

LEMMA ProfileRead ==
  ASSUME AccountInv, NEW k \in Running, GetProfile(k)
  PROVE  AccountInv' /\ UNCHANGED << places, made >> /\ requests'[k].at # "ok"
<1> DEFINE q == requests[k]
           c == [q EXCEPT !.at = "writing", !.read = profile[q.rider]]
<1>1. /\ q \in Request /\ requests \in Seq(Request)
      /\ k \in DOMAIN requests /\ q.op = "profile"
      /\ UNCHANGED << places, made, profile, lost >>
      /\ profile \in [Riders -> Profile]
  BY AccountTypes DEF GetProfile, Data
<1>2. requests' = [requests EXCEPT ![k] = c] BY <1>1 DEF GetProfile
<1>3. profile[q.rider] \in Profile BY <1>1 DEF Request
<1>4. /\ c \in Request /\ c.at = "writing" /\ c.op = "profile"
      /\ c.read \in Profile /\ c.after = q.after
  BY <1>1, <1>3 DEF Request
<1> HIDE DEF c
<1>5. Becomes(k, c) BY <1>2, <1>4 DEF Becomes
<1>6. AccountInv' BY <1>1, <1>4, <1>5, QuietStep
<1>7. requests'[k].at = "writing" BY <1>1, <1>2, <1>4
<1>. QED BY <1>1, <1>6, <1>7

LEMMA ProfileWritten ==
  ASSUME AccountInv, NEW k \in Running, WriteProfile(k)
  PROVE  AccountInv' /\ UNCHANGED << places, made >> /\ Promised(k)
<1>1. /\ requests[k] \in Request /\ requests[k].op = "profile"
      /\ requests[k].at = "writing" /\ UNCHANGED << places, made, lost >>
      /\ profile \in [Riders -> Profile] /\ k \in Ids
      /\ profile' = [profile EXCEPT ![requests[k].rider] = Merged(k)]
      /\ Step(k, "ok", None)
  BY AccountTypes DEF WriteProfile
<1>2. requests[k].read \in Profile BY <1>1 DEF AccountInv
<1>3. Merged(k) \in Profile
  BY <1>1, <1>2, AccountAssumption DEF Merged, Profile, Ids
<1>4. profile' \in [Riders -> Profile] BY <1>1, <1>3 DEF Request
<1>5. PICK c : Becomes(k, c) /\ c.at = "ok" /\ c.op = "profile"
  BY <1>1, StepGoesOn
<1>6. AccountInv' BY <1>1, <1>4, <1>5, QuietStep DEF Outcome
<1>. QED BY <1>1, <1>6 DEF Promised

\* A request joins the others.
LEMMA RequestArrives ==
  ASSUME AccountInv, NEW r \in Callers, NEW p \in PlaceIds \cup {None},
         NEW d \in Designation,
         NEW op \in {"save", "update", "delete", "profile"},
         NEW sends \in SUBSET Fields, Arrive(r, op, p, d, sends)
  PROVE  /\ AccountInv' /\ UNCHANGED << places, made >>
         /\ \A k \in Running : requests'[k].at # "ok"
<1> DEFINE q == [ op |-> op, rider |-> r, place |-> p, designation |-> d,
                  sends |-> sends, at |-> "start", seen |-> None, read |-> None,
                  after |-> Answered ]
           n == Len(requests) + 1
<1>1. /\ requests \in Seq(Request) /\ Len(requests) < MaxRequests
      /\ UNCHANGED << places, made, profile, lost >>
      /\ \A i \in DOMAIN requests : requests[i].after \subseteq Answered
      /\ MaxRequests \in Nat /\ DOMAIN requests = 1 .. Len(requests)
      /\ Answered \subseteq DOMAIN requests
  BY AccountAssumption DEF AccountInv, TypeOK, Arrive, Data, Answered
<1>2. q \in Request /\ Ended(q, "refused") \in Request
  <2>1. r \in Riders /\ Answered \in SUBSET Ids
    BY <1>1, AccountAssumption DEF Ids
  <2>2. q \in Request BY <2>1 DEF Request
  <2>. QED BY <2>2 DEF Ended, Request, Outcome, Designation, Book!Designation
<1>3. PICK c : /\ requests' = Append(requests, c) /\ c \in Request
               /\ c.at \in {"start", "refused"} /\ c.after \subseteq Answered
               /\ c.op = "update" => c.place \in 1 .. made /\ c.seen = None
                                                       /\ c.at = "start"
  <2>1. requests' \in {Append(requests, q), Append(requests, Ended(q, "refused"))}
    BY DEF Arrive
  <2>2. op = "update" => p \in 1 .. made BY DEF Arrive, Takes
  <2>3. CASE requests' = Append(requests, q)
    <3>1. /\ q.at = "start" /\ q.after = Answered /\ q.op = op
          /\ q.place = p /\ q.seen = None
      OBVIOUS
    <3> HIDE DEF q
    <3>. QED BY <1>2, <2>2, <2>3, <3>1
  <2>4. CASE requests' = Append(requests, Ended(q, "refused"))
    <3> DEFINE e == Ended(q, "refused")
    <3>1. e.at = "refused" /\ e.after = {} /\ e.op = "profile" BY DEF Ended
    <3>2. e \in Request BY <1>2
    <3> HIDE DEF e
    <3>3. requests' = Append(requests, e) BY <2>4 DEF e
    <3>. QED BY <3>1, <3>2, <3>3
  <2>. QED BY <2>1, <2>3, <2>4
<1>4. /\ requests' \in Seq(Request) /\ Len(requests') = n
      /\ DOMAIN requests' = DOMAIN requests \cup {n} /\ requests'[n] = c
      /\ n \notin DOMAIN requests
      /\ \A i \in DOMAIN requests : requests'[i] = requests[i]
  BY <1>1, <1>3
<1>5. /\ Answered' = IF c.at = "start" THEN Answered ELSE Answered \cup {n}
      /\ Running' = IF c.at = "start" THEN Running \cup {n} ELSE Running
      /\ Running \subseteq DOMAIN requests
  BY <1>3, <1>4 DEF Answered, Running, Outcome
<1>6. TypeOK' BY <1>1, <1>4 DEF AccountInv, TypeOK
<1>7. /\ \A i \in DOMAIN requests' : requests'[i].after \subseteq Answered'
      /\ \A l \in lost' : l.by \in Answered'
  BY <1>1, <1>3, <1>4, <1>5 DEF AccountInv
<1>8. Book!OneEach'
  <2>1. places' = places /\ Book!OneEach BY <1>1 DEF AccountInv
  <2>. QED BY <2>1, OneEachIsAlone DEF Alone
<1>9. \A i, j \in DOMAIN requests, a \in PlaceIds :
        MovedBy(j, i, a) => MovedBy(j, i, a)'
  BY <1>4 DEF MovedBy, Overlap
<1>10. ASSUME NEW i \in Running', requests'[i].op = "update"
       PROVE  UpdateOK(i)'
  <2>1. CASE i = n
    BY <1>1, <1>3, <1>4, <1>10, <2>1 DEF UpdateOK
  <2>2. CASE i # n
    <3>1. i \in Running /\ requests'[i] = requests[i] /\ i \in DOMAIN requests
      BY <1>4, <1>5, <2>2
    <3>2. UpdateOK(i) BY <1>10, <3>1 DEF AccountInv
    <3>3. requests[i].seen \in PlaceIds \cup {None}
      <4>1. requests[i] \in Request BY <1>1, <3>1
      <4>. QED BY <4>1 DEF Request
    <3>. QED
      BY <1>1, <1>4, <1>9, <3>1, <3>2, <3>3 DEF UpdateOK, OwnedBy, Book!Holds
  <2>. QED BY <2>1, <2>2
<1>11. \A i \in Running' :
         requests'[i].op = "profile" /\ requests'[i].at = "writing" =>
           requests'[i].read \in Profile
  BY <1>3, <1>4, <1>5 DEF AccountInv
<1>12. LocksOK'
  <2>1. ASSUME NEW a \in PlaceIds PROVE Deleting(a)' = Deleting(a)
    BY <1>3, <1>4, <1>5 DEF Deleting
  <2>. QED BY <1>1, <2>1 DEF AccountInv, LocksOK, Deleting
<1>13. LostOnlyToOverlap'
  <2>1. ASSUME NEW l \in lost, ~l.held
        PROVE  \E j \in DOMAIN requests' : MovedBy(j, l.by, l.place)'
    <3>1. PICK j \in DOMAIN requests : MovedBy(j, l.by, l.place)
      BY <2>1 DEF AccountInv, LostOnlyToOverlap, MovedBy
    <3>2. l.by \in Answered /\ l.place \in PlaceIds
      BY DEF AccountInv, TypeOK
    <3>. QED BY <1>1, <1>4, <1>9, <3>1, <3>2
  <2>. QED BY <1>1, <2>1 DEF LostOnlyToOverlap, MovedBy
<1>14. AccountInv'
  BY <1>6, <1>7, <1>8, <1>10, <1>11, <1>12, <1>13 DEF AccountInv
<1>15. \A k \in Running : requests'[k].at # "ok"
  BY <1>4, <1>5 DEF Running, Answered, Outcome
<1>. QED BY <1>1, <1>14, <1>15

-----------------------------------------------------------------------------
(***************************************************************************)
(* The induction.                                                          *)
(***************************************************************************)

LEMMA StageReached ==
  ASSUME AccountInv, NEW k \in Running, NEW at, NEW seen, Step(k, at, seen)
  PROVE  /\ requests'[k].at = at
         /\ \A i \in Running \ {k} : requests'[i] = requests[i]
<1>1. /\ requests \in Seq(Request) /\ requests[k] \in Request
      /\ k \in DOMAIN requests /\ Running \subseteq DOMAIN requests
  BY AccountTypes DEF Running
<1>. QED BY <1>1 DEF Step, Ended, Request

\* What a step of request k does to the places it does for an answer.
LEMMA RequestGoesOn ==
  ASSUME AccountInv, NEW k \in Running, Query(k) \/ Fail(k) \/ Abort(k)
  PROVE  /\ AccountInv' /\ (requests'[k].at = "ok" => Promised(k))
         /\ (requests'[k].at # "ok" => UNCHANGED << places, made >>)
         /\ \A i \in Running \ {k} : requests'[i] = requests[i]
<1>1. CASE Save(k)
  <2>1. Step(k, "ok", None) BY <1>1 DEF Save
  <2>. QED BY <1>1, <2>1, PlaceSaved, StageReached
<1>2. CASE FindExisting(k)
  <2>1. PICK at \in {"found", "refused"} : Step(k, at, None)
    BY <1>2 DEF FindExisting
  <2>2. UNCHANGED << places, made >> BY <1>2 DEF FindExisting, Data
  <2>. QED BY <1>2, <2>1, <2>2, PlaceFound, StageReached
<1>3. CASE FindConflict(k)
  <2>1. PICK at \in {"writing", "deleting"}, p \in PlaceIds \cup {None} :
          Step(k, at, p)
    BY <1>3 DEF FindConflict, Having
  <2>2. UNCHANGED << places, made >> BY <1>3 DEF FindConflict, Data
  <2>. QED BY <1>3, <2>1, <2>2, ConflictFound, StageReached
<1>4. CASE DeleteConflict(k)
  <2>1. PICK at \in {"error", "writing"}, p \in {None, requests[k].seen} :
          Step(k, at, p)
    BY <1>4 DEF DeleteConflict
  <2>2. UNCHANGED << places, made >> BY <1>4 DEF DeleteConflict, Data
  <2>. QED BY <1>4, <2>1, <2>2, ConflictDeleted, StageReached
<1>5. CASE UpdatePlace(k)
  <2>1. PICK at \in {"error", "ok"} : Step(k, at, None)
    BY <1>5 DEF UpdatePlace
  <2>. QED BY <1>5, <2>1, PlaceUpdated, StageReached
<1>6. CASE Delete(k)
  <2>1. PICK at \in {"refused", "ok"} : Step(k, at, None)
    BY <1>6 DEF Delete
  <2>. QED BY <1>6, <2>1, PlaceDeleted, StageReached
<1>7. CASE CheckCity(k)
  <2>1. PICK at \in {"found", "refused"} : Step(k, at, None)
    BY <1>7 DEF CheckCity
  <2>. QED BY <1>7, <2>1, CityChecked, StageReached
<1>8. CASE GetProfile(k)
  <2>1. /\ requests \in Seq(Request) /\ Running \subseteq DOMAIN requests
        /\ requests' = [requests EXCEPT ![k].at = "writing",
                          ![k].read = profile[requests[k].rider]]
    BY <1>8, AccountTypes DEF GetProfile, Running
  <2>2. \A i \in Running \ {k} : requests'[i] = requests[i] BY <2>1
  <2>. QED BY <1>8, <2>2, ProfileRead
<1>9. CASE WriteProfile(k)
  <2>1. Step(k, "ok", None) BY <1>9 DEF WriteProfile
  <2>. QED BY <1>9, <2>1, ProfileWritten, StageReached
<1>10. CASE Fail(k) \/ Abort(k)
  <2>1. Step(k, "error", None) /\ UNCHANGED Data
    BY <1>10 DEF Abort, Fail
  <2>2. AccountInv' BY <2>1, RequestEnds
  <2>. QED BY <2>1, <2>2, StageReached DEF Data
<1>. QED
  BY <1>1, <1>2, <1>3, <1>4, <1>5, <1>6, <1>7, <1>8, <1>9, <1>10 DEF Query

LEMMA AccountStarts == Init => AccountInv
<1> SUFFICES ASSUME Init PROVE AccountInv OBVIOUS
<1>1. /\ places \in [PlaceIds -> Book!Place \cup {None}]
      /\ \A p \in PlaceIds : p > made => places[p] = None
      /\ \A p \in PlaceIds : places[p] # None =>
           Book!InTheWay(places, p, places[p].rider, places[p].designation) = {}
  BY PastAssumption DEF Init
<1>2. made \in 0 .. MaxPlaces BY AccountAssumption DEF Init
<1>3. profile \in [Riders -> Profile] BY AccountAssumption DEF Init, Profile
<1>4. /\ requests = << >> /\ lost = {} /\ DOMAIN requests = {}
      /\ requests \in Seq(Request) /\ Len(requests) <= MaxRequests
  BY AccountAssumption DEF Init
<1>5. TypeOK BY <1>1, <1>2, <1>3, <1>4 DEF TypeOK
<1>6. Book!OneEach BY <1>1 DEF Book!OneEach, PlaceIds
<1>7. Running = {} BY <1>4 DEF Running
<1>. QED
  BY <1>4, <1>5, <1>6, <1>7 DEF AccountInv, LocksOK, LostOnlyToOverlap

\* What OneOperationAtATime says of a step.
OneOperation ==
  LET done == {k \in Running : requests'[k].at = "ok"}
  IN /\ \A k \in done : Promised(k)
     /\ done = {} => UNCHANGED << places, made >>

LEMMA AccountGoesOn ==
  ASSUME AccountInv, Next PROVE AccountInv' /\ OneOperation
<1>1. ASSUME NEW r \in Callers, NEW p \in PlaceIds \cup {None},
             NEW d \in Designation,
             NEW op \in {"save", "update", "delete", "profile"},
             NEW sends \in SUBSET Fields, Arrive(r, op, p, d, sends)
      PROVE  AccountInv' /\ OneOperation
  BY <1>1, RequestArrives DEF OneOperation
<1>2. ASSUME NEW k \in Running, Query(k) \/ Fail(k) \/ Abort(k)
      PROVE  AccountInv' /\ OneOperation
  <2>1. /\ AccountInv' /\ (requests'[k].at = "ok" => Promised(k))
        /\ (requests'[k].at # "ok" => UNCHANGED << places, made >>)
        /\ \A i \in Running \ {k} : requests'[i] = requests[i]
    BY <1>2, RequestGoesOn
  <2>2. \A i \in Running : requests[i].at # "ok"
    BY DEF Running, Answered, Outcome
  <2>. QED BY <2>1, <2>2 DEF OneOperation
<1>. QED BY <1>1, <1>2 DEF Next

LEMMA AccountStays == AccountInv /\ UNCHANGED vars => AccountInv'
BY DEF vars, AccountInv, TypeOK, Answered, Running, Book!OneEach,
       Book!InTheWay, Book!Holds, UpdateOK, OwnedBy, MovedBy, Overlap, LocksOK,
       Deleting, LostOnlyToOverlap

LEMMA AccountIsInductive == Spec => []AccountInv
<1>1. AccountInv /\ [Next]_vars => AccountInv'
  BY AccountGoesOn, AccountStays
<1>. QED BY <1>1, AccountStarts, PTL DEF Spec

-----------------------------------------------------------------------------
(***************************************************************************)
(* What a rider has sent stands.                                           *)
(***************************************************************************)

\* The updates of a profile that have been written.
Written(i) == requests[i].op = "profile" /\ requests[i].at = "ok"

\* The updates that have read a profile and not written it.
Holding(i) == requests[i].op = "profile" /\ requests[i].at = "writing"

\* Another written update of the rider of i.
Rival(j, i) ==
  j # i /\ Written(j) /\ requests[j].rider = requests[i].rider

\* The value v of f is what i sent, or was sent by one not before i, or one that
\* overlapped i has written back what it had read.
Stands(i, f, v) ==
  \/ v = i
  \/ v \in DOMAIN requests /\ Rival(v, i) /\ Resent(v, i, f)
  \/ \E j \in DOMAIN requests : Rival(j, i) /\ BroughtBack(j, i, f)

\* What was sent is in the profile, and in what later requests have read of it.
ProfileInv ==
  \A i \in DOMAIN requests : Written(i) =>
    \A f \in requests[i].sends :
      /\ Stands(i, f, profile[requests[i].rider][f])
      /\ \A j \in DOMAIN requests :
           /\ Holding(j) /\ requests[j].rider = requests[i].rider
           /\ i \in requests[j].after
           => Stands(i, f, requests[j].read[f])

\* What stands does so whatever else is written.
LEMMA WhatStandsStays ==
  ASSUME DOMAIN requests \subseteq DOMAIN requests',
         \A i \in DOMAIN requests : Written(i) => requests'[i] = requests[i],
         NEW i \in DOMAIN requests, Written(i), NEW f
  PROVE  \A v : Stands(i, f, v) => Stands(i, f, v)'
<1>1. ASSUME NEW j \in DOMAIN requests, Rival(j, i)
      PROVE  /\ Rival(j, i)'
             /\ Resent(j, i, f) => Resent(j, i, f)'
             /\ BroughtBack(j, i, f) => BroughtBack(j, i, f)'
  BY <1>1 DEF Rival, Written, Overlap, Resent, BroughtBack
<1>. QED BY <1>1 DEF Stands

\* A step that neither reads nor writes a profile.
LEMMA ProfilesAside ==
  ASSUME ProfileInv, UNCHANGED profile, DOMAIN requests \subseteq DOMAIN requests',
         \A i \in DOMAIN requests : Written(i) => requests'[i] = requests[i],
         \A i \in DOMAIN requests' : Written(i)' \/ Holding(i)' =>
           i \in DOMAIN requests /\ requests'[i] = requests[i]
  PROVE  ProfileInv'
<1>1. ASSUME NEW i \in DOMAIN requests', Written(i)', NEW f \in requests'[i].sends
      PROVE  /\ Stands(i, f, profile[requests[i].rider][f])'
             /\ \A j \in DOMAIN requests' :
                  /\ Holding(j)' /\ requests'[j].rider = requests'[i].rider
                  /\ i \in requests'[j].after
                  => Stands(i, f, requests[j].read[f])'
  <2>1. i \in DOMAIN requests /\ requests'[i] = requests[i] /\ Written(i)
    BY <1>1 DEF Written
  <2>2. Stands(i, f, profile[requests[i].rider][f])
    BY <1>1, <2>1 DEF ProfileInv
  <2>3. ASSUME NEW v, Stands(i, f, v) PROVE Stands(i, f, v)'
    BY <2>1, <2>3, WhatStandsStays
  <2>4. ASSUME NEW j \in DOMAIN requests', Holding(j)',
               requests'[j].rider = requests'[i].rider, i \in requests'[j].after
        PROVE  Stands(i, f, requests[j].read[f])'
    <3>1. j \in DOMAIN requests /\ requests'[j] = requests[j] /\ Holding(j)
      BY <2>4 DEF Holding
    <3>2. Stands(i, f, requests[j].read[f])
      BY <1>1, <2>1, <2>4, <3>1 DEF ProfileInv
    <3>. QED BY <2>3, <3>1, <3>2 DEF Stands
  <2>5. Stands(i, f, profile[requests[i].rider][f])'
    BY <2>1, <2>2, <2>3 DEF Stands
  <2>. QED BY <2>4, <2>5
<1>. QED BY <1>1 DEF ProfileInv

\* The read of a profile finds what stands in it.
LEMMA ReadFindsWhatStands ==
  ASSUME AccountInv, ProfileInv, NEW k \in Running, GetProfile(k)
  PROVE  ProfileInv'
<1> DEFINE c == [requests[k] EXCEPT !.at = "writing",
                                   !.read = profile[requests[k].rider]]
<1>1. /\ requests[k] \in Request /\ DOMAIN requests' = DOMAIN requests
      /\ k \in DOMAIN requests /\ requests'[k] = c /\ profile' = profile
      /\ \A i \in DOMAIN requests \ {k} : requests'[i] = requests[i]
  BY AccountTypes DEF GetProfile, Data, TypeOK
<1>2. /\ c.at = "writing" /\ c.read = profile[requests[k].rider]
      /\ c.rider = requests[k].rider /\ c.after = requests[k].after
  BY <1>1 DEF Request
<1>3. ~Written(k) /\ ~Written(k)'
  BY <1>1, <1>2 DEF Written, Running, Answered, Outcome
<1>4. ASSUME NEW i \in DOMAIN requests', Written(i)', NEW f \in requests'[i].sends
      PROVE  /\ Stands(i, f, profile[requests[i].rider][f])'
             /\ \A j \in DOMAIN requests' :
                  /\ Holding(j)' /\ requests'[j].rider = requests'[i].rider
                  /\ i \in requests'[j].after
                  => Stands(i, f, requests[j].read[f])'
  <2>1. /\ i \in DOMAIN requests /\ i # k /\ requests'[i] = requests[i]
        /\ Written(i)
    BY <1>1, <1>3, <1>4 DEF Written
  <2>2. ASSUME NEW v, Stands(i, f, v) PROVE Stands(i, f, v)'
    BY <1>1, <1>3, <2>1, <2>2, WhatStandsStays
  <2>3. Stands(i, f, profile[requests[i].rider][f])
    BY <1>4, <2>1 DEF ProfileInv
  <2>4. Stands(i, f, profile[requests[i].rider][f])'
    BY <1>1, <2>1, <2>2, <2>3 DEF Stands
  <2>5. ASSUME NEW j \in DOMAIN requests', Holding(j)',
               requests'[j].rider = requests'[i].rider, i \in requests'[j].after
        PROVE  Stands(i, f, requests[j].read[f])'
    <3>1. CASE j = k
      BY <1>1, <1>2, <2>1, <2>4, <2>5, <3>1 DEF Stands
    <3>2. CASE j # k
      <4>1. /\ j \in DOMAIN requests /\ requests'[j] = requests[j] /\ Holding(j)
        BY <1>1, <2>5, <3>2 DEF Holding
      <4>2. Stands(i, f, requests[j].read[f])
        BY <1>4, <2>1, <2>5, <4>1 DEF ProfileInv
      <4>. QED BY <2>2, <4>1, <4>2 DEF Stands
    <3>. QED BY <3>1, <3>2
  <2>. QED BY <2>4, <2>5
<1>. QED BY <1>4 DEF ProfileInv

\* The write keeps what stood when it read, unless it sends the field anew.
LEMMA WriteKeepsWhatStands ==
  ASSUME AccountInv, ProfileInv, NEW k \in Running, WriteProfile(k)
  PROVE  ProfileInv'
<1> DEFINE r == requests[k].rider
           c == [requests[k] EXCEPT !.at = "ok", !.seen = None, !.read = None]
<1>1. /\ requests[k] \in Request /\ DOMAIN requests' = DOMAIN requests
      /\ k \in DOMAIN requests /\ requests'[k] = c
      /\ \A i \in DOMAIN requests \ {k} : requests'[i] = requests[i]
      /\ profile \in [Riders -> Profile] /\ None \notin Nat
  BY AccountTypes DEF WriteProfile, Step
<1>2. /\ c.at = "ok" /\ c.op = requests[k].op /\ c.sends = requests[k].sends
      /\ c.rider = r /\ c.after = requests[k].after
      /\ r \in Riders /\ requests[k].sends \subseteq Fields
  BY <1>1 DEF Request
<1> HIDE DEF c
<1>3. /\ Holding(k) /\ ~Written(k) /\ Written(k)' /\ ~Holding(k)'
  BY <1>1, <1>2 DEF Written, Holding, WriteProfile
<1>4. /\ profile'[r] = Merged(k)
      /\ \A q \in Riders \ {r} : profile'[q] = profile[q]
  BY <1>1, <1>2 DEF WriteProfile
<1>5. ASSUME NEW i \in DOMAIN requests', Written(i)', NEW f \in requests'[i].sends
      PROVE  /\ Stands(i, f, profile[requests[i].rider][f])'
             /\ \A j \in DOMAIN requests' :
                  /\ Holding(j)' /\ requests'[j].rider = requests'[i].rider
                  /\ i \in requests'[j].after
                  => Stands(i, f, requests[j].read[f])'
  <2>1. CASE i = k
    <3>1. profile'[r][f] = k
      BY <1>1, <1>2, <1>4, <1>5, <2>1 DEF Merged
    <3>2. ASSUME NEW j \in DOMAIN requests', Holding(j)'
          PROVE  k \notin requests'[j].after
      <4>1. j # k /\ j \in DOMAIN requests /\ requests'[j] = requests[j]
        BY <1>1, <1>3, <3>2
      <4>2. requests[j].after \subseteq Answered BY <4>1 DEF AccountInv
      <4>. QED BY <4>1, <4>2 DEF Running
    <3>. QED BY <1>1, <1>2, <2>1, <3>1, <3>2 DEF Stands
  <2>2. CASE i # k
    <3>1. i \in DOMAIN requests /\ requests'[i] = requests[i] /\ Written(i)
      BY <1>1, <1>5, <2>2 DEF Written
    <3>2. \A v : Stands(i, f, v) => Stands(i, f, v)'
      BY <1>1, <1>3, <3>1, WhatStandsStays
    <3>3. /\ requests[i] \in Request /\ requests[i].rider \in Riders
          /\ f \in Fields /\ f \in requests[i].sends
      <4>1. requests[i] \in Request BY <3>1 DEF AccountInv, TypeOK
      <4>. QED BY <1>5, <3>1, <4>1 DEF Request
    <3>4. Stands(i, f, profile[requests[i].rider][f])'
      <4>1. CASE requests[i].rider # r
        <5>1. Stands(i, f, profile[requests[i].rider][f])
          BY <3>1, <3>3 DEF ProfileInv
        <5>2. profile'[requests'[i].rider] = profile[requests[i].rider]
          BY <1>4, <3>1, <3>3, <4>1
        <5>. QED BY <1>1, <3>2, <5>1, <5>2 DEF Stands
      <4>2. CASE requests[i].rider = r
        <5>1. Rival(k, i)' BY <1>1, <1>2, <1>3, <2>2, <3>1, <4>2 DEF Rival
        <5>2. k \notin requests'[i].after
          <6>1. requests[i].after \subseteq Answered BY <3>1 DEF AccountInv
          <6>. QED BY <3>1, <6>1 DEF Running
        <5>3. CASE f \in requests[k].sends
          <6>1. profile'[requests'[i].rider][f] = k
            BY <1>4, <3>1, <3>3, <4>2, <5>3 DEF Merged
          <6>2. Resent(k, i, f)' BY <1>1, <1>2, <5>2, <5>3 DEF Resent
          <6>. QED BY <1>1, <5>1, <6>1, <6>2 DEF Stands
        <5>4. CASE f \notin requests[k].sends /\ i \notin requests[k].after
          <6>1. BroughtBack(k, i, f)'
            BY <1>1, <1>2, <2>2, <5>2, <5>4 DEF BroughtBack, Overlap
          <6>. QED BY <1>1, <5>1, <6>1 DEF Stands
        <5>5. CASE f \notin requests[k].sends /\ i \in requests[k].after
          <6>1. Stands(i, f, requests[k].read[f])
            BY <1>1, <1>3, <3>1, <3>3, <4>2, <5>5 DEF ProfileInv
          <6>2. profile'[requests'[i].rider][f] = requests[k].read[f]
            BY <1>4, <3>1, <3>3, <4>2, <5>5 DEF Merged
          <6>. QED BY <1>1, <3>2, <6>1, <6>2 DEF Stands
        <5>. QED BY <5>3, <5>4, <5>5
      <4>. QED BY <4>1, <4>2
    <3>5. ASSUME NEW j \in DOMAIN requests', Holding(j)',
                 requests'[j].rider = requests'[i].rider, i \in requests'[j].after
          PROVE  Stands(i, f, requests[j].read[f])'
      <4>1. /\ j # k /\ j \in DOMAIN requests /\ requests'[j] = requests[j]
            /\ Holding(j)
        BY <1>1, <1>3, <3>5 DEF Holding
      <4>2. Stands(i, f, requests[j].read[f])
        BY <3>1, <3>3, <3>5, <4>1 DEF ProfileInv
      <4>. QED BY <3>2, <4>1, <4>2 DEF Stands
    <3>. QED BY <3>4, <3>5
  <2>. QED BY <2>1, <2>2
<1>. QED BY <1>5 DEF ProfileInv

\* Every other step leaves the profiles, and who holds what of them, alone.
LEMMA OtherStepsAreAside ==
  ASSUME AccountInv, ProfileInv, NEW k \in Running,
         NEW at \in Stage, NEW seen, Step(k, at, seen), UNCHANGED profile,
         requests[k].op = "profile" => at \notin {"writing", "ok"}
  PROVE  ProfileInv'
<1>1. /\ requests[k] \in Request /\ DOMAIN requests' = DOMAIN requests
      /\ k \in DOMAIN requests
      /\ \A i \in DOMAIN requests \ {k} : requests'[i] = requests[i]
  BY AccountTypes DEF Step
<1>2. requests'[k].at = at /\ (at \in {"writing", "ok"} =>
                                 requests'[k].op = requests[k].op)
  BY <1>1, AccountTypes DEF Step, Ended, Request
<1>3. ~Written(k) BY DEF Written, Running, Answered, Outcome
<1>4. ~Written(k)' /\ ~Holding(k)'
  BY <1>2 DEF Written, Holding
<1>. QED BY <1>1, <1>3, <1>4, ProfilesAside

LEMMA ProfilesGoOn ==
  ASSUME AccountInv, ProfileInv, Next PROVE ProfileInv'
<1>1. ASSUME NEW r \in Callers, NEW p \in PlaceIds \cup {None},
             NEW d \in Designation,
             NEW op \in {"save", "update", "delete", "profile"},
             NEW sends \in SUBSET Fields, Arrive(r, op, p, d, sends)
      PROVE  ProfileInv'
  <2> DEFINE q == [ op |-> op, rider |-> r, place |-> p, designation |-> d,
                    sends |-> sends, at |-> "start", seen |-> None,
                    read |-> None, after |-> Answered ]
             n == Len(requests) + 1
  <2>1. requests \in Seq(Request) /\ UNCHANGED profile
    BY <1>1 DEF AccountInv, TypeOK, Arrive, Data
  <2>2. PICK c \in {q, Ended(q, "refused")} : requests' = Append(requests, c)
    BY <1>1 DEF Arrive
  <2>3. c.at \in {"start", "refused"}
    <3>1. q.at = "start" /\ Ended(q, "refused").at = "refused" BY DEF Ended
    <3>. QED BY <2>2, <3>1
  <2>4. /\ DOMAIN requests' = DOMAIN requests \cup {n} /\ requests'[n] = c
        /\ \A i \in DOMAIN requests : requests'[i] = requests[i]
    BY <2>1, <2>2
  <2>. QED BY <2>1, <2>3, <2>4, ProfilesAside DEF Written, Holding
<1>2. ASSUME NEW k \in Running, Query(k) \/ Fail(k) \/ Abort(k)
      PROVE  ProfileInv'
  <2>1. requests[k].op = "profile" =>
          ~(Save(k) \/ FindExisting(k) \/ FindConflict(k) \/ DeleteConflict(k)
            \/ UpdatePlace(k) \/ Delete(k))
    BY DEF Save, FindExisting, FindConflict, DeleteConflict, UpdatePlace, Delete
  <2>2. CASE Save(k) \/ FindExisting(k) \/ FindConflict(k)
             \/ DeleteConflict(k) \/ UpdatePlace(k) \/ Delete(k)
    <3>1. PICK at \in Stage, seen \in PlaceIds \cup {None, requests[k].seen} :
            Step(k, at, seen)
      BY <2>2, Stages
         DEF Save, FindExisting, FindConflict, DeleteConflict, UpdatePlace,
             Delete, Having
    <3>2. UNCHANGED profile
      BY <2>2 DEF Save, FindExisting, FindConflict, DeleteConflict, UpdatePlace,
                  Delete, Data
    <3>. QED BY <2>1, <2>2, <3>1, <3>2, OtherStepsAreAside
  <2>3. CASE CheckCity(k)
    <3>1. PICK at \in {"found", "refused"} : Step(k, at, None)
      BY <2>3 DEF CheckCity
    <3>. QED BY <2>3, <3>1, Stages, OtherStepsAreAside DEF CheckCity, Data
  <2>4. CASE GetProfile(k) BY <2>4, ReadFindsWhatStands
  <2>5. CASE WriteProfile(k) BY <2>5, WriteKeepsWhatStands
  <2>6. CASE Fail(k) \/ Abort(k)
    <3>1. Step(k, "error", None) /\ UNCHANGED profile
      BY <2>6 DEF Abort, Fail, Data
    <3>. QED BY <3>1, Stages, OtherStepsAreAside
  <2>. QED BY <1>2, <2>2, <2>3, <2>4, <2>5, <2>6 DEF Query
<1>. QED BY <1>1, <1>2 DEF Next

-----------------------------------------------------------------------------
(***************************************************************************)
(* Theorems.                                                               *)
(***************************************************************************)

\* Places, profiles and requests have their types.
THEOREM AccountTypesHold == Spec => []TypeOK
<1>1. AccountInv => TypeOK BY DEF AccountInv
<1>. QED BY <1>1, AccountIsInductive, PTL

\* However the statements of any number of requests interleave, fail and are
\* undone, each one answered with success has done its operation of PlaceBook at
\* that moment, and the places never change otherwise.
THEOREM RequestsAreAtomic == Spec => OneOperationAtATime
<1>1. AccountInv /\ [Next]_vars =>
        [LET done == {k \in Running : requests'[k].at = "ok"}
         IN /\ \A k \in done : Promised(k)
            /\ done = {} => UNCHANGED << places, made >>]_vars
  BY AccountGoesOn DEF OneOperation
<1>. QED BY <1>1, AccountIsInductive, PTL DEF Spec, OneOperationAtATime

\* Only a request that overlapped the update can have moved the place it lost.
THEOREM PlacesAreLostToOverlap == Spec => []LostOnlyToOverlap
<1>1. AccountInv => LostOnlyToOverlap BY DEF AccountInv
<1>. QED BY <1>1, AccountIsInductive, PTL

\* A rider never has two places with one designation.
THEOREM OneHomeOneWork == Spec => []Book!OneEach
<1>1. AccountInv => Book!OneEach BY DEF AccountInv
<1>. QED BY <1>1, AccountIsInductive, PTL

\* A field of a profile that was sent with success holds that, or what an update
\* not before it sent, unless an update that overlapped and left it out has
\* written back what it had read.
THEOREM SentFieldsStand == Spec => []FieldsComeBackByOverlap
<1>1. Init => ProfileInv BY DEF Init, ProfileInv
<1>2. AccountInv /\ ProfileInv /\ [Next]_vars => ProfileInv'
  <2>1. ProfileInv /\ UNCHANGED vars => ProfileInv'
    BY DEF vars, ProfileInv, Stands, Rival, Resent, BroughtBack, Written,
           Holding, Overlap
  <2>. QED BY <2>1, ProfilesGoOn
<1>3. ProfileInv => FieldsComeBackByOverlap
  BY DEF ProfileInv, FieldsComeBackByOverlap, Stands, Rival, Written
<1>. QED BY <1>1, <1>2, <1>3, AccountIsInductive, PTL DEF Spec
=============================================================================
