-------------------------- MODULE RiderScreenProofs --------------------------
(***************************************************************************)
(* What RiderScreen keeps for any rides of the rider, any states of them   *)
(* and any number of events underway: its types, and that a screen that    *)
(* is not in doubt is informed.                                            *)
(***************************************************************************)
EXTENDS RiderScreen, FiniteSetTheorems, SequenceTheorems, TLAPS

-----------------------------------------------------------------------------
(***************************************************************************)
(* Types.                                                                  *)
(***************************************************************************)

LEMMA WithoutOne ==
  ASSUME NEW S, NEW s \in Seq(S), NEW i \in DOMAIN s
  PROVE  /\ Without(s, i) \in Seq(S) /\ Len(Without(s, i)) = Len(s) - 1
         /\ \A j \in 1 .. Len(s) - 1 :
              Without(s, i)[j] = IF j < i THEN s[j] ELSE s[j + 1]
<1> DEFINE n == Len(s)
<1>1. n \in Nat /\ i \in 1 .. n /\ DOMAIN s = 1 .. n
  OBVIOUS
<1>2. PICK a : a = SubSeq(s, 1, i - 1)
  OBVIOUS
<1>3. PICK b : b = SubSeq(s, i + 1, n)
  OBVIOUS
<1>4. a \in Seq(S) /\ Len(a) = i - 1 /\ \A j \in 1 .. i - 1 : a[j] = s[j]
  BY <1>1, <1>2
<1>5. b \in Seq(S) /\ Len(b) = n - i /\ \A j \in 1 .. n - i : b[j] = s[i + j]
  BY <1>1, <1>3
<1>6. PICK c : c = a \o b
  OBVIOUS
<1>7. /\ c \in Seq(S) /\ Len(c) = n - 1
      /\ \A j \in 1 .. n - 1 : c[j] = IF j < i THEN a[j] ELSE b[j - (i - 1)]
  <2>1. Len(a) + Len(b) = n - 1
    BY <1>1, <1>4, <1>5
  <2>2. c \in Seq(S) /\ Len(c) = Len(a) + Len(b)
        /\ \A j \in 1 .. Len(a) + Len(b) :
             c[j] = IF j <= Len(a) THEN a[j] ELSE b[j - Len(a)]
    BY <1>4, <1>5, <1>6, ConcatProperties
  <2>3. \A j \in 1 .. n - 1 : j < i <=> j <= Len(a)
    BY <1>1, <1>4
  <2>4. QED
    BY <1>4, <2>1, <2>2, <2>3
<1>8. ASSUME NEW j \in 1 .. n - 1 PROVE c[j] = IF j < i THEN s[j] ELSE s[j + 1]
  <2>1. CASE j < i
    BY <1>1, <1>4, <1>7, <2>1
  <2>2. CASE ~(j < i)
    <3>1. j - (i - 1) \in 1 .. n - i /\ i + (j - (i - 1)) = j + 1
      BY <1>1, <2>2
    <3>2. QED
      BY <1>5, <1>7, <2>2, <3>1
  <2>3. QED
    BY <2>1, <2>2
<1>9. QED
  BY <1>2, <1>3, <1>6, <1>7, <1>8 DEF Without

Doubts == [screen : BOOLEAN, booking : [Rides -> BOOLEAN], restoring : BOOLEAN]
Booking == [phase : Phase, card : Card \cup {None}]

LEMMA DoubtIsTyped ==
  ASSUME doubt \in Doubts, NEW cards
  PROVE  Doubt(cards) \in Doubts
BY DEF Doubt, Doubts

LEMMA RidesOfCards ==
  ASSUME TypeOK, NEW r \in Rides, ride[r] # NotBooked
  PROVE  [id |-> r, state |-> ride[r]] \in Card
BY DEF TypeOK, Card

LEMMA BookedRides ==
  Cardinality({q \in Rides : ride[q] # NotBooked}) \in 0 .. Cardinality(Rides)
<1>1. {q \in Rides : ride[q] # NotBooked} \in SUBSET Rides
  OBVIOUS
<1>2. QED
  BY <1>1, BoundAssumption, FS_Subset, FS_CardinalityType

\* The calls of the app.
LEMMA CallsAreTyped ==
  ASSUME TypeOK,
         \/ DismissSheet \/ Confirm \/ Cancel \/ RestoreAnswered \/ RestoreFails
         \/ \E r \in Rides : \/ OpenSheet(r) \/ BookingAnswered(r) \/ BookingFails(r)
                            \/ CancelAnswered(r) \/ CancelFails(r)
  PROVE  TypeOK'
<1> USE DEF server, screen, calls, network
<1>1. CASE DismissSheet \/ Confirm \/ Cancel
  <2>1. CASE DismissSheet
    BY <2>1 DEF TypeOK, DismissSheet
  <2>2. CASE Confirm
    <3>1. sheet \in Rides /\ booking' = [booking EXCEPT ![sheet].phase = "asked"]
      BY <2>2 DEF TypeOK, Confirm
    <3>2. booking' \in [Rides -> Booking]
      BY <3>1 DEF TypeOK, Booking, Phase
    <3>3. QED
      BY <2>2, <3>2 DEF TypeOK, Confirm, Booking
  <2>3. CASE Cancel
    <3>1. shown.id \in Rides
      BY <2>3 DEF TypeOK, Cancel, Card
    <3>2. cancelling' \in [Rides -> Phase]
      BY <2>3, <3>1 DEF TypeOK, Cancel, Phase
    <3>3. QED
      BY <2>3, <3>2 DEF TypeOK, Cancel
  <2>4. QED
    BY <1>1, <2>1, <2>2, <2>3
<1>2. CASE RestoreAnswered
  <2>1. restoring.card = None \/ restoring.card \in Card
    BY DEF TypeOK
  <2>2. CASE restoring.card = None
    BY <1>2, <2>2 DEF TypeOK, RestoreAnswered, NoCall, Phase
  <2>3. CASE restoring.card # None
    <3>1. restoring.card.id \in Rides
      BY <2>1, <2>3 DEF Card
    <3>2. QED
      BY <1>2, <2>3, <3>1 DEF TypeOK, RestoreAnswered, NoCall, Phase
  <2>4. QED
    BY <2>2, <2>3
<1>3. CASE RestoreFails \/ \E r \in Rides : OpenSheet(r)
  <2>1. CASE RestoreFails
    <3>1. doubt' \in Doubts
      BY <2>1 DEF TypeOK, RestoreFails, Doubts
    <3>2. QED
      BY <2>1, <3>1 DEF TypeOK, RestoreFails, NoCall, Phase, Doubts
  <2>2. ASSUME NEW r \in Rides, OpenSheet(r) PROVE TypeOK'
    BY <2>2 DEF TypeOK, OpenSheet
  <2>3. QED
    BY <1>3, <2>1, <2>2
<1>4. ASSUME NEW r \in Rides, BookingAnswered(r)
      PROVE  TypeOK'
  <2>1. booking[r].card \in Card \cup {None}
    BY DEF TypeOK
  <2>2. doubt' \in Doubts
    BY <1>4 DEF TypeOK, BookingAnswered, Doubts
  <2>3. QED
    BY <1>4, <2>1, <2>2 DEF TypeOK, BookingAnswered, NoCall, Phase, Doubts
<1>5. ASSUME NEW r \in Rides, BookingFails(r)
      PROVE  TypeOK'
  BY <1>5 DEF TypeOK, BookingFails, NoCall, Phase
<1>6. ASSUME NEW r \in Rides, CancelAnswered(r) \/ CancelFails(r)
      PROVE  TypeOK'
  BY <1>6 DEF TypeOK, CancelAnswered, CancelFails, Phase
<1>7. QED
  BY <1>1, <1>2, <1>3, <1>4, <1>5, <1>6

\* The server.
LEMMA ServedIsTyped ==
  ASSUME TypeOK,
         \/ ServeRestore
         \/ \E r \in Rides : ServeBooking(r) \/ ServeCancel(r) \/ Claimed(r) \/ DriverMoves(r)
  PROVE  TypeOK'
<1> USE DEF server, screen, calls, network
<1>0. /\ pending \in Seq(Card) /\ events \in Seq(Card)
      /\ Len(pending) + Len(events) <= MaxEvents /\ MaxEvents \in Nat
  BY BoundAssumption DEF TypeOK
<1>1. ASSUME NEW e \in Card, HasRoom, pending' = Append(pending, e), UNCHANGED events
      PROVE  /\ pending' \in Seq(Card) /\ events' \in Seq(Card)
             /\ Len(pending') + Len(events') <= MaxEvents
  BY <1>0, <1>1 DEF HasRoom
<1>2. ASSUME NEW r \in Rides, ServeBooking(r)
      PROVE  TypeOK'
  <2>1. CASE /\ ride[r] = NotBooked /\ HasRoom
             /\ ride' = [ride EXCEPT ![r] = "requested"]
             /\ bookedAt' = [bookedAt EXCEPT ![r] =
                  Cardinality({ q \in Rides : ride[q] # NotBooked })]
             /\ pending' = Append(pending, [id |-> r, state |-> "requested"])
             /\ UNCHANGED doubt
    <3>1. [id |-> r, state |-> "requested"] \in Card
      BY VisitedAssumption DEF Card
    <3>2. /\ pending' \in Seq(Card) /\ events' \in Seq(Card)
          /\ Len(pending') + Len(events') <= MaxEvents
      BY <1>1, <1>2, <2>1, <3>1 DEF ServeBooking
    <3>3. ride' \in [Rides -> Visited \cup {NotBooked}] /\ ride'[r] = "requested"
      BY <2>1, VisitedAssumption DEF TypeOK
    <3>4. bookedAt' \in [Rides -> 0 .. Cardinality(Rides)]
      BY <2>1, BookedRides DEF TypeOK
    <3>5. booking' \in [Rides -> Booking]
      BY <1>2, <3>1, <3>3 DEF TypeOK, ServeBooking, Phase, Booking
    <3>6. QED
      BY <1>2, <2>1, <3>2, <3>3, <3>4, <3>5 DEF TypeOK, ServeBooking, Booking
  <2>2. CASE /\ ride[r] # NotBooked
             /\ doubt' = [doubt EXCEPT !.booking[r] = Doubtful(r, ride[r])]
             /\ \/ UNCHANGED pending
                \/ /\ HasRoom
                   /\ pending' = Append(pending, [id |-> r, state |-> ride[r]])
             /\ UNCHANGED server
    <3>1. [id |-> r, state |-> ride[r]] \in Card /\ ride' = ride
      BY <2>2, RidesOfCards
    <3>2. /\ pending' \in Seq(Card) /\ events' \in Seq(Card)
          /\ Len(pending') + Len(events') <= MaxEvents
      <4>1. UNCHANGED events
        BY <1>2 DEF ServeBooking
      <4>2. QED
        BY <1>0, <1>1, <2>2, <3>1, <4>1
    <3>3. Doubtful(r, ride[r]) \in BOOLEAN
      BY DEF Doubtful
    <3>4. doubt' \in Doubts
      BY <2>2, <3>3 DEF TypeOK, Doubts
    <3>5. booking' \in [Rides -> Booking]
      BY <1>2, <3>1 DEF TypeOK, ServeBooking, Phase, Booking
    <3>6. QED
      BY <1>2, <2>2, <3>2, <3>4, <3>5 DEF TypeOK, ServeBooking, Booking, Doubts
  <2>3. QED
    BY <1>2, <2>1, <2>2 DEF ServeBooking
<1>3. ASSUME NEW r \in Rides, ServeCancel(r)
      PROVE  TypeOK'
  <2>1. [id |-> r, state |-> "cancelled_by_rider"] \in Card
    BY VisitedAssumption DEF Card
  <2>2. /\ pending' \in Seq(Card) /\ events' \in Seq(Card)
        /\ Len(pending') + Len(events') <= MaxEvents
    BY <1>1, <1>3, <2>1 DEF ServeCancel, Commit
  <2>3. ride' \in [Rides -> Visited \cup {NotBooked}] /\ cancelling' \in [Rides -> Phase]
    BY <1>3, VisitedAssumption DEF TypeOK, ServeCancel, Commit, Phase
  <2>4. QED
    BY <1>3, <2>2, <2>3 DEF TypeOK, ServeCancel
<1>4. CASE ServeRestore
  <2>1. CASE Open = {} /\ restoring' = [phase |-> "answered", card |-> None]
             /\ UNCHANGED doubt
    BY <1>4, <2>1 DEF TypeOK, ServeRestore, Phase
  <2>2. CASE \E q \in Open :
               /\ restoring' = [phase |-> "answered",
                                card |-> [id |-> q, state |-> ride[q]]]
               /\ doubt' = [doubt EXCEPT !.restoring = Doubtful(q, ride[q])]
    <3>1. PICK q \in Open :
               /\ restoring' = [phase |-> "answered",
                                card |-> [id |-> q, state |-> ride[q]]]
               /\ doubt' = [doubt EXCEPT !.restoring = Doubtful(q, ride[q])]
      BY <2>2
    <3>2. [id |-> q, state |-> ride[q]] \in Card /\ Doubtful(q, ride[q]) \in BOOLEAN
      BY RidesOfCards DEF Open, Doubtful
    <3>3. restoring' \in Booking /\ doubt' \in Doubts
      BY <3>1, <3>2 DEF TypeOK, Phase, Booking, Doubts
    <3>4. QED
      BY <1>4, <3>3 DEF TypeOK, ServeRestore, Booking, Doubts
  <2>3. QED
    BY <1>4, <2>1, <2>2 DEF ServeRestore
<1>5. ASSUME NEW r \in Rides, Claimed(r)
      PROVE  TypeOK'
  BY <1>5 DEF TypeOK, Claimed
<1>6. ASSUME NEW r \in Rides, DriverMoves(r)
      PROVE  TypeOK'
  <2>1. PICK to \in Visited : Commit(r, to)
    BY <1>6 DEF DriverMoves
  <2>2. [id |-> r, state |-> to] \in Card
    BY DEF Card
  <2>3. /\ pending' \in Seq(Card) /\ events' \in Seq(Card)
        /\ Len(pending') + Len(events') <= MaxEvents
    BY <1>1, <1>6, <2>1, <2>2 DEF DriverMoves, Commit
  <2>4. ride' \in [Rides -> Visited \cup {NotBooked}]
    BY <2>1 DEF TypeOK, Commit
  <2>5. QED
    BY <1>6, <2>3, <2>4 DEF TypeOK, DriverMoves
<1>7. QED
  BY <1>2, <1>3, <1>4, <1>5, <1>6

\* The events.
LEMMA EventsAreTyped ==
  ASSUME TypeOK,
         \/ Deliver \/ Restart \/ Connect \/ Disconnect
         \/ \E i \in DOMAIN pending : Publish(i) \/ PublishFails(i)
  PROVE  TypeOK'
<1> USE DEF server, screen, calls, network
<1>0. /\ pending \in Seq(Card) /\ events \in Seq(Card) /\ doubt \in Doubts
      /\ Len(pending) + Len(events) <= MaxEvents /\ MaxEvents \in Nat
  BY BoundAssumption DEF TypeOK, Doubts
<1>1. CASE Deliver
  <2>1. /\ Head(events) \in Card /\ events' \in Seq(Card) /\ Len(events') = Len(events) - 1
    BY <1>0, <1>1 DEF Deliver
  <2>2. doubt' \in Doubts
    BY <1>0, <1>1, DoubtIsTyped DEF Deliver, Doubts
  <2>3. shown' \in Card \cup {None} /\ destination' \in Rides \cup {None}
    BY <1>1, <2>1 DEF Deliver, TypeOK
  <2>4. UNCHANGED << server, sheet, calls, pending, connected >>
    BY <1>1 DEF Deliver
  <2>5. Len(pending') + Len(events') <= MaxEvents
    BY <1>0, <2>1, <2>4
  <2>6. QED
    BY <2>1, <2>2, <2>3, <2>4, <2>5 DEF TypeOK, Doubts
<1>2. CASE Restart
  <2>1. << >> \in Seq(Card) /\ Len(pending) + Len(<< >>) <= MaxEvents
    BY <1>0
  <2>2. QED
    BY <1>2, <2>1 DEF TypeOK, Restart, NoCall, NoDoubt, Phase
<1>3. CASE Connect
  BY <1>3 DEF TypeOK, Connect
<1>4. CASE Disconnect
  <2>1. << >> \in Seq(Card) /\ Len(pending) + Len(<< >>) <= MaxEvents
    BY <1>0
  <2>2. doubt' \in Doubts
    BY <1>0, <1>4, DoubtIsTyped DEF Disconnect
  <2>3. QED
    BY <1>4, <2>1, <2>2 DEF TypeOK, Disconnect, Doubts
<1>5. ASSUME NEW i \in DOMAIN pending, Publish(i) \/ PublishFails(i)
      PROVE  TypeOK'
  <2>1. pending[i] \in Card
    BY <1>0
  <2>2. pending' \in Seq(Card) /\ Len(pending') = Len(pending) - 1
    BY <1>0, <1>5, WithoutOne DEF Publish, PublishFails
  <2>3. events' \in Seq(Card) /\ Len(events') <= Len(events) + 1
    BY <1>0, <1>5, <2>1 DEF Publish, PublishFails
  <2>4. Len(pending') + Len(events') <= MaxEvents
    BY <1>0, <2>2, <2>3
  <2>5. doubt' \in Doubts
    <3>1. \E cards : doubt' = Doubt(cards)
      BY <1>5 DEF Publish, PublishFails
    <3>2. QED
      BY <1>0, <3>1, DoubtIsTyped
  <2>6. UNCHANGED << server, screen, calls, connected >>
    BY <1>5 DEF Publish, PublishFails
  <2>7. QED
    BY <2>2, <2>3, <2>4, <2>5, <2>6 DEF TypeOK, Doubts
<1>6. QED
  BY <1>1, <1>2, <1>3, <1>4, <1>5

LEMMA TypesStart == Init => TypeOK
<1>1. IsFiniteSet(Rides) /\ Cardinality(Rides) \in Nat /\ MaxEvents \in Nat
  BY BoundAssumption, FS_CardinalityType
<1> SUFFICES ASSUME Init PROVE TypeOK
  OBVIOUS
<1>2. bookedAt \in [Rides -> 0 .. Cardinality(Rides)]
  BY <1>1 DEF Init
<1>3. pending \in Seq(Card) /\ events \in Seq(Card) /\ Len(pending) + Len(events) <= MaxEvents
  BY <1>1 DEF Init
<1>4. booking \in [Rides -> Booking] /\ restoring \in Booking
      /\ cancelling \in [Rides -> Phase] /\ doubt \in Doubts
  BY DEF Init, NoCall, NoDoubt, Phase, Booking, Doubts
<1>5. QED
  BY <1>2, <1>3, <1>4 DEF Init, TypeOK, Booking, Doubts

LEMMA TypesGoOn == TypeOK /\ [Next]_vars => TypeOK'
<1> SUFFICES ASSUME TypeOK, [Next]_vars PROVE TypeOK'
  OBVIOUS
<1>1. CASE UNCHANGED vars
  BY <1>1 DEF vars, TypeOK
<1>2. CASE Next
  BY <1>2, CallsAreTyped, ServedIsTyped, EventsAreTyped DEF Next
<1>3. QED
  BY <1>1, <1>2

\* Every variable of the screen and of what it is told has its type: nothing is
\* published twice, and what is shown is a ride of the rider.
THEOREM RiderScreenIsTyped == Spec => []TypeOK
BY TypesStart, TypesGoOn, PTL DEF Spec

-----------------------------------------------------------------------------
(***************************************************************************)
(* The last event about a ride.                                            *)
(***************************************************************************)

LEMMA LastOne ==
  ASSUME NEW n \in Nat, NEW S \in SUBSET (1 .. n), S # {}
  PROVE  \E m \in S : \A k \in S : k <= m
<1> DEFINE Above(k) == k .. n
           F == {Above(k) : k \in S}
           R == StrictSubsetOrdering(1 .. n)
<1>0. \A k \in S : k \in 1 .. n
  OBVIOUS
<1>1. \A k \in S : IsFiniteSet(Above(k)) /\ Above(k) \subseteq 1 .. n
  <2>1. \A k \in Nat : IsFiniteSet(Above(k))
    BY FS_Interval
  <2>2. QED
    BY <1>0, <2>1
<1>2. F \subseteq FiniteSubsetsOf(1 .. n) /\ F # {}
  BY <1>1 DEF FiniteSubsetsOf
<1>3. IsWellFoundedOn(R, FiniteSubsetsOf(1 .. n))
  BY FS_StrictSubsetOrderingWellFounded
<1> HIDE DEF R
<1>4. PICK x \in F : \A y \in F : ~(<< y, x >> \in R)
  BY <1>2, <1>3, WFMin
<1>5. PICK m \in S : x = Above(m)
  BY <1>4
<1>6. ASSUME NEW k \in S, m < k PROVE FALSE
  <2>1. Above(k) \subseteq Above(m) /\ m \in Above(m) /\ m \notin Above(k)
    BY <1>0, <1>6
  <2>2. Above(k) # Above(m)
    BY <2>1
  <2>3. << Above(k), Above(m) >> \in R
    BY <1>1, <2>1, <2>2 DEF R, StrictSubsetOrdering
  <2>4. QED
    BY <1>4, <1>5, <2>3
<1>7. QED
  BY <1>0, <1>6

Last(es, r, i) == i \in About(r, es) /\ \A j \in About(r, es) : j <= i

LEMMA LastIs ==
  ASSUME NEW es \in Seq(Card), NEW r, About(r, es) # {}
  PROVE  \E i \in DOMAIN es : Last(es, r, i)
<1>1. About(r, es) \in SUBSET (1 .. Len(es)) /\ Len(es) \in Nat
  BY DEF About
<1>2. PICK m \in About(r, es) : \A k \in About(r, es) : k <= m
  BY <1>1, LastOne
<1>3. QED
  BY <1>2 DEF Last, About

LEMMA OneLast ==
  ASSUME NEW es \in Seq(Card), NEW r, NEW i, NEW j, Last(es, r, i), Last(es, r, j)
  PROVE  i = j
<1>1. i \in 1 .. Len(es) /\ j \in 1 .. Len(es) /\ i <= j /\ j <= i
  BY DEF Last, About
<1>2. QED
  BY <1>1

\* A card that is informed: of the last event that is not published yet, or else
\* of the last that is on the socket, or else by itself.
Fits(card) ==
  /\ card.state \notin terminalRideStates
  /\ \A i \in DOMAIN pending : Last(pending, card.id, i) =>
       Effect(pending[i].state) = Effect(ride[card.id])
  /\ About(card.id, pending) = {} =>
       /\ \A i \in DOMAIN events : Last(events, card.id, i) =>
            Effect(events[i].state) = Effect(ride[card.id])
       /\ About(card.id, events) = {} => Effect(card.state) = Effect(ride[card.id])

LEMMA LastWordIs ==
  ASSUME TypeOK, NEW r, NEW state
  PROVE  /\ \A i \in DOMAIN pending : Last(pending, r, i) =>
              LastWord(r, state) = pending[i].state
         /\ About(r, pending) = {} =>
              /\ \A i \in DOMAIN events : Last(events, r, i) =>
                   LastWord(r, state) = events[i].state
              /\ About(r, events) = {} => LastWord(r, state) = state
<1>1. PICK es : es = events \o pending
  OBVIOUS
<1>2. PICK n : n = Len(events)
  OBVIOUS
<1>3. PICK m : m = Len(pending)
  OBVIOUS
<1>4. /\ n \in Nat /\ m \in Nat /\ DOMAIN events = 1 .. n /\ DOMAIN pending = 1 .. m
      /\ events \in Seq(Card) /\ pending \in Seq(Card)
  BY <1>2, <1>3 DEF TypeOK
<1>5. /\ es \in Seq(Card) /\ DOMAIN es = 1 .. n + m
      /\ \A i \in 1 .. n + m : es[i] = IF i <= n THEN events[i] ELSE pending[i - n]
  <2>1. /\ es \in Seq(Card) /\ Len(es) = n + m
        /\ \A i \in 1 .. n + m : es[i] = IF i <= n THEN events[i] ELSE pending[i - n]
    BY <1>1, <1>2, <1>3, <1>4, ConcatProperties
  <2>2. QED
    BY <2>1
<1>6. ASSUME NEW i, Last(es, r, i)
      PROVE  LastWord(r, state) = es[i].state
  <2>1. i \in About(r, es) /\ \A j \in About(r, es) : j <= i
    BY <1>6 DEF Last
  <2>2. PICK k : k = CHOOSE j \in About(r, es) : \A l \in About(r, es) : l <= j
    OBVIOUS
  <2>3. k \in About(r, es) /\ \A l \in About(r, es) : l <= k
    BY <2>1, <2>2
  <2>4. k = i
    BY <1>5, <1>6, <2>3, OneLast DEF Last
  <2>5. QED
    BY <1>1, <2>1, <2>2, <2>4 DEF LastWord
<1>7. ASSUME NEW i \in DOMAIN pending, Last(pending, r, i)
      PROVE  LastWord(r, state) = pending[i].state
  <2>1. n + i \in 1 .. n + m /\ es[n + i] = pending[i] /\ pending[i].id = r
    BY <1>4, <1>5, <1>7 DEF Last, About
  <2>2. ASSUME NEW j \in About(r, es), ~(j <= n + i) PROVE FALSE
    <3>1. j \in 1 .. n + m /\ es[j] = pending[j - n] /\ j - n \in 1 .. m
          /\ es[j].id = r
      BY <1>4, <1>5, <1>7, <2>2 DEF About
    <3>2. j - n \in About(r, pending)
      BY <1>4, <3>1 DEF About
    <3>3. QED
      BY <1>4, <1>7, <2>2, <3>1, <3>2 DEF Last
  <2>3. Last(es, r, n + i)
    BY <1>5, <2>1, <2>2 DEF Last, About
  <2>4. QED
    BY <1>6, <2>1, <2>3
<1>8. ASSUME About(r, pending) = {}
      PROVE  /\ \A j \in About(r, es) : j \in About(r, events)
             /\ \A j \in About(r, events) : j \in About(r, es) /\ es[j] = events[j]
  <2>1. ASSUME NEW j \in About(r, es) PROVE j \in About(r, events)
    <3>1. j \in 1 .. n + m /\ es[j].id = r
      BY <1>5, <2>1 DEF About
    <3>2. j <= n
      <4>1. ASSUME ~(j <= n) PROVE FALSE
        <5>1. j - n \in 1 .. m /\ pending[j - n].id = r
          BY <1>4, <1>5, <3>1, <4>1
        <5>2. QED
          BY <1>4, <1>8, <5>1 DEF About
      <4>2. QED
        BY <4>1
    <3>3. QED
      BY <1>4, <1>5, <3>1, <3>2 DEF About
  <2>2. ASSUME NEW j \in About(r, events)
        PROVE  j \in About(r, es) /\ es[j] = events[j]
    BY <1>4, <1>5, <2>2 DEF About
  <2>3. QED
    BY <2>1, <2>2
<1>9. ASSUME About(r, pending) = {}, NEW i \in DOMAIN events, Last(events, r, i)
      PROVE  LastWord(r, state) = events[i].state
  <2>1. Last(es, r, i) /\ es[i] = events[i]
    BY <1>8, <1>9 DEF Last
  <2>2. QED
    BY <1>6, <2>1
<1>10. ASSUME About(r, pending) = {}, About(r, events) = {}
       PROVE  LastWord(r, state) = state
  <2>1. About(r, es) = {}
    BY <1>8, <1>10
  <2>2. QED
    BY <1>1, <2>1 DEF LastWord
<1>11. QED
  BY <1>7, <1>9, <1>10

\* What the screen is said to be informed of.
LEMMA FitsIsInformed ==
  ASSUME TypeOK, NEW card
  PROVE  Fits(card) <=>
           /\ card.state \notin terminalRideStates
           /\ Effect(LastWord(card.id, card.state)) = Effect(ride[card.id])
<1>1. PICK word : word = LastWord(card.id, card.state)
  OBVIOUS
<1>2. pending \in Seq(Card) /\ events \in Seq(Card)
  BY DEF TypeOK
<1>3. CASE About(card.id, pending) # {}
  <2>1. PICK i \in DOMAIN pending : Last(pending, card.id, i)
    BY <1>2, <1>3, LastIs
  <2>2. \A j \in DOMAIN pending : Last(pending, card.id, j) => j = i
    BY <1>2, <2>1, OneLast
  <2>3. word = pending[i].state
    BY <1>1, <2>1, LastWordIs
  <2>4. QED
    BY <1>1, <1>3, <2>1, <2>2, <2>3 DEF Fits
<1>4. CASE About(card.id, pending) = {} /\ About(card.id, events) # {}
  <2>1. PICK i \in DOMAIN events : Last(events, card.id, i)
    BY <1>2, <1>4, LastIs
  <2>2. \A j \in DOMAIN events : Last(events, card.id, j) => j = i
    BY <1>2, <2>1, OneLast
  <2>3. word = events[i].state /\ \A j \in DOMAIN pending : ~Last(pending, card.id, j)
    BY <1>1, <1>4, <2>1, LastWordIs DEF Last
  <2>4. QED
    BY <1>1, <1>4, <2>1, <2>2, <2>3 DEF Fits
<1>5. CASE About(card.id, pending) = {} /\ About(card.id, events) = {}
  <2>1. word = card.state
    BY <1>1, <1>5, LastWordIs
  <2>2. QED
    BY <1>1, <1>5, <2>1 DEF Fits, Last
<1>6. QED
  BY <1>3, <1>4, <1>5

\* An answer that is given without a doubt.
LEMMA NoDoubtFits ==
  ASSUME TypeOK, NEW r \in Rides, ~Doubtful(r, ride[r])
  PROVE  Fits([id |-> r, state |-> ride[r]])
<1>1. PICK card : card = [id |-> r, state |-> ride[r]]
  OBVIOUS
<1>2. /\ card.state \notin terminalRideStates
      /\ Effect(LastWord(card.id, card.state)) = Effect(ride[card.id])
  BY <1>1 DEF Doubtful
<1>3. QED
  BY <1>1, <1>2, FitsIsInformed

-----------------------------------------------------------------------------
(***************************************************************************)
(* What a step leaves a card informed of.                                  *)
(***************************************************************************)

\* Nothing is said of any ride, and none changes its phase.
LEMMA FitsOn ==
  ASSUME NEW card \in Card, Fits(card), UNCHANGED << pending, events >>,
         \A r \in Rides : Effect(ride'[r]) = Effect(ride[r])
  PROVE  Fits(card)'
BY DEF Fits, Card

\* A commit, with its event to be published.
LEMMA CommitFits ==
  ASSUME TypeOK, NEW e \in Card, pending' = Append(pending, e), UNCHANGED events,
         \A r \in Rides \ {e.id} : ride'[r] = ride[r], ride'[e.id] = e.state,
         NEW card \in Card, card.state \notin terminalRideStates,
         card.id # e.id => Fits(card)
  PROVE  Fits(card)'
<1>1. PICK n : n = Len(pending)
  OBVIOUS
<1>2. /\ n \in Nat /\ DOMAIN pending = 1 .. n /\ DOMAIN pending' = 1 .. n + 1
      /\ pending'[n + 1] = e /\ \A i \in 1 .. n : pending'[i] = pending[i]
  BY <1>1 DEF TypeOK
<1>3. CASE card.id = e.id
  <2>1. n + 1 \in About(card.id, pending')
    BY <1>2, <1>3 DEF About
  <2>2. \A i \in DOMAIN pending' : Last(pending', card.id, i) => i = n + 1
    BY <1>2, <2>1 DEF Last
  <2>3. QED
    BY <1>2, <1>3, <2>1, <2>2 DEF Fits
<1>4. CASE card.id # e.id
  <2>1. About(card.id, pending') = About(card.id, pending)
    BY <1>2, <1>4 DEF About
  <2>2. \A i \in DOMAIN pending' : Last(pending', card.id, i) =>
          i \in 1 .. n /\ Last(pending, card.id, i)
    BY <1>2, <2>1 DEF Last, About
  <2>3. ride'[card.id] = ride[card.id]
    BY <1>4 DEF Card
  <2>4. Fits(card)
    BY <1>4
  <2>5. QED
    BY <1>2, <2>1, <2>2, <2>3, <2>4 DEF Fits
<1>5. QED
  BY <1>3, <1>4

\* The socket delivers its first event: a card of its ride is of the same phase by
\* then, be it the event itself.
LEMMA DeliverFits ==
  ASSUME TypeOK, events # << >>, events' = Tail(events), UNCHANGED << pending, ride >>,
         NEW card \in Card, Fits(card), NEW now \in Card, now.id = card.id,
         now.state \notin terminalRideStates,
         card.id = Head(events).id => Effect(now.state) = Effect(Head(events).state),
         card.id # Head(events).id => now.state = card.state
  PROVE  Fits(now)'
<1>1. PICK n : n = Len(events)
  OBVIOUS
<1>2. /\ n \in Nat \ {0} /\ DOMAIN events = 1 .. n /\ DOMAIN events' = 1 .. n - 1
      /\ Head(events) = events[1] /\ \A i \in 1 .. n - 1 : events'[i] = events[i + 1]
  BY <1>1 DEF TypeOK
<1>3. PICK r : r = card.id
  OBVIOUS
<1>4. ASSUME NEW i \in DOMAIN events', Last(events', r, i)
      PROVE  i + 1 \in DOMAIN events /\ Last(events, r, i + 1) /\ events'[i] = events[i + 1]
  <2>1. i + 1 \in 1 .. n /\ events[i + 1].id = r /\ events'[i] = events[i + 1]
    BY <1>2, <1>4 DEF Last, About
  <2>2. ASSUME NEW j \in About(r, events), ~(j <= i + 1) PROVE FALSE
    <3>1. j - 1 \in 1 .. n - 1 /\ events'[j - 1] = events[j] /\ events[j].id = r
      BY <1>2, <2>1, <2>2 DEF About
    <3>2. j - 1 \in About(r, events')
      BY <1>2, <3>1 DEF About
    <3>3. j - 1 <= i
      BY <1>4, <3>2 DEF Last
    <3>4. i \in Nat /\ j \in Nat
      BY <1>2, <1>4, <2>2 DEF About
    <3>5. QED
      BY <2>2, <3>3, <3>4
  <2>3. QED
    BY <1>2, <2>1, <2>2 DEF Last, About
<1>5. ASSUME About(r, events') = {}
      PROVE  IF r = Head(events).id THEN Last(events, r, 1) ELSE About(r, events) = {}
  <2>1. ASSUME NEW j \in About(r, events) PROVE j = 1
    <3>1. j \in 1 .. n /\ events[j].id = r
      BY <1>2, <2>1 DEF About
    <3>2. ASSUME j # 1 PROVE FALSE
      <4>1. j - 1 \in 1 .. n - 1 /\ events'[j - 1].id = r
        BY <1>2, <3>1, <3>2
      <4>2. QED
        BY <1>2, <1>5, <4>1 DEF About
    <3>3. QED
      BY <3>2
  <2>2. QED
    BY <1>2, <2>1 DEF Last, About
<1>6. About(r, pending) = {} /\ About(r, events') = {} =>
        Effect(now.state) = Effect(ride[r])
  BY <1>2, <1>3, <1>5 DEF Fits
<1>7. QED
  BY <1>2, <1>3, <1>4, <1>6 DEF Fits

\* A handler publishes, or never will, and what it says is not pending any more.
LEMMA WithoutFits ==
  ASSUME TypeOK, NEW i \in DOMAIN pending, NEW left, left = Without(pending, i),
         NEW r, r = pending[i].id => About(r, SubSeq(pending, 1, i - 1)) = {}
  PROVE  /\ \A j \in DOMAIN left : Last(left, r, j) =>
              \E k \in DOMAIN pending : Last(pending, r, k) /\ left[j] = pending[k]
         /\ About(r, left) = {} =>
              IF r = pending[i].id THEN Last(pending, r, i) ELSE About(r, pending) = {}
<1>1. PICK n : n = Len(pending)
  OBVIOUS
<1>2. n \in Nat /\ DOMAIN pending = 1 .. n /\ i \in 1 .. n /\ pending \in Seq(Card)
  BY <1>1 DEF TypeOK
<1>3. /\ DOMAIN left = 1 .. n - 1
      /\ \A j \in 1 .. n - 1 : left[j] = IF j < i THEN pending[j] ELSE pending[j + 1]
  <2>1. i \in 1 .. Len(pending)
    BY <1>1, <1>2
  <2>2. /\ Without(pending, i) \in Seq(Card)
        /\ Len(Without(pending, i)) = Len(pending) - 1
        /\ \A j \in 1 .. Len(pending) - 1 :
             Without(pending, i)[j] = IF j < i THEN pending[j] ELSE pending[j + 1]
    BY <1>2, <2>1, WithoutOne
  <2>3. left \in Seq(Card) /\ Len(left) = n - 1
    BY <1>1, <2>2
  <2>4. QED
    BY <1>1, <1>2, <2>2, <2>3
<1>4. r = pending[i].id => \A j \in 1 .. i - 1 : pending[j].id # r
  <2>1. PICK q : q = SubSeq(pending, 1, i - 1)
    OBVIOUS
  <2>2. DOMAIN q = 1 .. i - 1 /\ \A j \in 1 .. i - 1 : q[j] = pending[j]
    BY <1>1, <1>2, <2>1
  <2>3. QED
    BY <2>1, <2>2 DEF About
<1>5. \A m \in 1 .. n : m < i => m \in 1 .. n - 1 /\ left[m] = pending[m]
  BY <1>2, <1>3
<1>6. \A m \in 1 .. n : m > i => m - 1 \in 1 .. n - 1 /\ left[m - 1] = pending[m]
  BY <1>2, <1>3
<1>7. ASSUME NEW j \in DOMAIN left, Last(left, r, j)
      PROVE  \E k \in DOMAIN pending : Last(pending, r, k) /\ left[j] = pending[k]
  <2>1. PICK k : k = IF j < i THEN j ELSE j + 1
    OBVIOUS
  <2>2. /\ j \in 1 .. n - 1 /\ k \in 1 .. n /\ left[j] = pending[k] /\ pending[k].id = r
        /\ \A l \in 1 .. n - 1 : left[l].id = r => l <= j
    BY <1>2, <1>3, <1>7, <2>1 DEF Last, About
  <2>3. ASSUME NEW m \in 1 .. n, pending[m].id = r PROVE m <= k
    <3>1. CASE m < i
      BY <1>2, <1>5, <2>1, <2>2, <2>3, <3>1
    <3>2. CASE m > i
      <4>1. m - 1 <= j
        BY <1>6, <2>2, <2>3, <3>2
      <4>2. QED
        BY <1>2, <2>1, <2>2, <3>2, <4>1
    <3>3. CASE m = i
      <4>1. ~(j < i)
        BY <1>2, <1>4, <2>1, <2>2, <2>3, <3>3
      <4>2. QED
        BY <1>2, <2>1, <2>2, <3>3, <4>1
    <3>4. QED
      BY <1>2, <3>1, <3>2, <3>3
  <2>4. QED
    BY <1>2, <2>2, <2>3 DEF Last, About
<1>8. ASSUME About(r, left) = {}
      PROVE  IF r = pending[i].id THEN Last(pending, r, i) ELSE About(r, pending) = {}
  <2>1. \A m \in 1 .. n : m # i => pending[m].id # r
    <3>1. \A l \in 1 .. n - 1 : left[l].id # r
      BY <1>3, <1>8 DEF About
    <3>2. \A m \in 1 .. n : m < i \/ m = i \/ m > i
      BY <1>2
    <3>3. QED
      BY <1>5, <1>6, <3>1, <3>2
  <2>2. QED
    BY <1>2, <2>1 DEF Last, About
<1>9. QED
  BY <1>7, <1>8

LEMMA PublishFits ==
  ASSUME TypeOK, NEW i \in DOMAIN pending, pending' = Without(pending, i),
         events' = Append(events, pending[i]), UNCHANGED ride,
         NEW card \in Card, Fits(card),
         card.id = pending[i].id => About(card.id, SubSeq(pending, 1, i - 1)) = {}
  PROVE  Fits(card)'
<1>1. PICK n : n = Len(events)
  OBVIOUS
<1>2. PICK e : e = pending[i]
  OBVIOUS
<1>3. PICK r : r = card.id
  OBVIOUS
<1>4. /\ n \in Nat /\ DOMAIN events = 1 .. n /\ DOMAIN events' = 1 .. n + 1
      /\ events'[n + 1] = e /\ \A j \in 1 .. n : events'[j] = events[j]
  BY <1>1, <1>2 DEF TypeOK
<1>5. /\ \A j \in DOMAIN pending' : Last(pending', r, j) =>
           \E k \in DOMAIN pending : Last(pending, r, k) /\ pending'[j] = pending[k]
      /\ About(r, pending') = {} =>
           IF r = e.id THEN Last(pending, r, i) ELSE About(r, pending) = {}
  <2>1. PICK left : left = pending'
    OBVIOUS
  <2>2. QED
    BY <1>2, <1>3, <2>1, WithoutFits
<1>6. \A j \in DOMAIN pending' : Last(pending', r, j) =>
        Effect(pending'[j].state) = Effect(ride[r])
  BY <1>3, <1>5 DEF Fits
<1>7. ASSUME About(r, pending') = {}
      PROVE  /\ \A j \in DOMAIN events' : Last(events', r, j) =>
                  Effect(events'[j].state) = Effect(ride[r])
             /\ About(r, events') = {} => Effect(card.state) = Effect(ride[r])
  <2>1. CASE r = e.id
    <3>1. Effect(e.state) = Effect(ride[r])
      BY <1>2, <1>3, <1>5, <1>7, <2>1 DEF Fits
    <3>2. n + 1 \in About(r, events')
      BY <1>4, <2>1 DEF About
    <3>3. \A j \in DOMAIN events' : Last(events', r, j) => j = n + 1
      BY <1>4, <3>2 DEF Last
    <3>4. QED
      BY <1>4, <3>1, <3>2, <3>3
  <2>2. CASE r # e.id
    <3>1. About(r, events') = About(r, events) /\ About(r, pending) = {}
      BY <1>4, <1>5, <1>7, <2>2 DEF About
    <3>2. \A j \in DOMAIN events' : Last(events', r, j) =>
            j \in 1 .. n /\ Last(events, r, j)
      BY <1>4, <3>1 DEF Last, About
    <3>3. QED
      BY <1>3, <1>4, <3>1, <3>2 DEF Fits
  <2>3. QED
    BY <2>1, <2>2
<1>8. QED
  BY <1>3, <1>6, <1>7 DEF Fits

\* An event nobody hears says nothing new to a card it is not missed by.
LEMMA UnheardFits ==
  ASSUME TypeOK, NEW i \in DOMAIN pending, pending' = Without(pending, i),
         UNCHANGED << events, ride >>, NEW card \in Card, Fits(card),
         card.id = pending[i].id =>
           /\ About(card.id, SubSeq(pending, 1, i - 1)) = {}
           /\ About(card.id, events) = {}
           /\ Effect(card.state) = Effect(pending[i].state)
  PROVE  Fits(card)'
<1>1. PICK e : e = pending[i]
  OBVIOUS
<1>2. PICK r : r = card.id
  OBVIOUS
<1>3. /\ \A j \in DOMAIN pending' : Last(pending', r, j) =>
           \E k \in DOMAIN pending : Last(pending, r, k) /\ pending'[j] = pending[k]
      /\ About(r, pending') = {} =>
           IF r = e.id THEN Last(pending, r, i) ELSE About(r, pending) = {}
  <2>1. PICK left : left = pending'
    OBVIOUS
  <2>2. QED
    BY <1>1, <1>2, <2>1, WithoutFits
<1>4. \A j \in DOMAIN pending' : Last(pending', r, j) =>
        Effect(pending'[j].state) = Effect(ride[r])
  BY <1>2, <1>3 DEF Fits
<1>5. ASSUME About(r, pending') = {}
      PROVE  /\ \A j \in DOMAIN events : Last(events, r, j) =>
                  Effect(events[j].state) = Effect(ride[r])
             /\ About(r, events) = {} => Effect(card.state) = Effect(ride[r])
  <2>1. CASE r = e.id
    <3>1. Effect(e.state) = Effect(ride[r]) /\ Effect(card.state) = Effect(e.state)
          /\ About(r, events) = {}
      BY <1>1, <1>2, <1>3, <1>5, <2>1 DEF Fits
    <3>2. QED
      BY <3>1 DEF Last
  <2>2. CASE r # e.id
    BY <1>2, <1>3, <1>5, <2>2 DEF Fits
  <2>3. QED
    BY <2>1, <2>2
<1>6. QED
  BY <1>2, <1>4, <1>5 DEF Fits

\* The socket breaks with nothing on it that a card misses.
LEMMA DisconnectFits ==
  ASSUME TypeOK, events' = << >>, UNCHANGED << pending, ride >>,
         NEW card \in Card, Fits(card), \A i \in DOMAIN events : ~Missed(events[i], card)
  PROVE  Fits(card)'
<1>1. events \in Seq(Card)
  BY DEF TypeOK
<1>2. ASSUME About(card.id, pending) = {}
      PROVE  Effect(card.state) = Effect(ride[card.id])
  <2>1. CASE About(card.id, events) = {}
    BY <1>2, <2>1 DEF Fits
  <2>2. CASE About(card.id, events) # {}
    <3>1. PICK i \in DOMAIN events : Last(events, card.id, i)
      BY <1>1, <2>2, LastIs
    <3>2. Effect(events[i].state) = Effect(ride[card.id]) /\ events[i].id = card.id
      BY <1>2, <3>1 DEF Fits, Last, About
    <3>3. QED
      BY <3>2 DEF Missed
  <2>3. QED
    BY <2>1, <2>2
<1>3. DOMAIN events' = {}
  OBVIOUS
<1>4. QED
  BY <1>2, <1>3 DEF Fits


-----------------------------------------------------------------------------
(***************************************************************************)
(* Every card that is not in doubt is informed: the one on the screen, and *)
(* those on their way to it in an answer, which is what a later answer     *)
(* makes of the screen.                                                    *)
(***************************************************************************)

Undoubted(card) ==
  \/ card = shown /\ ~doubt.screen
  \/ \E r \in Rides : card = booking[r].card /\ ~doubt.booking[r]
  \/ card = restoring.card /\ ~doubt.restoring

InformedInv ==
  /\ TypeOK
  /\ \A card \in Card : Undoubted(card) => Fits(card)
  /\ ~connected => events = << >>

LEMMA NoneIsNoCard == None \notin Card
BY VisitedAssumption DEF Card

\* The calls of the app move cards about, with their doubts.
LEMMA CallsInform ==
  ASSUME InformedInv,
         \/ DismissSheet \/ Confirm \/ Cancel \/ RestoreAnswered \/ RestoreFails
         \/ Restart
         \/ \E r \in Rides : \/ OpenSheet(r) \/ BookingAnswered(r) \/ BookingFails(r)
                            \/ CancelAnswered(r) \/ CancelFails(r),
         NEW card \in Card, Undoubted(card)'
  PROVE  Undoubted(card) /\ UNCHANGED << ride, pending >>
<1> USE NoneIsNoCard DEF server, screen, calls, network
<1>1. CASE DismissSheet \/ Cancel
  BY <1>1 DEF DismissSheet, Cancel, Undoubted
<1>2. CASE Confirm
  <2>1. \A r \in Rides : booking'[r].card = booking[r].card
    BY <1>2 DEF Confirm, InformedInv, TypeOK
  <2>2. QED
    BY <1>2, <2>1 DEF Confirm, Undoubted
<1>3. CASE RestoreAnswered
  BY <1>3 DEF RestoreAnswered, NoCall, Undoubted, InformedInv, TypeOK
<1>4. CASE RestoreFails
  BY <1>4 DEF RestoreFails, NoCall, Undoubted, InformedInv, TypeOK
<1>5. CASE Restart
  BY <1>5 DEF Restart, NoCall, NoDoubt, Undoubted
<1>6. ASSUME NEW r \in Rides, OpenSheet(r) \/ CancelAnswered(r) \/ CancelFails(r)
      PROVE  Undoubted(card) /\ UNCHANGED << ride, pending >>
  BY <1>6 DEF OpenSheet, CancelAnswered, CancelFails, Undoubted, InformedInv, TypeOK
<1>7. ASSUME NEW r \in Rides, BookingAnswered(r) \/ BookingFails(r)
      PROVE  Undoubted(card) /\ UNCHANGED << ride, pending >>
  <2>1. /\ booking'[r].card = None
        /\ \A q \in Rides \ {r} : booking'[q] = booking[q] /\ doubt'.booking[q] = doubt.booking[q]
    <3>1. booking' = [booking EXCEPT ![r] = NoCall] /\ booking \in [Rides -> Booking]
          /\ doubt \in Doubts
      BY <1>7 DEF BookingAnswered, BookingFails, InformedInv, TypeOK, Booking, Doubts
    <3>2. booking'[r].card = None /\ \A q \in Rides \ {r} : booking'[q] = booking[q]
      BY <3>1 DEF NoCall
    <3>3. doubt'.booking = [doubt.booking EXCEPT ![r] = FALSE]
      <4>1. CASE BookingAnswered(r)
        BY <3>1, <4>1 DEF BookingAnswered, Doubts
      <4>2. CASE BookingFails(r)
        BY <3>1, <4>2 DEF BookingFails, Doubts
      <4>3. QED
        BY <1>7, <4>1, <4>2
    <3>4. QED
      BY <3>1, <3>2, <3>3 DEF Doubts
  <2>2. CASE BookingAnswered(r)
    BY <2>1, <2>2 DEF BookingAnswered, Undoubted, InformedInv, TypeOK
  <2>3. CASE BookingFails(r)
    BY <2>1, <2>3 DEF BookingFails, Undoubted, InformedInv, TypeOK
  <2>4. QED
    BY <1>7, <2>2, <2>3
<1>8. QED
  BY <1>1, <1>2, <1>3, <1>4, <1>5, <1>6, <1>7

\* The cards that were told are the ones that are not in doubt.
LEMMA ToldCards ==
  ASSUME TypeOK, NEW untold, NEW card \in Card, doubt' = Doubt(untold),
         UNCHANGED << shown, calls >>, Undoubted(card)'
  PROVE  Undoubted(card) /\ card \notin untold
BY DEF Doubt, Undoubted, TypeOK, calls

\* A commit that says something of a ride, and its event.
LEMMA ServingInforms ==
  ASSUME InformedInv, ServeRestore \/ \E r \in Rides : ServeBooking(r),
         NEW card \in Card, Undoubted(card)'
  PROVE  Fits(card)'
<1> USE DEF server, screen, calls, network
<1>0. TypeOK
  BY DEF InformedInv
<1>1. ASSUME NEW r \in Rides, ServeBooking(r)
      PROVE  Fits(card)'
  <2>1. /\ UNCHANGED << shown, restoring, events >>
        /\ \A q \in Rides \ {r} : booking'[q] = booking[q]
        /\ booking'[r].card = [id |-> r, state |-> ride'[r]]
    BY <1>0, <1>1 DEF ServeBooking, TypeOK
  <2>2. CASE /\ ride[r] = NotBooked
             /\ ride' = [ride EXCEPT ![r] = "requested"]
             /\ pending' = Append(pending, [id |-> r, state |-> "requested"])
             /\ UNCHANGED doubt
    <3>1. PICK e : e = [id |-> r, state |-> "requested"]
      OBVIOUS
    <3>2. e \in Card /\ e.id = r /\ e.state = "requested" /\ e.state \notin terminalRideStates
      BY <3>1, VisitedAssumption DEF Card, terminalRideStates
    <3>3. ride'[r] = e.state /\ \A q \in Rides \ {r} : ride'[q] = ride[q]
      BY <1>0, <2>2, <3>2 DEF TypeOK
    <3>4. card = e \/ Undoubted(card)
      BY <2>1, <2>2, <3>1, <3>2, <3>3 DEF Undoubted
    <3>5. card.state \notin terminalRideStates /\ (card.id # e.id => Fits(card))
      BY <3>2, <3>4 DEF InformedInv, Fits
    <3>6. QED
      BY <1>0, <2>1, <2>2, <3>1, <3>2, <3>3, <3>5, CommitFits
  <2>3. CASE /\ ride[r] # NotBooked
             /\ doubt' = [doubt EXCEPT !.booking[r] = Doubtful(r, ride[r])]
             /\ \/ UNCHANGED pending
                \/ pending' = Append(pending, [id |-> r, state |-> ride[r]])
             /\ UNCHANGED server
    <3>1. PICK e : e = [id |-> r, state |-> ride[r]]
      OBVIOUS
    <3>2. e \in Card /\ e.id = r /\ e.state = ride[r] /\ ride' = ride
      BY <1>0, <2>3, <3>1, RidesOfCards
    <3>3. /\ doubt'.booking[r] = Doubtful(r, ride[r])
          /\ \A q \in Rides \ {r} : doubt'.booking[q] = doubt.booking[q]
          /\ doubt'.screen = doubt.screen /\ doubt'.restoring = doubt.restoring
      BY <1>0, <2>3 DEF TypeOK
    <3>4. Undoubted(card) \/ (card = e /\ ~Doubtful(r, ride[r]))
      BY <2>1, <3>1, <3>2, <3>3 DEF Undoubted
    <3>5. Fits(card)
      BY <1>0, <3>1, <3>4, NoDoubtFits DEF InformedInv
    <3>6. CASE UNCHANGED pending
      BY <2>1, <3>2, <3>5, <3>6, FitsOn
    <3>7. CASE pending' = Append(pending, e)
      BY <1>0, <2>1, <3>2, <3>5, <3>7, CommitFits DEF Fits
    <3>8. QED
      BY <2>3, <3>1, <3>6, <3>7
  <2>4. QED
    BY <1>1, <2>2, <2>3 DEF ServeBooking
<1>2. CASE ServeRestore
  <2>1. UNCHANGED << ride, pending, events >>
    BY <1>2 DEF ServeRestore
  <2>2. Fits(card)
    <3>1. CASE restoring'.card = None /\ UNCHANGED doubt
      BY <1>2, <3>1, NoneIsNoCard DEF ServeRestore, Undoubted, InformedInv
    <3>2. ASSUME NEW r \in Rides, ride[r] # NotBooked,
                 restoring'.card = [id |-> r, state |-> ride[r]],
                 doubt' = [doubt EXCEPT !.restoring = Doubtful(r, ride[r])]
          PROVE  Fits(card)
      <4>1. \/ Undoubted(card)
            \/ card = [id |-> r, state |-> ride[r]] /\ ~Doubtful(r, ride[r])
        BY <1>0, <1>2, <3>2 DEF ServeRestore, Undoubted, TypeOK
      <4>2. QED
        BY <1>0, <4>1, NoDoubtFits DEF InformedInv
    <3>3. QED
      <4>1. CASE Open = {}
        BY <1>2, <3>1, <4>1 DEF ServeRestore
      <4>2. CASE \E r \in Open :
                   /\ restoring' = [ phase |-> "answered",
                                     card |-> [id |-> r, state |-> ride[r]] ]
                   /\ doubt' = [doubt EXCEPT !.restoring = Doubtful(r, ride[r])]
        BY <3>2, <4>2 DEF Open
      <4>3. QED
        BY <1>2, <3>1, <4>1, <4>2 DEF ServeRestore
  <2>3. QED
    BY <2>1, <2>2, FitsOn
<1>3. QED
  BY <1>1, <1>2

\* A claim publishes nothing and shows nothing new.
LEMMA WaitingLooksOffered ==
  ASSUME NEW state \in waitingRideStates
  PROVE  Effect("offered_to_driver") = Effect(state)
BY DEF waitingRideStates, Effect, Heading, terminalRideStates

LEMMA MovesInform ==
  ASSUME InformedInv,
         \E r \in Rides : ServeCancel(r) \/ Claimed(r) \/ DriverMoves(r),
         NEW card \in Card, Undoubted(card)'
  PROVE  Fits(card)'
<1> USE DEF server, screen, calls, network
<1>0. /\ TypeOK
      /\ Undoubted(card) => Fits(card)
  BY DEF InformedInv
<1>1. Undoubted(card)
  BY DEF ServeCancel, Claimed, DriverMoves, Undoubted
<1>2. ASSUME NEW r \in Rides, NEW to \in Visited, Commit(r, to), UNCHANGED events
      PROVE  Fits(card)'
  <2>1. PICK e : e = [id |-> r, state |-> to]
    OBVIOUS
  <2>2. e \in Card /\ e.id = r /\ e.state = to
    BY <2>1 DEF Card
  <2>3. ride'[r] = to /\ (\A q \in Rides \ {r} : ride'[q] = ride[q])
        /\ pending' = Append(pending, e)
    BY <1>0, <1>2, <2>1 DEF Commit, TypeOK
  <2>4. QED
    BY <1>0, <1>1, <1>2, <2>2, <2>3, CommitFits DEF Fits
<1>3. ASSUME NEW r \in Rides, ServeCancel(r)
      PROVE  Fits(card)'
  BY <1>2, <1>3, VisitedAssumption DEF ServeCancel
<1>4. ASSUME NEW r \in Rides, Claimed(r)
      PROVE  Fits(card)'
  <2>1. \A q \in Rides : Effect(ride'[q]) = Effect(ride[q])
    <3>1. /\ ride'[r] = "offered_to_driver" /\ ride[r] \in waitingRideStates
          /\ \A q \in Rides \ {r} : ride'[q] = ride[q]
      BY <1>0, <1>4 DEF Claimed, TypeOK
    <3>2. QED
      BY <3>1, WaitingLooksOffered
  <2>2. UNCHANGED << pending, events >>
    BY <1>4 DEF Claimed
  <2>3. QED
    BY <1>0, <1>1, <2>1, <2>2, FitsOn
<1>5. ASSUME NEW r \in Rides, DriverMoves(r)
      PROVE  Fits(card)'
  BY <1>2, <1>5 DEF DriverMoves
<1>6. QED
  BY <1>3, <1>4, <1>5

LEMMA DeliveryInforms ==
  ASSUME InformedInv, Deliver, NEW card \in Card, Undoubted(card)'
  PROVE  Fits(card)'
<1> USE DEF server, screen, calls, network
<1>0. TypeOK /\ events # << >> /\ events' = Tail(events) /\ UNCHANGED << ride, pending >>
  BY DEF InformedInv, Deliver
<1>1. PICK e : e = Head(events)
  OBVIOUS
<1>2. e \in Card
  BY <1>0, <1>1 DEF TypeOK
<1>3. /\ shown' = IF ~(shown # None /\ shown.id = e.id) THEN shown
                  ELSE IF e.state \in terminalRideStates THEN None ELSE e
      /\ doubt' = [Doubt({c \in Card : Missed(e, c)}) EXCEPT
                     !.screen = doubt.screen /\ shown' # None]
      /\ UNCHANGED << booking, restoring >>
  BY <1>1 DEF Deliver
<1>4. /\ doubt'.screen = (doubt.screen /\ shown' # None)
      /\ \A r \in Rides : doubt'.booking[r] =
           (doubt.booking[r] \/ booking[r].card \in {c \in Card : Missed(e, c)})
      /\ doubt'.restoring =
           (doubt.restoring \/ restoring.card \in {c \in Card : Missed(e, c)})
  BY <1>3 DEF Doubt
<1>5. ASSUME Undoubted(card), ~Missed(e, card)
      PROVE  Fits(card)'
  <2>1. Fits(card) /\ card.state \notin terminalRideStates
    BY <1>5 DEF InformedInv, Fits
  <2>2. card.id = e.id => Effect(card.state) = Effect(e.state)
    BY <1>5 DEF Missed
  <2>3. QED
    BY <1>0, <1>1, <2>1, <2>2, DeliverFits
<1>6. CASE card = shown' /\ ~doubt'.screen
  <2>1. shown' # None /\ ~doubt.screen
    BY <1>4, <1>6, NoneIsNoCard
  <2>2. shown # None /\ shown \in Card
    BY <1>0, <1>3, <2>1 DEF TypeOK
  <2>3. PICK before \in Card : before = shown
    BY <2>2
  <2>4. Fits(before)
    BY <2>1, <2>3 DEF InformedInv, Undoubted
  <2>5. CASE before.id = e.id
    <3>1. card = e /\ e.state \notin terminalRideStates
      BY <1>3, <1>6, <2>1, <2>2, <2>3, <2>5
    <3>2. QED
      BY <1>0, <1>1, <2>3, <2>4, <2>5, <3>1, DeliverFits
  <2>6. CASE before.id # e.id
    <3>1. card = before
      BY <1>3, <1>6, <2>3, <2>6
    <3>2. QED
      BY <1>5, <1>6, <2>1, <2>3, <2>6, <3>1 DEF Undoubted, Missed
  <2>7. QED
    BY <2>5, <2>6
<1>7. CASE \/ \E r \in Rides : card = booking'[r].card /\ ~doubt'.booking[r]
           \/ card = restoring'.card /\ ~doubt'.restoring
  BY <1>3, <1>4, <1>5, <1>7 DEF Undoubted
<1>8. QED
  BY <1>6, <1>7 DEF Undoubted

LEMMA NothingAbout ==
  ASSUME NEW a \in Seq(Card), NEW b \in Seq(Card), NEW r, About(r, a \o b) = {}
  PROVE  About(r, a) = {} /\ About(r, b) = {}
<1>1. PICK c : c = a \o b
  OBVIOUS
<1>2. PICK n : n = Len(a)
  OBVIOUS
<1>3. PICK m : m = Len(b)
  OBVIOUS
<1>4. n \in Nat /\ m \in Nat /\ DOMAIN a = 1 .. n /\ DOMAIN b = 1 .. m
  BY <1>2, <1>3
<1>5. /\ c \in Seq(Card) /\ Len(c) = n + m
      /\ \A i \in 1 .. n + m : c[i] = IF i <= n THEN a[i] ELSE b[i - n]
  BY <1>1, <1>2, <1>3, ConcatProperties
<1>6. \A i \in 1 .. n + m : c[i].id # r
  <2>1. DOMAIN c = 1 .. n + m
    BY <1>5
  <2>2. QED
    BY <1>1, <2>1 DEF About
<1>7. ASSUME NEW i \in 1 .. n PROVE a[i].id # r
  BY <1>4, <1>5, <1>6, <1>7
<1>8. ASSUME NEW i \in 1 .. m PROVE b[i].id # r
  <2>1. n + i \in 1 .. n + m /\ ~(n + i <= n) /\ (n + i) - n = i
    BY <1>4, <1>8
  <2>2. QED
    BY <1>5, <1>6, <2>1
<1>9. QED
  BY <1>4, <1>7, <1>8 DEF About

LEMMA PublishingInforms ==
  ASSUME InformedInv, NEW i \in DOMAIN pending, Publish(i) \/ PublishFails(i),
         NEW card \in Card, Undoubted(card)'
  PROVE  Fits(card)'
<1> USE DEF server, screen
<1>0. /\ TypeOK
      /\ Undoubted(card) => Fits(card)
      /\ pending' = Without(pending, i) /\ UNCHANGED << ride, shown, calls >>
  BY DEF InformedInv, Publish, PublishFails
<1>1. PICK e : e = pending[i]
  OBVIOUS
<1>2. PICK before : before = SubSeq(pending, 1, i - 1)
  OBVIOUS
<1>3. before \in Seq(Card) /\ events \in Seq(Card)
  BY <1>0, <1>2 DEF TypeOK
<1>4. CASE Publish(i) /\ connected
  <2>1. /\ doubt' = Doubt({c \in Card : \/ About(e.id, before) # {} /\ c.id = e.id
                                        \/ ~connected /\ Missed(e, c)})
        /\ events' = Append(events, e)
    BY <1>1, <1>2, <1>4 DEF Publish
  <2>2. Undoubted(card) /\ (card.id = e.id => About(card.id, before) = {})
    BY <1>0, <2>1, ToldCards
  <2>3. QED
    BY <1>0, <1>1, <1>2, <2>1, <2>2, PublishFits
<1>5. CASE Publish(i) /\ ~connected
  <2>1. /\ doubt' = Doubt({c \in Card : \/ About(e.id, before) # {} /\ c.id = e.id
                                        \/ ~connected /\ Missed(e, c)})
        /\ UNCHANGED events /\ events = << >>
    BY <1>1, <1>2, <1>5 DEF Publish, InformedInv
  <2>2. Undoubted(card) /\ ~Missed(e, card) /\ (card.id = e.id => About(card.id, before) = {})
    BY <1>0, <1>5, <2>1, ToldCards
  <2>3. About(card.id, events) = {}
    BY <2>1 DEF About
  <2>4. QED
    BY <1>0, <1>1, <1>2, <2>1, <2>2, <2>3, UnheardFits DEF Missed
<1>6. CASE PublishFails(i)
  <2>1. /\ doubt' = Doubt({c \in Card : \/ About(e.id, events \o before) # {} /\ c.id = e.id
                                        \/ Missed(e, c)})
        /\ UNCHANGED events
    BY <1>1, <1>2, <1>6 DEF PublishFails
  <2>2. /\ Undoubted(card) /\ ~Missed(e, card)
        /\ card.id = e.id => About(card.id, events \o before) = {}
    BY <1>0, <2>1, ToldCards
  <2>3. card.id = e.id => About(card.id, events) = {} /\ About(card.id, before) = {}
    BY <1>3, <2>2, NothingAbout
  <2>4. QED
    BY <1>0, <1>1, <1>2, <2>1, <2>2, <2>3, UnheardFits DEF Missed
<1>7. QED
  BY <1>4, <1>5, <1>6

LEMMA LinesInform ==
  ASSUME InformedInv, Connect \/ Disconnect, NEW card \in Card, Undoubted(card)'
  PROVE  Fits(card)'
<1> USE DEF server, screen
<1>0. TypeOK /\ (Undoubted(card) => Fits(card))
  BY DEF InformedInv
<1>1. CASE Connect
  <2>1. Undoubted(card) /\ UNCHANGED << ride, pending, events >>
    BY <1>1 DEF Connect, Undoubted, calls
  <2>2. QED
    BY <1>0, <2>1, FitsOn
<1>2. CASE Disconnect
  <2>1. Undoubted(card) /\ card \notin {c \in Card : \E i \in DOMAIN events : Missed(events[i], c)}
    BY <1>0, <1>2, ToldCards DEF Disconnect
  <2>2. \A i \in DOMAIN events : ~Missed(events[i], card)
    BY <2>1
  <2>3. QED
    BY <1>0, <1>2, <2>1, <2>2, DisconnectFits DEF Disconnect
<1>3. QED
  BY <1>1, <1>2

LEMMA InformedStarts == Init => InformedInv
BY TypesStart, NoneIsNoCard DEF Init, InformedInv, Undoubted, NoCall

LEMMA InformedGoesOn == InformedInv /\ [Next]_vars => InformedInv'
<1> SUFFICES ASSUME InformedInv, [Next]_vars PROVE InformedInv'
  OBVIOUS
<1>1. TypeOK'
  BY TypesGoOn DEF InformedInv
<1>2. (~connected => events = << >>)'
  <2>1. CASE UNCHANGED vars
    BY <2>1 DEF vars, InformedInv
  <2>2. CASE Deliver
    BY <2>2 DEF Deliver, InformedInv
  <2>3. CASE Restart \/ Connect \/ Disconnect
    BY <2>3 DEF Restart, Connect, Disconnect
  <2>4. CASE \/ DismissSheet \/ Confirm \/ Cancel \/ RestoreAnswered \/ RestoreFails
             \/ ServeRestore
    BY <2>4 DEF InformedInv, DismissSheet, Confirm, Cancel, RestoreAnswered,
       RestoreFails, ServeRestore, network
  <2>5. CASE \E r \in Rides : \/ OpenSheet(r) \/ BookingAnswered(r) \/ BookingFails(r)
                             \/ CancelAnswered(r) \/ CancelFails(r)
    BY <2>5 DEF InformedInv, OpenSheet, BookingAnswered, BookingFails, CancelAnswered,
       CancelFails, network
  <2>6. CASE \E r \in Rides : \/ ServeBooking(r) \/ ServeCancel(r) \/ Claimed(r)
                             \/ DriverMoves(r)
    <3>1. UNCHANGED << connected, events >>
      BY <2>6 DEF ServeBooking, ServeCancel, Claimed, DriverMoves, network
    <3>2. QED
      BY <3>1 DEF InformedInv
  <2>7. CASE \E i \in DOMAIN pending : Publish(i) \/ PublishFails(i)
    BY <2>7 DEF InformedInv, Publish, PublishFails
  <2>8. QED
    BY <2>1, <2>2, <2>3, <2>4, <2>5, <2>6, <2>7 DEF Next
<1>3. ASSUME NEW card \in Card, Undoubted(card)'
      PROVE  Fits(card)'
  <2>1. CASE UNCHANGED vars
    BY <1>3, <2>1, FitsOn DEF vars, InformedInv, Undoubted
  <2>2. CASE \/ DismissSheet \/ Confirm \/ Cancel \/ RestoreAnswered \/ RestoreFails
             \/ \E r \in Rides : \/ OpenSheet(r) \/ BookingAnswered(r) \/ BookingFails(r)
                                \/ CancelAnswered(r) \/ CancelFails(r)
    <3>1. Undoubted(card) /\ UNCHANGED << ride, pending >>
      BY <1>3, <2>2, CallsInform
    <3>2. UNCHANGED events
      BY <2>2 DEF DismissSheet, Confirm, Cancel, RestoreAnswered, RestoreFails,
         OpenSheet, BookingAnswered, BookingFails, CancelAnswered, CancelFails, network
    <3>3. QED
      BY <3>1, <3>2, FitsOn DEF InformedInv
  <2>3. CASE Restart
    BY <1>3, <2>3, NoneIsNoCard DEF Restart, NoCall, Undoubted
  <2>4. CASE ServeRestore \/ \E r \in Rides : ServeBooking(r)
    BY <1>3, <2>4, ServingInforms
  <2>5. CASE \E r \in Rides : ServeCancel(r) \/ Claimed(r) \/ DriverMoves(r)
    BY <1>3, <2>5, MovesInform
  <2>6. CASE Deliver
    BY <1>3, <2>6, DeliveryInforms
  <2>7. CASE \E i \in DOMAIN pending : Publish(i) \/ PublishFails(i)
    BY <1>3, <2>7, PublishingInforms
  <2>8. CASE Connect \/ Disconnect
    BY <1>3, <2>8, LinesInform
  <2>9. QED
    BY <2>1, <2>2, <2>3, <2>4, <2>5, <2>6, <2>7, <2>8 DEF Next
<1>4. QED
  BY <1>1, <1>2, <1>3 DEF InformedInv

\* The card on the screen and the ones that answers are bringing to it are told
\* everything, unless they are in doubt, and what is on a socket that is down is
\* gone.
THEOREM CardsAreTold == Spec => []InformedInv
BY InformedStarts, InformedGoesOn, PTL DEF Spec

\* A screen of rider_home_screen.dart that is not in doubt shows the phase its
\* ride is in, or will by an event that is underway.
THEOREM ScreenStaysInformed == Spec => []ScreenIsInformed
<1>1. InformedInv => ScreenIsInformed
  <2> SUFFICES ASSUME InformedInv, shown # None, ~doubt.screen
               PROVE  /\ shown.state \notin terminalRideStates
                      /\ Effect(LastWord(shown.id, shown.state)) = Effect(ride[shown.id])
    BY DEF ScreenIsInformed
  <2>1. TypeOK /\ shown \in Card /\ Undoubted(shown)
    BY DEF InformedInv, TypeOK, Undoubted
  <2>2. Fits(shown)
    BY <2>1 DEF InformedInv
  <2>3. PICK card : card = shown
    OBVIOUS
  <2>4. QED
    BY <2>1, <2>2, <2>3, FitsIsInformed
<1>2. QED
  BY CardsAreTold, <1>1, PTL
=============================================================================
