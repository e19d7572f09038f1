--------------------------- MODULE RideDeskProofs ---------------------------
(***************************************************************************)
(* What RideDesk keeps for any riders, drivers, screens and quotas, any    *)
(* size of a page and any number of reads at a time: types, whose the      *)
(* messages are, who hears of one, what a sheet shows, the pages of the    *)
(* history, and what the lists may be wrong about.                         *)
(***************************************************************************)
EXTENDS RideDesk, FiniteSetTheorems, SequenceTheorems, TLAPS

-----------------------------------------------------------------------------
(***************************************************************************)
(* The states a ride may come to.                                          *)
(***************************************************************************)

\* A ride that has left dispatch does not come back, and keeps its driver.
Accepted == RideState \ poolRideStates

LEMMA ChangedStates == changeRideStates \subseteq Accepted
BY DEF changeRideStates, driverAdvanceStates, Accepted, poolRideStates, RideState,
       normalRideStates, exceptionRideStates, waitingRideStates

LEMMA EligibleStates == chatEligibleStates \subseteq Accepted
BY DEF chatEligibleStates, driverActiveRideStates, Accepted, poolRideStates, RideState,
       normalRideStates, waitingRideStates

-----------------------------------------------------------------------------
(***************************************************************************)
(* Finite sets of numbers.                                                 *)
(***************************************************************************)

LEMMA Smallest ==
  ASSUME NEW S \in SUBSET Nat, S # {}
  PROVE  \E m \in S : \A n \in S : m <= n
<1> DEFINE Below(n) == 0 .. n
           F == {Below(n) : n \in S}
           R == StrictSubsetOrdering(Nat)
<1>1. \A n \in Nat : IsFiniteSet(Below(n))
  BY FS_Interval
<1>2. F \subseteq FiniteSubsetsOf(Nat) /\ F # {}
  <2>1. \A n \in S : Below(n) \in SUBSET Nat /\ IsFiniteSet(Below(n))
    BY <1>1
  <2>2. \A n \in S : Below(n) \in FiniteSubsetsOf(Nat)
    BY <2>1 DEF FiniteSubsetsOf
  <2> HIDE DEF Below
  <2>3. QED
    BY <2>2
<1>3. IsWellFoundedOn(R, FiniteSubsetsOf(Nat))
  BY FS_StrictSubsetOrderingWellFounded
<1> HIDE DEF R
<1>4. PICK x \in F : \A y \in F : ~(<< y, x >> \in R)
  BY <1>2, <1>3, WFMin
<1>5. PICK m \in S : x = Below(m)
  BY <1>4
<1>6. ASSUME NEW n \in S, n < m PROVE FALSE
  <2>1. Below(n) \subseteq Nat /\ Below(m) \subseteq Nat
    OBVIOUS
  <2>2. Below(n) \subseteq Below(m)
    BY <1>6
  <2>3. Below(n) # Below(m)
    <3>1. m \in Below(m) /\ m \notin Below(n)
      BY <1>6
    <3>2. QED
      BY <3>1
  <2>4. << Below(n), Below(m) >> \in R
    BY <2>1, <2>2, <2>3 DEF R, StrictSubsetOrdering
  <2>5. QED
    BY <1>4, <1>5, <2>4
<1>7. QED
  BY <1>6

LEMMA Greatest ==
  ASSUME NEW S \in SUBSET Nat, NEW b \in Nat, \A s \in S : s <= b, S # {}
  PROVE  \E m \in S : \A n \in S : n <= m
<1> DEFINE T == {k \in Nat : \E s \in S : k = b - s}
<1>1. \A s \in S : b - s \in T
  OBVIOUS
<1>2. T \in SUBSET Nat /\ T # {}
  BY <1>1
<1> HIDE DEF T
<1>3. PICK k \in T : \A n \in T : k <= n
  BY <1>2, Smallest
<1>4. PICK m \in S : k = b - m
  BY DEF T
<1>5. QED
  BY <1>1, <1>3, <1>4

LEMMA Bounded ==
  ASSUME NEW b \in Nat, NEW S \in SUBSET (1 .. b)
  PROVE  S \in SUBSET Nat /\ \A s \in S : s \in Nat /\ s <= b /\ s >= 1
OBVIOUS

\* A set of numbers up to b is finite, and so are its parts.
LEMMA UpTo ==
  ASSUME NEW b \in Nat, NEW S \in SUBSET (1 .. b)
  PROVE  IsFiniteSet(S) /\ Cardinality(S) \in Nat
<1>1. IsFiniteSet(1 .. b)
  BY FS_Interval
<1>2. QED
  BY <1>1, FS_Subset, FS_CardinalityType

-----------------------------------------------------------------------------
(***************************************************************************)
(* A page: the last n of a set of rides.                                   *)
(***************************************************************************)

LEMMA NewestIsAbove ==
  ASSUME NEW b \in Nat, NEW S \in SUBSET (1 .. b), NEW n \in Nat,
         NEW s \in S \ Newest(S, n), NEW q \in Newest(S, n)
  PROVE  s < q
<1> DEFINE Beyond(x) == {y \in S : y > x}
<1>1. Cardinality(Beyond(q)) < n /\ ~(Cardinality(Beyond(s)) < n) /\ q \in S
  BY DEF Newest
<1>2. ASSUME ~(s < q) PROVE FALSE
  <2>0. s \in Nat /\ q \in Nat /\ q <= s
    BY <1>1, <1>2, Bounded
  <2>1. Beyond(s) \subseteq Beyond(q) /\ Beyond(q) \in SUBSET (1 .. b) /\ Beyond(s) \in SUBSET (1 .. b)
    <3>1. \A y \in S : y \in Nat
      BY Bounded
    <3>2. \A y \in S : y > s => y > q
      BY <2>0, <3>1
    <3>3. QED
      BY <3>2
  <2>2. IsFiniteSet(Beyond(q)) /\ Cardinality(Beyond(q)) \in Nat /\ Cardinality(Beyond(s)) \in Nat
    BY <2>1, UpTo
  <2>3. Cardinality(Beyond(s)) <= Cardinality(Beyond(q))
    BY <2>1, <2>2, FS_Subset
  <2>4. QED
    BY <1>1, <2>2, <2>3
<1>3. QED
  BY <1>1, <1>2

LEMMA NewestIsNotEmpty ==
  ASSUME NEW b \in Nat, NEW S \in SUBSET (1 .. b), S # {}, NEW n \in Nat \ {0}
  PROVE  Newest(S, n) # {}
<1>1. PICK m \in S : \A q \in S : q <= m
  BY Greatest, Bounded
<1>2. {q \in S : q > m} = {}
  <2>1. \A q \in S : q \in Nat
    BY Bounded
  <2>2. \A q \in S : ~(q > m)
    BY <1>1, <2>1
  <2>3. QED
    BY <2>2
<1>3. Cardinality({q \in S : q > m}) = 0
  BY <1>2, FS_EmptySet
<1>4. m \in Newest(S, n)
  BY <1>3 DEF Newest
<1>5. QED
  BY <1>4

\* The first row of a query is after all others.
LEMMA NewestIsLast ==
  ASSUME NEW b \in Nat, NEW S \in SUBSET (1 .. b), NEW t \in Newest(S, 1)
  PROVE  t \in S /\ \A q \in S : q <= t
<1> DEFINE beyond == {q \in S : q > t}
<1>1. t \in S /\ Cardinality(beyond) < 1
  BY DEF Newest
<1>2. IsFiniteSet(beyond) /\ Cardinality(beyond) \in Nat
  <2>1. beyond \in SUBSET (1 .. b)
    OBVIOUS
  <2>2. QED
    BY <2>1, UpTo
<1>3. Cardinality(beyond) = 0
  BY <1>1, <1>2
<1>4. beyond = {}
  BY <1>2, <1>3, FS_EmptySet
<1>5. \A q \in S : q \in Nat /\ ~(q > t)
  BY <1>4, Bounded
<1>6. QED
  BY <1>1, <1>5

\* A page that leaves some out is full.
LEMMA NewestIsFull ==
  ASSUME NEW b \in Nat, NEW S \in SUBSET (1 .. b), NEW n \in Nat \ {0},
         Newest(S, n) # S
  PROVE  Cardinality(Newest(S, n)) = n
<1> DEFINE U == Newest(S, n)
           Beyond(x) == {y \in S : y > x}
<1>1. U \subseteq S /\ S \ U # {} /\ S \subseteq 1 .. b
  BY DEF Newest
<1>2. IsFiniteSet(U) /\ Cardinality(U) \in Nat
  BY <1>1, UpTo
<1>3. S # {} /\ U # {}
  BY <1>1, NewestIsNotEmpty
<1>0. \A s \in S : s \in Nat /\ s <= b
  BY Bounded
<1> HIDE DEF U
<1>a. S \ U \in SUBSET Nat /\ U \in SUBSET Nat
  BY <1>0, <1>1
<1>4. PICK t \in S \ U : \A s \in S \ U : s <= t
  BY <1>0, <1>1, <1>a, Greatest
<1>5. Beyond(t) = U
  <2>1. \A q \in U : t < q
    BY <1>4, NewestIsAbove DEF U
  <2>2. \A q \in S : q > t => q \in U
    BY <1>0, <1>1, <1>4
  <2>3. QED
    BY <1>0, <1>1, <1>4, <2>1, <2>2
<1>6. ~(Cardinality(U) < n)
  <2>1. t \in S /\ t \notin Newest(S, n)
    BY <1>4 DEF U
  <2>2. ~(Cardinality(Beyond(t)) < n)
    BY <2>1 DEF Newest
  <2>3. QED
    BY <1>5, <2>2
<1>7. PICK m \in U : \A q \in U : m <= q
  BY <1>3, <1>a, Smallest
<1>8. Beyond(m) = U \ {m}
  <2>1. \A q \in S : q > m => q \in U
    <3>1. t < m
      BY <1>5, <1>7
    <3>2. \A q \in S : q > m => q > t
      BY <1>0, <1>1, <1>4, <1>7, <3>1
    <3>3. QED
      BY <1>5, <3>2
  <2>2. \A q \in U : q # m => q > m
    BY <1>7, <1>a
  <2>3. ~(m > m) /\ U \subseteq S
    BY <1>0, <1>1, <1>7
  <2>4. QED
    BY <2>1, <2>2, <2>3
<1>9. Cardinality(U \ {m}) < n
  BY <1>7, <1>8 DEF Newest, U
<1>10. Cardinality(U \ {m}) = Cardinality(U) - 1
  BY <1>2, <1>7, FS_RemoveElement
<1>11. Cardinality(U) = n
  BY <1>2, <1>6, <1>9, <1>10
<1>12. QED
  BY <1>11 DEF U

-----------------------------------------------------------------------------
(***************************************************************************)
(* Messages in the order they were sent.                                   *)
(***************************************************************************)

Rank(S, t) == Cardinality({s \in S : s <= t})

\* The numbers of a set have the ranks 1, 2 and so on, each a rank of its own.
LEMMA Ranks ==
  ASSUME NEW b \in Nat, NEW S \in SUBSET (1 .. b)
  PROVE  /\ \A t \in S : Rank(S, t) \in 1 .. Cardinality(S)
         /\ \A s, t \in S : s < t => Rank(S, s) < Rank(S, t)
         /\ \A i \in 1 .. Cardinality(S) : \E t \in S : Rank(S, t) = i
<1> DEFINE Under(t) == {s \in S : s <= t}
           n == Cardinality(S)
<1>0. \A s \in S : s \in Nat
  BY Bounded
<1>1. IsFiniteSet(S) /\ n \in Nat
  BY UpTo
<1>2. \A t \in S : /\ Under(t) \in SUBSET S /\ IsFiniteSet(Under(t))
                   /\ Rank(S, t) \in Nat /\ Rank(S, t) = Cardinality(Under(t))
  <2>1. ASSUME NEW t \in S
        PROVE  Under(t) \in SUBSET S /\ IsFiniteSet(Under(t)) /\ Cardinality(Under(t)) \in Nat
    <3>1. Under(t) \in SUBSET (1 .. b)
      OBVIOUS
    <3>2. QED
      BY <3>1, UpTo
  <2>2. QED
    BY <2>1 DEF Rank
<1>a. \A t \in S : Rank(S, t) \in Nat
  BY <1>2
<1>3. \A t \in S : Rank(S, t) \in 1 .. n
  <2> SUFFICES ASSUME NEW t \in S PROVE Rank(S, t) \in 1 .. n
    OBVIOUS
  <2>1. Rank(S, t) <= n
    BY <1>1, <1>2, FS_Subset
  <2>2. t \in Under(t)
    BY <1>0
  <2>3. Rank(S, t) # 0
    <3>1. Under(t) # {} /\ IsFiniteSet(Under(t))
      BY <1>2, <2>2
    <3>2. Cardinality(Under(t)) # 0
      BY <3>1, FS_EmptySet
    <3>3. QED
      BY <1>2, <3>2
  <2>4. QED
    BY <1>1, <1>a, <2>1, <2>3
<1>4. ASSUME NEW s \in S, NEW t \in S, s < t PROVE Rank(S, s) < Rank(S, t)
  <2>1. Under(s) \in SUBSET Under(t)
    <3>1. \A x \in S : x <= s => x <= t
      BY <1>0, <1>4
    <3>2. QED
      BY <3>1
  <2>2. t \in Under(t) /\ t \notin Under(s)
    BY <1>0, <1>4
  <2>3. /\ Cardinality(Under(s)) <= Cardinality(Under(t))
        /\ Cardinality(Under(s)) # Cardinality(Under(t))
    <3>1. IsFiniteSet(Under(t)) /\ Under(s) # Under(t)
      BY <1>2, <2>2
    <3> HIDE DEF Under
    <3>2. QED
      BY <2>1, <3>1, FS_Subset
  <2>4. QED
    BY <1>2, <2>3
<1>5. \A i \in 1 .. n : \E t \in S : Rank(S, t) = i
  <2> DEFINE f == [t \in S |-> Rank(S, t)]
  <2>1. f \in [S -> 1 .. n]
    BY <1>3
  <2>2. \A s, t \in S : f[s] = f[t] => s = t
    <3>1. \A s, t \in S : s < t \/ s = t \/ t < s
      BY <1>0
    <3>2. \A s, t \in S : s < t => Rank(S, s) # Rank(S, t)
      BY <1>a, <1>4
    <3>3. QED
      BY <3>1, <3>2
  <2>3. f \in Injection(S, 1 .. n)
    BY <2>1, <2>2 DEF Injection, IsInjective
  <2>4. IsFiniteSet(1 .. n) /\ Cardinality(1 .. n) = n
    <3>1. \A i, j \in Int : /\ IsFiniteSet(i .. j)
                            /\ Cardinality(i .. j) = IF i > j THEN 0 ELSE j - i + 1
      BY FS_Interval
    <3>2. QED
      BY <1>1, <3>1
  <2>5. f \in Surjection(S, 1 .. n)
    BY <2>3, <2>4, FS_Injection
  <2>6. QED
    BY <2>5 DEF Surjection
<1>6. QED
  BY <1>3, <1>4, <1>5

LEMMA InOrderIsInOrder ==
  ASSUME NEW b \in Nat, NEW S \in SUBSET (1 .. b)
  PROVE  /\ InOrder(S) \in Seq(S)
         /\ \A i, j \in DOMAIN InOrder(S) : i < j => InOrder(S)[i] < InOrder(S)[j]
<1> DEFINE n == Cardinality(S)
           q == InOrder(S)
<1>1. n \in Nat
  BY UpTo
<1>2. q = [i \in 1 .. n |-> CHOOSE t \in S : Rank(S, t) = i]
  BY DEF InOrder, Rank
<1>3. \A i \in 1 .. n : q[i] \in S /\ Rank(S, q[i]) = i
  <2>1. \A i \in 1 .. n : \E t \in S : Rank(S, t) = i
    BY Ranks
  <2> HIDE DEF n
  <2>2. QED
    BY <1>2, <2>1
<1>4. q \in [1 .. n -> S] /\ DOMAIN q = 1 .. n
  BY <1>2, <1>3
<1>5. q \in Seq(S)
  BY <1>1, <1>4
<1>6. ASSUME NEW i \in 1 .. n, NEW j \in 1 .. n, i < j PROVE q[i] < q[j]
  <2> DEFINE x == q[i]
             y == q[j]
  <2>1. x \in S /\ y \in S /\ Rank(S, x) = i /\ Rank(S, y) = j
    BY <1>3
  <2> HIDE DEF x, y
  <2>2. x \in Nat /\ y \in Nat
    BY <2>1, Bounded
  <2>3. \A s, t \in S : s < t => Rank(S, s) < Rank(S, t)
    BY Ranks
  <2>4. ~(y < x) /\ x # y
    BY <1>1, <1>6, <2>1, <2>3
  <2>5. x < y
    BY <2>2, <2>4
  <2>6. QED
    BY <2>5 DEF x, y
<1>7. QED
  BY <1>4, <1>5, <1>6

LEMMA InOrderOfOne ==
  ASSUME NEW t \in Nat \ {0}
  PROVE  InOrder({t}) = << t >>
<1>1. Cardinality({t}) = 1
  BY FS_Singleton
<1>2. {s \in {t} : s <= t} = {t}
  OBVIOUS
<1>3. InOrder({t}) = [i \in 1 .. 1 |-> t]
  <2>1. \A i \in 1 .. 1 : (CHOOSE x \in {t} : Cardinality({s \in {t} : s <= x}) = i) = t
    BY <1>1, <1>2
  <2>2. QED
    BY <1>1, <2>1 DEF InOrder
<1>4. QED
  BY <1>3

-----------------------------------------------------------------------------
(***************************************************************************)
(* The rides.                                                              *)
(***************************************************************************)

\* Rides are added, and those out of dispatch keep their drivers.
RidesGoOn ==
  /\ RideIds \subseteq RideIds' /\ day' \in Nat /\ day <= day'
  /\ \A r \in RideIds :
       rides[r].state \in Accepted =>
         rides'[r].state \in Accepted /\ rides'[r].driver = rides[r].driver

LEMMA Spending ==
  ASSUME quota \in Quota,
         NEW kind \in {"rides", "moves", "calls", "faults", "reads"}, Spend(kind)
  PROVE  quota' \in Quota /\ quota'.drivers = quota.drivers /\ quota'.open = quota.open
<1>1. quota[kind] \in Nat /\ quota[kind] > 0 /\ quota' = [quota EXCEPT ![kind] = @ - 1]
  BY DEF Spend, Quota
<1>2. quota[kind] - 1 \in Nat
  BY <1>1
<1>3. QED
  BY <1>1, <1>2 DEF Quota

LEMMA MoveGoesOn ==
  ASSUME TrafficTypeOK, NEW r \in RideIds, Move(r)
  PROVE  /\ TrafficTypeOK' /\ RidesGoOn /\ RideIds' = RideIds
         /\ \A q \in RideIds \ {r} : rides'[q] = rides[q]
<1>1. PICK to \in Followed, d \in quota.drivers \cup {None} :
        /\ MayBecome(rides[r], to, d, None)
        /\ rides' = [rides EXCEPT ![r].state = to, ![r].driver = d, ![r].day = day]
  BY DEF Move
<1>2. /\ rides \in Seq(Ride) /\ rides[r] \in Ride /\ day \in Nat /\ quota \in Quota
      /\ rides[r].driver \in Drivers \cup {None} /\ rides[r].state \in RideState
  <2>1. rides \in Seq(Ride) /\ rides[r] \in Ride /\ day \in Nat /\ quota \in Quota
    BY DEF TrafficTypeOK, RideIds
  <2>2. QED
    BY <2>1, FollowedAssumption DEF Ride
<1>3. UNCHANGED day /\ quota' \in Quota /\ d \in Drivers \cup {None}
  BY <1>1, <1>2, Spending DEF Move, Quota
<1>4. rides[r].state \in Accepted => to \in Accepted /\ d = rides[r].driver
  BY <1>1, ChangedStates DEF MayBecome, Accepted
<1>5. /\ DOMAIN rides' = DOMAIN rides
      /\ rides'[r] = [rides[r] EXCEPT !.state = to, !.driver = d, !.day = day]
      /\ \A q \in RideIds \ {r} : rides'[q] = rides[q]
  BY <1>1, <1>2 DEF RideIds
<1>6. /\ rides'[r] \in Ride /\ rides'[r].state = to /\ rides'[r].driver = d
  <2>1. to \in Followed
    BY <1>1
  <2>2. QED
    BY <1>2, <1>3, <1>5, <2>1 DEF Ride
<1>7. rides' \in Seq(Ride)
  BY <1>1, <1>2, <1>5, <1>6 DEF RideIds
<1>8. RideIds' = RideIds
  BY <1>5 DEF RideIds
<1>9. RidesGoOn
  <2>1. \A q \in RideIds : q = r \/ rides'[q] = rides[q]
    BY <1>5
  <2>2. day' \in Nat /\ day <= day'
    BY <1>2, <1>3
  <2>3. QED
    BY <1>4, <1>6, <1>8, <2>1, <2>2 DEF RidesGoOn
<1>10. QED
  BY <1>2, <1>3, <1>5, <1>7, <1>8, <1>9 DEF TrafficTypeOK

LEMMA DueGoesOn ==
  ASSUME TrafficTypeOK, NEW r \in RideIds, Due(r)
  PROVE  /\ TrafficTypeOK' /\ RidesGoOn /\ RideIds' = RideIds
         /\ \A q \in RideIds \ {r} : rides'[q] = rides[q]
<1>1. rides \in Seq(Ride) /\ rides[r] \in Ride /\ day \in Nat
  BY DEF TrafficTypeOK, RideIds
<1>2. /\ DOMAIN rides' = DOMAIN rides
      /\ rides'[r] = [rides[r] EXCEPT !.ahead = FALSE]
      /\ \A q \in RideIds \ {r} : rides'[q] = rides[q]
      /\ UNCHANGED << day, quota >>
  BY <1>1 DEF Due, RideIds
<1>3. /\ rides'[r] \in Ride /\ rides'[r].state = rides[r].state
      /\ rides'[r].driver = rides[r].driver
  BY <1>1, <1>2 DEF Ride
<1>4. rides' \in Seq(Ride)
  BY <1>1, <1>2, <1>3 DEF RideIds, Due
<1>5. RideIds' = RideIds
  BY <1>2 DEF RideIds
<1>6. RidesGoOn
  <2>1. \A q \in RideIds : rides'[q].state = rides[q].state /\ rides'[q].driver = rides[q].driver
    BY <1>2, <1>3
  <2>2. day' \in Nat /\ day <= day'
    BY <1>1, <1>2
  <2>3. QED
    BY <1>5, <2>1, <2>2 DEF RidesGoOn
<1>7. QED
  BY <1>1, <1>2, <1>4, <1>5, <1>6 DEF TrafficTypeOK

LEMMA BookGoesOn ==
  ASSUME TrafficTypeOK, Book
  PROVE  /\ TrafficTypeOK' /\ RidesGoOn
         /\ RideIds' = RideIds \cup {Len(rides) + 1}
         /\ \A q \in RideIds : rides'[q] = rides[q]
<1>1. rides \in Seq(Ride) /\ day \in Nat /\ quota \in Quota
  BY DEF TrafficTypeOK
<1>2. PICK ahead \in {FALSE, quota.scheduled} :
        rides' = Append(rides, [ state |-> "requested", driver |-> None,
                                 ahead |-> ahead, day |-> day ])
  BY DEF Book
<1> DEFINE new == [ state |-> "requested", driver |-> None, ahead |-> ahead, day |-> day ]
           n == Len(rides) + 1
<1>3. new \in Ride
  BY <1>1, FollowedAssumption DEF Ride, Quota
<1> HIDE DEF new
<1>4. /\ rides' \in Seq(Ride) /\ RideIds' = RideIds \cup {n} /\ n \notin RideIds
      /\ rides'[n] = new /\ \A q \in RideIds : rides'[q] = rides[q]
  BY <1>1, <1>2, <1>3 DEF RideIds, new
<1>5. UNCHANGED day /\ quota' \in Quota
  BY <1>1, Spending DEF Book
<1>6. RidesGoOn
  BY <1>1, <1>4, <1>5 DEF RidesGoOn
<1>7. QED
  BY <1>1, <1>4, <1>5, <1>6 DEF TrafficTypeOK

LEMMA MidnightGoesOn ==
  ASSUME TrafficTypeOK, Midnight
  PROVE  TrafficTypeOK' /\ RidesGoOn /\ UNCHANGED rides
<1>1. rides \in Seq(Ride) /\ day \in Nat /\ quota \in Quota
  BY DEF TrafficTypeOK
<1>2. UNCHANGED rides /\ day' = day + 1 /\ quota' \in Quota
  BY <1>1, Spending DEF Midnight
<1>3. QED
  BY <1>1, <1>2 DEF TrafficTypeOK, RidesGoOn, RideIds

-----------------------------------------------------------------------------
(***************************************************************************)
(* The chat: the invariant.                                                *)
(***************************************************************************)

\* A message being written is by one of the parties of a ride that is out of
\* dispatch; the answer to a send is that message.
TalkFits(talk) ==
  /\ talk.at = "writing" =>
       /\ talk.kind # "list" /\ talk.sentAt \in 1 .. clock
       /\ rides # << >> /\ rides[1].state \in Accepted
       /\ talk.driver = rides[1].driver
       /\ talk.by \in {Rider, talk.driver}
  /\ talk.at = "ok" /\ talk.kind # "list" =>
       talk.sentAt \in 1 .. clock /\ talk.got = {talk.sentAt}

TalksFit == \A k \in Calls : talks[k] # None => TalkFits(talks[k])

StoredOK ==
  \A m \in stored :
    /\ m.sentAt \in 1 .. clock /\ rides # << >> /\ rides[1].state \in Accepted
    /\ m.sender \in {Rider, rides[1].driver}

\* In order, and without repetition, but for the messages of early.
Sorted(q, early) ==
  \A i, j \in DOMAIN q : i < j /\ {q[i], q[j]} \cap early = {} => q[i] < q[j]

ShownIn(q) == {q[i] : i \in DOMAIN q}

\* What SheetKeepsItsMessages says of one sheet, and that what is shown or sent
\* while it loads is early.
SheetFits(sheet) ==
  /\ Sorted(sheet.messages, sheet.early)
  /\ sheet.sent \subseteq sheet.early \cup ShownIn(sheet.messages)
  /\ sheet.loading => sheet.sent \subseteq sheet.early /\ (sheet.sending => sheet.rushed)

SheetsFit == \A u \in Users : sheets[u] # None => SheetFits(sheets[u])

Waiting(k) == talks[k] # None /\ talks[k].kind # "lost"

\* A call that is waited for is waited for by a sheet, and what it is sending is
\* later than all that is shown.
Awaited(talk, sheet) ==
  /\ sheet # None
  /\ talk.kind = "list" => sheet.loading
  /\ talk.kind = "send" =>
       /\ sheet.sending
       /\ ~sheet.rushed /\ talk.at \in {"writing", "ok"} =>
            \A i \in DOMAIN sheet.messages : sheet.messages[i] < talk.sentAt

CallsOK ==
  /\ \A k \in Calls : Waiting(k) => Awaited(talks[k], sheets[talks[k].by])
  /\ \A j, k \in Calls :
       Waiting(j) /\ Waiting(k) /\ talks[j].by = talks[k].by
         /\ talks[j].kind = talks[k].kind => j = k

\* A user whose socket is not off when it is counted has been reached or has an
\* excuse.
NoticeFits(n) ==
  n.at = "over" \/ (n.at = "fetch" /\ sockets[n.to] # "off")
    => n.reached # {} \/ n.excuse # {}

NoticesFit == \A n \in notices : NoticeFits(n)

ChatFits ==
  ChatTypeOK /\ TalksFit /\ StoredOK /\ SheetsFit /\ CallsOK /\ NoticesFit

ChatInv == TrafficTypeOK /\ ChatFits

-----------------------------------------------------------------------------
(***************************************************************************)
(* The chat: its steps.                                                    *)
(***************************************************************************)

\* What a call and a sheet hold stays of its type as the clock goes on.
LEMMA ClockGoesOn ==
  ASSUME clock \in Nat, clock' \in Nat, clock <= clock'
  PROVE  /\ 1 .. clock \subseteq (1 .. clock)'
         /\ Talk \subseteq Talk' /\ Sheet \subseteq Sheet'
<1>1. 1 .. clock \subseteq (1 .. clock)'
  OBVIOUS
<1>2. Talk \subseteq Talk'
  BY <1>1 DEF Talk, Users
<1>3. Seq(1 .. clock) \subseteq Seq((1 .. clock)')
  BY <1>1, SeqMonotonic
<1>4. Sheet \subseteq Sheet'
  BY <1>1, <1>3 DEF Sheet
<1>5. QED
  BY <1>1, <1>2, <1>4

LEMMA ElementOf ==
  ASSUME NEW S, NEW q \in Seq(S), NEW i \in DOMAIN q
  PROVE  q[i] \in S
OBVIOUS

LEMMA FirstRide ==
  ASSUME TrafficTypeOK
  PROVE  /\ rides # << >> <=> 1 \in RideIds
         /\ rides # << >> => rides[1] \in Ride /\ rides[1].state \in RideState
<1>1. rides # << >> <=> 1 \in RideIds
  BY DEF TrafficTypeOK, RideIds
<1>2. rides # << >> => rides[1] \in Ride
  BY <1>1 DEF TrafficTypeOK, RideIds
<1>3. QED
  BY <1>1, <1>2, FollowedAssumption DEF Ride

LEMMA RidesRest ==
  ASSUME TrafficTypeOK, UNCHANGED << rides, day >>
  PROVE  RidesGoOn
BY DEF TrafficTypeOK, RidesGoOn, RideIds

\* The rides move on, and nobody talks.
LEMMA ChatPauses ==
  ASSUME ChatInv, RidesGoOn, TrafficTypeOK', UNCHANGED chat
  PROVE  ChatInv'
<1>1. rides # << >> => rides' # << >>
  BY FirstRide DEF ChatInv, ChatFits, RidesGoOn, TrafficTypeOK, RideIds
<1>2. rides # << >> /\ rides[1].state \in Accepted =>
        rides'[1].state \in Accepted /\ rides'[1].driver = rides[1].driver
  BY FirstRide DEF ChatInv, ChatFits, RidesGoOn
<1>3. TalksFit' /\ StoredOK'
  <2>1. ASSUME NEW k \in Calls, talks[k] # None PROVE TalkFits(talks[k])'
    <3>1. TalkFits(talks[k])
      BY <2>1 DEF ChatInv, ChatFits, TalksFit
    <3>2. QED
      BY <1>1, <1>2, <3>1 DEF TalkFits, chat
  <2>2. StoredOK'
    BY <1>1, <1>2 DEF ChatInv, ChatFits, StoredOK, chat
  <2>3. QED
    BY <2>1, <2>2 DEF TalksFit, Calls, chat
<1>4. ChatTypeOK' /\ SheetsFit' /\ CallsOK' /\ NoticesFit'
  BY DEF ChatInv, ChatFits, ChatTypeOK, SheetsFit, CallsOK, NoticesFit, chat, Calls, Talk,
         Sheet, Waiting, NoticeFits
<1>5. QED
  BY <1>3, <1>4 DEF ChatInv, ChatFits

\* A step of one call, k, that leaves the sheets alone: what is left of the call
\* is of the same user and kind, and fits.
LEMMA CallGoesOn ==
  ASSUME ChatInv, UNCHANGED << rides, sheets >>, clock' \in Nat, clock <= clock',
         NEW k \in Calls, talks[k] # None, NEW x \in Talk' \cup {None},
         talks' = [talks EXCEPT ![k] = x],
         x # None => /\ TalkFits(x)'
                     /\ x.by = talks[k].by /\ x.kind = talks[k].kind
                     /\ x.kind # "lost" => Awaited(x, sheets[x.by])
  PROVE  /\ talks' \in Seq(Talk' \cup {None}) /\ sheets' \in [Users -> Sheet' \cup {None}]
         /\ TalksFit' /\ SheetsFit' /\ CallsOK'
<1>1. talks \in Seq(Talk' \cup {None}) /\ sheets' \in [Users -> Sheet' \cup {None}]
  <2>1. talks \in Seq(Talk \cup {None}) /\ sheets \in [Users -> Sheet \cup {None}]
        /\ clock \in Nat
    BY DEF ChatInv, ChatFits, ChatTypeOK
  <2>2. Talk \cup {None} \subseteq Talk' \cup {None}
        /\ Sheet \cup {None} \subseteq Sheet' \cup {None}
    BY <2>1, ClockGoesOn
  <2>3. talks \in Seq(Talk' \cup {None})
    BY <2>1, <2>2, SeqMonotonic
  <2>4. QED
    BY <2>1, <2>2, <2>3
<1>2. /\ talks' \in Seq(Talk' \cup {None}) /\ Calls' = Calls /\ talks'[k] = x
      /\ \A j \in Calls \ {k} : talks'[j] = talks[j]
  BY <1>1 DEF Calls
<1>3. TalksFit'
  <2>1. ASSUME NEW j \in Calls, talks[j] # None PROVE TalkFits(talks[j])'
                                                  \/ talks'[j] # talks[j]
    <3>1. TalkFits(talks[j]) /\ clock \in Nat
      BY <2>1 DEF ChatInv, ChatFits, TalksFit, ChatTypeOK
    <3>2. QED
      BY <3>1 DEF TalkFits
  <2>2. QED
    BY <1>2, <2>1 DEF TalksFit
<1>4. \A j \in Calls : Waiting(j)' =>
        Waiting(j) /\ talks'[j].by = talks[j].by /\ talks'[j].kind = talks[j].kind
  BY <1>2 DEF Waiting
<1>5. CallsOK'
  <2>1. ASSUME NEW j \in Calls, Waiting(j)'
        PROVE  Awaited(talks'[j], sheets'[talks'[j].by])
    BY <1>2, <2>1 DEF Waiting, CallsOK, ChatInv, ChatFits
  <2>2. QED
    BY <1>2, <1>4, <2>1 DEF CallsOK, ChatInv, ChatFits, Awaited
<1>6. SheetsFit'
  BY DEF ChatInv, ChatFits, SheetsFit
<1>7. QED
  BY <1>1, <1>2, <1>3, <1>5, <1>6

LEMMA KeptOf ==
  ASSUME NEW talk
  PROVE  Kept(talk) \in {talk, None}
BY DEF Kept

LEMMA CheckKeeps ==
  ASSUME ChatInv, UNCHANGED << rides, day >>, NEW k \in Calls, talks[k] # None, Check(k)
  PROVE  ChatFits'
<1>1. /\ talks[k] \in Talk /\ TalkFits(talks[k]) /\ clock \in Nat
      /\ talks[k].at = "start" /\ talks[k].kind # "list"
      /\ talks[k].kind # "lost" => Awaited(talks[k], sheets[talks[k].by])
      /\ UNCHANGED << stored, sheets, sockets, notices >>
  <2>1. talks[k] \in Talk \cup {None}
    BY DEF ChatInv, ChatFits, ChatTypeOK, Calls
  <2>2. QED
    BY <2>1 DEF ChatInv, ChatFits, ChatTypeOK, TalksFit, CallsOK, Waiting, Check
<1>2. clock' \in Nat /\ clock <= clock' /\ TalksFit' /\ SheetsFit' /\ CallsOK'
      /\ talks' \in Seq(Talk' \cup {None}) /\ sheets' \in [Users -> Sheet' \cup {None}]
  <2>1. CASE CanChat(talks[k].by)
    <3>1. PICK x : x = [talks[k] EXCEPT !.at = "writing", !.sentAt = clock + 1,
                                        !.driver = rides[1].driver]
      OBVIOUS
    <3>2. clock' = clock + 1 /\ talks' = [talks EXCEPT ![k] = x]
      BY <2>1, <3>1 DEF Check
    <3>3. clock' \in Nat /\ clock <= clock'
      BY <1>1, <3>2
    <3>4. talks[k] \in Talk'
      BY <1>1, <3>3, ClockGoesOn
    <3>5. rides # << >> /\ rides[1].state \in Accepted
          /\ rides[1].driver \in Drivers \cup {None}
          /\ talks[k].by \in {Rider, rides[1].driver}
      <4>1. rides # << >> /\ rides[1].state \in chatEligibleStates
            /\ talks[k].by \in {Rider, rides[1].driver}
        BY <2>1 DEF CanChat
      <4>2. rides[1] \in Ride
        BY <4>1, FirstRide DEF ChatInv
      <4>3. QED
        BY <4>1, <4>2, EligibleStates DEF Ride
    <3>6. x \in Talk' /\ x.at = "writing" /\ x.sentAt = clock' /\ x.driver = rides[1].driver
          /\ x.by = talks[k].by /\ x.kind = talks[k].kind
      <4>1. clock + 1 \in Nat /\ clock' = clock + 1
            /\ rides[1].driver \in Drivers \cup {None}
        BY <1>1, <3>2, <3>5
      <4>2. QED
        BY <3>1, <3>4, <4>1 DEF Talk
    <3>7. TalkFits(x)'
      BY <1>1, <3>2, <3>3, <3>5, <3>6 DEF TalkFits
    <3>8. x.kind # "lost" => Awaited(x, sheets[x.by])
      <4>1. ASSUME x.kind # "lost", sheets[x.by] # None,
                   NEW i \in DOMAIN sheets[x.by].messages
            PROVE  sheets[x.by].messages[i] < x.sentAt
        <5>1. sheets[x.by] \in Sheet
          BY <1>1, <3>6, <4>1 DEF Talk, ChatInv, ChatFits, ChatTypeOK
        <5>2. sheets[x.by].messages \in Seq(1 .. clock)
          BY <5>1 DEF Sheet
        <5>3. sheets[x.by].messages[i] \in 1 .. clock
          BY <4>1, <5>2, ElementOf
        <5>4. QED
          BY <1>1, <3>2, <3>6, <5>3
      <4>2. QED
        BY <1>1, <3>6, <4>1 DEF Awaited
    <3>9. QED
      BY <1>1, <3>2, <3>3, <3>6, <3>7, <3>8, CallGoesOn
  <2>2. CASE ~CanChat(talks[k].by)
    <3>1. PICK x : x = Kept([talks[k] EXCEPT !.at = "failed"])
      OBVIOUS
    <3>2. clock' = clock /\ talks' = [talks EXCEPT ![k] = x]
      BY <2>2, <3>1 DEF Check
    <3>3. talks[k] \in Talk'
      BY <1>1, <3>2, ClockGoesOn
    <3>4. /\ x \in Talk' \cup {None}
          /\ x # None => /\ x.at = "failed" /\ x.by = talks[k].by
                         /\ x.kind = talks[k].kind
      BY <3>1, <3>3, KeptOf DEF Talk
    <3>5. ASSUME x # None
          PROVE  TalkFits(x)' /\ (x.kind # "lost" => Awaited(x, sheets[x.by]))
      <4>1. x.at = "failed" /\ x.by = talks[k].by /\ x.kind = talks[k].kind
        BY <3>4, <3>5
      <4>2. TalkFits(x)'
        BY <4>1 DEF TalkFits
      <4>3. x.kind # "lost" => Awaited(x, sheets[x.by])
        BY <1>1, <4>1 DEF Awaited
      <4>4. QED
        BY <4>2, <4>3
    <3>6. clock' \in Nat /\ clock <= clock' /\ UNCHANGED << rides, sheets >>
      BY <1>1, <3>2
    <3>7. QED
      BY <3>2, <3>4, <3>5, <3>6, CallGoesOn
  <2>3. QED
    BY <2>1, <2>2
<1>3. ChatTypeOK' /\ NoticesFit'
  BY <1>1, <1>2 DEF ChatInv, ChatFits, ChatTypeOK, NoticesFit, NoticeFits, Notice, Message,
                    Users
<1>4. StoredOK'
  <2>1. \A i \in 1 .. clock : i \in (1 .. clock)'
    BY <1>1, <1>2
  <2>2. QED
    BY <1>1, <2>1 DEF ChatInv, ChatFits, StoredOK
<1>5. QED
  BY <1>2, <1>3, <1>4 DEF ChatFits

\* Two notices for each message.
LEMMA AnnouncedFit ==
  ASSUME ChatInv, NEW k \in Calls, talks[k] # None, talks[k].at = "writing"
  PROVE  /\ Announced(k) \subseteq Notice
         /\ \A n \in Announced(k) : NoticeFits(n)
<1>1. /\ talks[k] \in Talk \cup {None} /\ TalkFits(talks[k])
      /\ sockets \in [Users -> {"on", "off", "dead"}]
  BY DEF ChatInv, ChatFits, ChatTypeOK, Calls, TalksFit
<1>2. talks[k].sentAt \in Nat /\ {Rider, talks[k].driver} \ {None} \subseteq Users
  BY <1>1 DEF TalkFits, Talk, Users
<1>3. ASSUME NEW n \in Announced(k)
      PROVE  n \in Notice /\ NoticeFits(n)
  <2>1. PICK u \in {Rider, talks[k].driver} \ {None} :
          n = [ to |-> u, sentAt |-> talks[k].sentAt, at |-> "fetch",
                reached |-> IF sockets[u] = "on" THEN {"socket"} ELSE {},
                excuse |-> IF sockets[u] = "dead" THEN {"dead"} ELSE {} ]
    BY DEF Announced
  <2>2. u \in Users /\ sockets[u] \in {"on", "off", "dead"}
    BY <1>1, <1>2
  <2>3. n \in Notice
    BY <1>2, <2>1, <2>2 DEF Notice
  <2>4. NoticeFits(n)
    BY <2>1, <2>2 DEF NoticeFits
  <2>5. QED
    BY <2>3, <2>4
<1>4. QED
  BY <1>3

LEMMA WriteKeeps ==
  ASSUME ChatInv, UNCHANGED << rides, day >>, NEW k \in Calls, talks[k] # None, Write(k)
  PROVE  ChatFits'
<1>1. /\ talks[k] \in Talk /\ TalkFits(talks[k]) /\ clock \in Nat
      /\ talks[k].at = "writing"
      /\ talks[k].kind # "lost" => Awaited(talks[k], sheets[talks[k].by])
      /\ UNCHANGED << clock, sheets, sockets >>
  <2>1. talks[k] \in Talk \cup {None}
    BY DEF ChatInv, ChatFits, ChatTypeOK, Calls
  <2>2. QED
    BY <2>1 DEF ChatInv, ChatFits, ChatTypeOK, TalksFit, CallsOK, Waiting, Write
<1>2. /\ talks[k].kind # "list" /\ talks[k].sentAt \in 1 .. clock /\ rides # << >>
      /\ rides[1].state \in Accepted /\ talks[k].by \in {Rider, rides[1].driver}
      /\ talks[k].by \in Users
  BY <1>1 DEF TalkFits, Talk
<1>3. clock' \in Nat /\ clock <= clock' /\ talks[k] \in Talk'
  BY <1>1, ClockGoesOn
<1>4. PICK ok \in BOOLEAN :
        IF ok THEN /\ stored' = stored \cup {Created(talks[k])}
                   /\ talks' = [talks EXCEPT ![k] =
                        Kept([@ EXCEPT !.at = "ok", !.got = {talks[k].sentAt}])]
                   /\ notices' = notices \cup Announced(k)
        ELSE /\ talks' = [talks EXCEPT ![k] = Kept([@ EXCEPT !.at = "failed"])]
             /\ UNCHANGED << stored, notices >>
  <2>1. \/ /\ stored' = stored \cup {Created(talks[k])}
           /\ talks' = [talks EXCEPT ![k] =
                Kept([@ EXCEPT !.at = "ok", !.got = {talks[k].sentAt}])]
           /\ notices' = notices \cup Announced(k)
        \/ /\ talks' = [talks EXCEPT ![k] = Kept([@ EXCEPT !.at = "failed"])]
           /\ UNCHANGED << stored, notices >>
    BY DEF Write
  <2>2. QED
    BY <2>1
<1>5. PICK x : x = IF ok THEN Kept([talks[k] EXCEPT !.at = "ok", !.got = {talks[k].sentAt}])
                   ELSE Kept([talks[k] EXCEPT !.at = "failed"])
  OBVIOUS
<1>6. talks' = [talks EXCEPT ![k] = x]
  BY <1>4, <1>5
<1>7. /\ x \in Talk' \cup {None}
      /\ x # None => /\ x.by = talks[k].by /\ x.kind = talks[k].kind
                     /\ x.sentAt = talks[k].sentAt /\ x.at \in {"ok", "failed"}
                     /\ x.at = "ok" => x.got = {x.sentAt}
  <2>1. CASE ok
    <3>1. {talks[k].sentAt} \in SUBSET (1 .. clock)' /\ (1 .. clock)' = 1 .. clock
      BY <1>1, <1>2
    <3>2. [talks[k] EXCEPT !.at = "ok", !.got = {talks[k].sentAt}] \in Talk'
      BY <1>3, <3>1 DEF Talk
    <3>3. x = None \/ x = [talks[k] EXCEPT !.at = "ok", !.got = {talks[k].sentAt}]
      BY <1>5, <2>1, KeptOf
    <3>4. QED
      BY <1>3, <3>2, <3>3 DEF Talk
  <2>2. CASE ~ok
    BY <1>1, <1>3, <1>5, <2>2, KeptOf DEF Talk
  <2>3. QED
    BY <2>1, <2>2
<1>8. ASSUME x # None
      PROVE  TalkFits(x)' /\ (x.kind # "lost" => Awaited(x, sheets[x.by]))
  <2>1. /\ x.by = talks[k].by /\ x.kind = talks[k].kind /\ x.sentAt = talks[k].sentAt
        /\ x.at \in {"ok", "failed"}
        /\ x.at = "ok" => x.got = {x.sentAt}
    BY <1>7, <1>8
  <2>2. TalkFits(x)'
    BY <1>1, <1>2, <2>1 DEF TalkFits
  <2>3. x.kind # "lost" => Awaited(x, sheets[x.by])
    BY <1>1, <2>1 DEF Awaited
  <2>4. QED
    BY <2>2, <2>3
<1>9. /\ TalksFit' /\ SheetsFit' /\ CallsOK'
      /\ talks' \in Seq(Talk' \cup {None}) /\ sheets' \in [Users -> Sheet' \cup {None}]
  BY <1>1, <1>3, <1>6, <1>7, <1>8, CallGoesOn
<1>10. stored' \subseteq Message /\ StoredOK'
  <2>1. \A m \in stored' : m \in stored \/ m = Created(talks[k])
    BY <1>4
  <2>2. Created(talks[k]) \in Message
    BY <1>1, <1>2 DEF Created, Message
  <2>3. QED
    BY <1>1, <1>2, <2>1, <2>2 DEF ChatInv, ChatFits, ChatTypeOK, StoredOK, Created
<1>11. notices' \subseteq Notice /\ NoticesFit'
  <2>1. \A n \in notices' : n \in notices \/ n \in Announced(k)
    BY <1>4
  <2>2. Announced(k) \subseteq Notice /\ \A n \in Announced(k) : NoticeFits(n)
    BY <1>1, AnnouncedFit
  <2>3. \A n \in notices' : n \in Notice /\ NoticeFits(n)
    BY <2>1, <2>2 DEF ChatInv, ChatFits, ChatTypeOK, NoticesFit
  <2>4. QED
    BY <1>1, <2>3 DEF NoticesFit, NoticeFits
<1>12. ChatTypeOK'
  BY <1>1, <1>3, <1>9, <1>10, <1>11 DEF ChatInv, ChatFits, ChatTypeOK, Message, Notice, Users
<1>13. QED
  BY <1>9, <1>10, <1>11, <1>12 DEF ChatFits

LEMMA ListKeeps ==
  ASSUME ChatInv, UNCHANGED << rides, day >>, NEW k \in Calls, talks[k] # None, List(k)
  PROVE  ChatFits'
<1>1. /\ talks[k] \in Talk /\ clock \in Nat
      /\ talks[k].at = "start" /\ talks[k].kind = "list"
      /\ Awaited(talks[k], sheets[talks[k].by])
      /\ UNCHANGED << stored, clock, sheets, sockets, notices >>
  <2>1. talks[k] \in Talk \cup {None}
    BY DEF ChatInv, ChatFits, ChatTypeOK, Calls
  <2>2. QED
    BY <2>1 DEF ChatInv, ChatFits, ChatTypeOK, CallsOK, Waiting, List
<1>2. PICK x : x = IF CanChat(talks[k].by)
                   THEN [talks[k] EXCEPT !.at = "ok", !.got = {m.sentAt : m \in stored}]
                   ELSE [talks[k] EXCEPT !.at = "failed"]
  OBVIOUS
<1>3. talks' = [talks EXCEPT ![k] = x]
  BY <1>2 DEF List
<1>4. {m.sentAt : m \in stored} \in SUBSET (1 .. clock)
  BY DEF ChatInv, ChatFits, StoredOK
<1>5. x \in Talk /\ x.by = talks[k].by /\ x.kind = "list" /\ x.at \in {"ok", "failed"}
  BY <1>1, <1>2, <1>4 DEF Talk
<1>6. x \in Talk' /\ clock' \in Nat /\ clock <= clock'
  BY <1>1, <1>5, ClockGoesOn
<1>7. TalkFits(x)' /\ Awaited(x, sheets[x.by])
  BY <1>1, <1>5 DEF TalkFits, Awaited
<1>8. /\ TalksFit' /\ SheetsFit' /\ CallsOK'
      /\ talks' \in Seq(Talk' \cup {None}) /\ sheets' \in [Users -> Sheet' \cup {None}]
  BY <1>1, <1>3, <1>5, <1>6, <1>7, CallGoesOn
<1>9. ChatTypeOK' /\ StoredOK' /\ NoticesFit'
  BY <1>1, <1>6, <1>8 DEF ChatInv, ChatFits, ChatTypeOK, StoredOK, NoticesFit, NoticeFits,
                          Message, Notice, Users
<1>10. QED
  BY <1>8, <1>9 DEF ChatFits

\* A step of the gateways.
LEMMA NoticesGoOn ==
  ASSUME ChatInv, UNCHANGED << rides, stored, clock, talks, sheets >>,
         sockets' \in [Users -> {"on", "off", "dead"}], notices' \subseteq Notice, NoticesFit'
  PROVE  ChatFits'
BY DEF ChatInv, ChatFits, ChatTypeOK, TalksFit, TalkFits, StoredOK, SheetsFit, CallsOK,
       Waiting, Calls, Talk, Sheet

LEMMA FetchSocketsKeeps ==
  ASSUME ChatInv, UNCHANGED rides, NEW n \in notices, FetchSockets(n)
  PROVE  ChatFits'
<1>1. /\ n \in Notice /\ n.at = "fetch" /\ NoticeFits(n)
      /\ UNCHANGED << stored, clock, talks, sheets, sockets >>
  BY DEF FetchSockets, ChatInv, ChatFits, ChatTypeOK, NoticesFit
<1>2. PICK x : x = [n EXCEPT !.at = IF sockets[n.to] # "off" THEN "over" ELSE "push"]
  OBVIOUS
<1>3. notices' = (notices \ {n}) \cup {x}
  BY <1>2 DEF FetchSockets
<1>4. /\ x \in Notice /\ x.at \in {"over", "push"}
      /\ x.at = "over" => sockets[n.to] # "off"
      /\ x.reached = n.reached /\ x.excuse = n.excuse
  BY <1>1, <1>2 DEF Notice
<1>5. NoticeFits(x)
  BY <1>1, <1>2, <1>4 DEF NoticeFits
<1>6. NoticesFit' /\ notices' \subseteq Notice
  <2>1. \A m \in notices' : m \in Notice /\ NoticeFits(m)
    BY <1>3, <1>4, <1>5 DEF ChatInv, ChatFits, ChatTypeOK, NoticesFit
  <2>2. QED
    BY <1>1, <2>1 DEF NoticesFit, NoticeFits
<1>7. QED
  BY <1>1, <1>6, NoticesGoOn DEF ChatInv, ChatFits, ChatTypeOK

LEMMA PushKeeps ==
  ASSUME ChatInv, UNCHANGED rides, NEW n \in notices, Push(n)
  PROVE  ChatFits'
<1>1. n \in Notice /\ UNCHANGED << stored, clock, talks, sheets, sockets >>
  BY DEF Push, ChatInv, ChatFits, ChatTypeOK
<1>2. PICK x \in {[n EXCEPT !.at = "over", !.reached = @ \cup {"push"}],
                  [n EXCEPT !.at = "over", !.excuse = @ \cup {"no push"}]} :
        notices' = (notices \ {n}) \cup {x}
  BY DEF Push
<1>3. x \in Notice /\ (x.reached # {} \/ x.excuse # {})
  BY <1>1, <1>2 DEF Notice
<1>4. NoticesFit' /\ notices' \subseteq Notice
  <2>1. \A m \in notices' : m \in Notice /\ NoticeFits(m)
    BY <1>2, <1>3 DEF ChatInv, ChatFits, ChatTypeOK, NoticesFit, NoticeFits
  <2>2. QED
    BY <1>1, <2>1 DEF NoticesFit, NoticeFits
<1>5. QED
  BY <1>1, <1>4, NoticesGoOn DEF ChatInv, ChatFits, ChatTypeOK

LEMMA LinkKeeps ==
  ASSUME ChatInv, UNCHANGED rides, NEW u \in Users, Link(u)
  PROVE  ChatFits'
<1>1. /\ UNCHANGED << stored, clock, talks, sheets >>
      /\ sockets \in [Users -> {"on", "off", "dead"}] /\ notices \subseteq Notice
  BY DEF Link, ChatInv, ChatFits, ChatTypeOK
<1>2. /\ sockets' \in [Users -> {"on", "off", "dead"}]
      /\ \A v \in Users \ {u} : sockets'[v] = sockets[v]
      /\ sockets'[u] = "dead" => sockets[u] = "on"
  BY <1>1 DEF Link
<1>3. ASSUME NEW m \in notices'
      PROVE  m \in Notice /\ NoticeFits(m)'
  <2>1. PICK n \in notices :
          m = IF n.to = u /\ n.at = "fetch" /\ sockets'[u] = "on"
              THEN [n EXCEPT !.excuse = @ \cup {"joined"}] ELSE n
    BY <1>3 DEF Link
  <2>2. n \in Notice /\ NoticeFits(n)
    BY <1>1 DEF ChatInv, ChatFits, NoticesFit
  <2>3. CASE n.to = u /\ n.at = "fetch" /\ sockets'[u] = "on"
    <3>1. m \in Notice /\ m.excuse # {}
      BY <2>1, <2>2, <2>3 DEF Notice
    <3>2. QED
      BY <3>1 DEF NoticeFits
  <2>4. CASE ~(n.to = u /\ n.at = "fetch" /\ sockets'[u] = "on")
    <3>1. m = n
      BY <2>1, <2>4
    <3>2. n.at = "fetch" /\ sockets'[n.to] # "off" => sockets[n.to] # "off"
      <4>1. n.to \in Users
        BY <2>2 DEF Notice
      <4>2. QED
        BY <1>1, <1>2, <2>4, <4>1
    <3>3. QED
      BY <2>2, <3>1, <3>2 DEF NoticeFits
  <2>5. QED
    BY <2>3, <2>4
<1>4. NoticesFit' /\ notices' \subseteq Notice
  BY <1>3 DEF NoticesFit
<1>5. QED
  BY <1>1, <1>2, <1>4, NoticesGoOn

\* An open sheet is not the None of a closed one.
LEMMA SheetIsNotNone ==
  ASSUME clock \in Nat
  PROVE  None \notin Sheet
<1>1. 1 .. clock \subseteq Nat
  OBVIOUS
<1>2. Seq(1 .. clock) \subseteq Seq(Nat) /\ SUBSET (1 .. clock) \subseteq SUBSET Nat
  BY <1>1, SeqMonotonic
<1>3. Sheet \subseteq [ messages : Seq(Nat), loading : BOOLEAN, sending : BOOLEAN,
                        sent : SUBSET Nat, rushed : BOOLEAN, early : SUBSET Nat ]
  BY <1>2 DEF Sheet
<1>4. QED
  BY <1>3, ChatAssumption

\* A sheet asks for something it is not waiting for yet.
LEMMA AskKeeps ==
  ASSUME ChatInv, UNCHANGED << rides, stored, clock, sockets, notices >>,
         NEW u \in Users, NEW kind \in {"list", "send"}, Ask(u, kind),
         NEW sheet \in Sheet, sheets' = [sheets EXCEPT ![u] = sheet], SheetFits(sheet),
         kind = "list" => sheet.loading, kind = "send" => sheet.sending,
         \A k \in Calls : Waiting(k) /\ talks[k].by = u =>
           talks[k].kind # kind /\ Awaited(talks[k], sheet)
  PROVE  ChatFits'
<1>1. /\ clock \in Nat /\ talks \in Seq(Talk \cup {None})
      /\ sheets \in [Users -> Sheet \cup {None}]
  BY DEF ChatInv, ChatFits, ChatTypeOK
<1>2. PICK x : x = [ by |-> u, kind |-> kind, at |-> "start", sentAt |-> 0,
                     driver |-> None, got |-> {} ]
  OBVIOUS
<1>3. x \in Talk /\ TalkFits(x)
  BY <1>2 DEF Talk, TalkFits
<1>4. PICK n : n = Len(talks) + 1
  OBVIOUS
<1>5. /\ talks' \in Seq(Talk \cup {None}) /\ Calls' = Calls \cup {n} /\ n \notin Calls
      /\ talks'[n] = x /\ \A k \in Calls : talks'[k] = talks[k]
  <2>1. talks' = Append(talks, x) /\ x \in Talk \cup {None}
    BY <1>2, <1>3 DEF Ask
  <2>2. QED
    BY <1>1, <1>4, <2>1 DEF Calls
<1>6. /\ sheets' \in [Users -> Sheet \cup {None}] /\ sheets'[u] = sheet
      /\ \A v \in Users \ {u} : sheets'[v] = sheets[v]
      /\ sheet # None
  BY <1>1, SheetIsNotNone
<1>7. ChatTypeOK'
  <2>1. Talk' = Talk /\ Sheet' = Sheet
    BY DEF Talk, Sheet
  <2>2. QED
    BY <1>5, <1>6, <2>1 DEF ChatInv, ChatFits, ChatTypeOK
<1>8. TalksFit'
  <2>1. \A k \in Calls : talks[k] # None => TalkFits(talks[k])
    BY DEF ChatInv, ChatFits, TalksFit
  <2>2. \A k \in Calls' : talks'[k] # None => TalkFits(talks'[k])
    BY <1>3, <1>5, <2>1
  <2>3. QED
    BY <2>2 DEF TalksFit, TalkFits
<1>9. SheetsFit'
  BY <1>6 DEF SheetsFit, ChatInv, ChatFits
<1>10. CallsOK'
  <2>1. \A k \in Calls : Waiting(k)' <=> Waiting(k)
    BY <1>5 DEF Waiting
  <2>2. \A k \in Calls : Waiting(k) => talks[k].by \in Users
    BY <1>1 DEF Waiting, Calls, Talk
  <2>3. x # None /\ x.by = u /\ x.kind = kind /\ x.at = "start" => Awaited(x, sheet)
    BY <1>6 DEF Awaited
  <2>4. \A k \in Calls' : Waiting(k)' => Awaited(talks'[k], sheets'[talks'[k].by])
    <3>1. ASSUME NEW k \in Calls, Waiting(k)
          PROVE  Awaited(talks[k], sheets'[talks[k].by])
      <4>1. Awaited(talks[k], sheets[talks[k].by]) /\ talks[k].by \in Users
        BY <2>2, <3>1 DEF CallsOK, ChatInv, ChatFits
      <4>2. CASE talks[k].by = u
        BY <1>6, <3>1, <4>2
      <4>3. CASE talks[k].by # u
        BY <1>6, <4>1, <4>3
      <4>4. QED
        BY <4>2, <4>3
    <3>2. x # None => Awaited(x, sheets'[x.by])
      BY <1>2, <1>6, <2>3
    <3>3. QED
      BY <1>5, <2>1, <3>1, <3>2 DEF Waiting
  <2>5. \A j, k \in Calls' :
          Waiting(j)' /\ Waiting(k)' /\ talks'[j].by = talks'[k].by
            /\ talks'[j].kind = talks'[k].kind => j = k
    BY <1>2, <1>5, <2>1 DEF CallsOK, ChatInv, ChatFits
  <2>6. QED
    BY <2>4, <2>5 DEF CallsOK, Awaited
<1>11. StoredOK' /\ NoticesFit'
  BY DEF ChatInv, ChatFits, StoredOK, NoticesFit, NoticeFits
<1>12. QED
  BY <1>7, <1>8, <1>9, <1>10, <1>11 DEF ChatFits

LEMMA OpenChatKeeps ==
  ASSUME ChatInv, UNCHANGED rides, NEW u \in Users, OpenChat(u)
  PROVE  ChatFits'
<1>1. PICK sheet : sheet = [ messages |-> << >>, loading |-> TRUE, sending |-> FALSE,
                             sent |-> {}, rushed |-> FALSE, early |-> {} ]
  OBVIOUS
<1>2. sheet \in Sheet /\ SheetFits(sheet)
  <2>1. << >> \in Seq(1 .. clock) /\ DOMAIN << >> = {}
    OBVIOUS
  <2>2. QED
    BY <1>1, <2>1 DEF Sheet, SheetFits, Sorted, ShownIn
<1>3. \A k \in Calls : Waiting(k) => talks[k].by # u
  BY DEF OpenChat, ChatInv, ChatFits, CallsOK, Awaited
<1>4. sheets' = [sheets EXCEPT ![u] = sheet] /\ sheet.loading
  BY <1>1 DEF OpenChat
<1>5. QED
  BY <1>2, <1>3, <1>4, AskKeeps DEF OpenChat

LEMMA SendKeeps ==
  ASSUME ChatInv, UNCHANGED rides, NEW u \in Users, Send(u)
  PROVE  ChatFits'
<1>1. sheets[u] \in Sheet /\ SheetFits(sheets[u]) /\ ~sheets[u].sending /\ sheets[u] # None
  BY DEF Send, ChatInv, ChatFits, ChatTypeOK, SheetsFit
<1>2. PICK sheet : sheet = [sheets[u] EXCEPT !.sending = TRUE,
                                             !.rushed = sheets[u].loading]
  OBVIOUS
<1>3. /\ sheet \in Sheet /\ sheet.sending
      /\ sheet.rushed = sheets[u].loading /\ sheet.early = sheets[u].early
      /\ sheet.loading = sheets[u].loading /\ sheet.messages = sheets[u].messages
      /\ sheet.sent = sheets[u].sent
  BY <1>1, <1>2 DEF Sheet
<1>4. SheetFits(sheet)
  BY <1>1, <1>3 DEF SheetFits
<1>5. sheets' = [sheets EXCEPT ![u] = sheet]
  <2>1. sheets \in [Users -> Sheet \cup {None}]
    BY DEF ChatInv, ChatFits, ChatTypeOK
  <2>2. sheets' = [sheets EXCEPT ![u] = [sheets[u] EXCEPT !.sending = TRUE,
                                           !.rushed = sheets[u].loading]]
    BY <1>1, <2>1 DEF Send, Sheet
  <2>3. QED
    BY <1>2, <2>2
<1>6. ASSUME NEW k \in Calls, Waiting(k), talks[k].by = u
      PROVE  talks[k].kind # "send" /\ Awaited(talks[k], sheet)
  <2>1. Awaited(talks[k], sheets[u])
    BY <1>6 DEF ChatInv, ChatFits, CallsOK
  <2>2. sheet # None
    BY <1>3, SheetIsNotNone DEF ChatInv, ChatFits, ChatTypeOK
  <2>3. QED
    BY <1>1, <1>3, <2>1, <2>2 DEF Awaited
<1>7. QED
  BY <1>3, <1>4, <1>5, <1>6, AskKeeps DEF Send

\* What nobody waits for goes on.
LEMMA ForgetFits ==
  ASSUME NEW talk \in Talk, TalkFits(talk)
  PROVE  /\ Forget(talk) \in Talk \cup {None}
         /\ Forget(talk) # None => Forget(talk).kind = "lost" /\ TalkFits(Forget(talk))
<1>1. CASE talk.kind = "list" \/ Over(talk)
  BY <1>1 DEF Forget
<1>2. CASE ~(talk.kind = "list" \/ Over(talk))
  <2>1. PICK x : x = [talk EXCEPT !.kind = "lost"]
    OBVIOUS
  <2>2. Forget(talk) = x
    BY <1>2, <2>1 DEF Forget
  <2>3. x \in Talk /\ x.kind = "lost" /\ x.at = talk.at /\ x.sentAt = talk.sentAt
        /\ x.driver = talk.driver /\ x.by = talk.by /\ x.got = talk.got
    BY <2>1 DEF Talk
  <2>4. TalkFits(x)
    BY <1>2, <2>3 DEF TalkFits, Over
  <2>5. QED
    BY <2>2, <2>3, <2>4
<1>3. QED
  BY <1>1, <1>2

LEMMA CloseChatKeeps ==
  ASSUME ChatInv, UNCHANGED rides, NEW u \in Users, CloseChat(u)
  PROVE  ChatFits'
<1>1. /\ clock \in Nat /\ talks \in Seq(Talk \cup {None})
      /\ sheets \in [Users -> Sheet \cup {None}]
      /\ UNCHANGED << stored, clock, sockets, notices >>
  BY DEF ChatInv, ChatFits, ChatTypeOK, CloseChat
<1>2. /\ sheets' \in [Users -> Sheet \cup {None}] /\ sheets'[u] = None
      /\ \A v \in Users \ {u} : sheets'[v] = sheets[v]
  BY <1>1 DEF CloseChat
<1>3. talks' = [k \in Calls |->
                  IF talks[k] # None /\ talks[k].by = u /\ talks[k].kind # "lost"
                  THEN Forget(talks[k]) ELSE talks[k]]
  BY DEF CloseChat
<1>4. ASSUME NEW k \in Calls
      PROVE  /\ talks'[k] \in Talk \cup {None}
             /\ talks'[k] # None => TalkFits(talks'[k])
             /\ talks'[k] # None /\ talks'[k].kind # "lost" =>
                  talks'[k] = talks[k] /\ talks[k].by # u
  <2>1. /\ talks[k] \in Talk \cup {None}
        /\ talks[k] # None => TalkFits(talks[k])
    BY <1>1 DEF ChatInv, ChatFits, TalksFit, Calls
  <2>2. CASE talks[k] # None /\ talks[k].by = u /\ talks[k].kind # "lost"
    <3>1. talks'[k] = Forget(talks[k])
      BY <1>3, <2>2
    <3>2. QED
      BY <2>1, <2>2, <3>1, ForgetFits
  <2>3. CASE ~(talks[k] # None /\ talks[k].by = u /\ talks[k].kind # "lost")
    <3>1. talks'[k] = talks[k]
      BY <1>3, <2>3
    <3>2. QED
      BY <2>1, <2>3, <3>1
  <2>4. QED
    BY <2>2, <2>3
<1>5. talks' \in Seq(Talk \cup {None}) /\ Calls' = Calls
  <2>1. Len(talks) \in Nat /\ Calls = 1 .. Len(talks)
    BY <1>1 DEF Calls
  <2>2. talks' \in [1 .. Len(talks) -> Talk \cup {None}] /\ DOMAIN talks' = 1 .. Len(talks)
    BY <1>3, <1>4, <2>1
  <2>3. talks' \in Seq(Talk \cup {None})
    BY <2>1, <2>2
  <2>4. Len(talks') = Len(talks)
    BY <2>1, <2>2, <2>3
  <2>5. QED
    BY <2>3, <2>4 DEF Calls
<1>6. ChatTypeOK'
  <2>1. Talk' = Talk /\ Sheet' = Sheet
    BY <1>1 DEF Talk, Sheet
  <2>2. QED
    BY <1>1, <1>2, <1>5, <2>1 DEF ChatInv, ChatFits, ChatTypeOK
<1>7. TalksFit'
  <2>1. \A k \in Calls' : talks'[k] # None => TalkFits(talks'[k])
    BY <1>4, <1>5
  <2>2. QED
    BY <1>1, <2>1 DEF TalksFit, TalkFits
<1>8. SheetsFit'
  BY <1>2 DEF SheetsFit, ChatInv, ChatFits
<1>9. CallsOK'
  <2>1. \A k \in Calls : Waiting(k)' =>
          Waiting(k) /\ talks'[k] = talks[k] /\ talks[k].by # u /\ talks[k].by \in Users
    BY <1>1, <1>4 DEF Waiting, Calls, Talk
  <2>2. \A k \in Calls : Waiting(k)' => Awaited(talks'[k], sheets'[talks'[k].by])
    BY <1>2, <2>1 DEF CallsOK, ChatInv, ChatFits
  <2>3. QED
    BY <1>5, <2>1, <2>2 DEF CallsOK, ChatInv, ChatFits, Awaited
<1>10. StoredOK' /\ NoticesFit'
  BY <1>1 DEF ChatInv, ChatFits, StoredOK, NoticesFit, NoticeFits
<1>11. QED
  BY <1>6, <1>7, <1>8, <1>9, <1>10 DEF ChatFits

\* A message that is later than the others, or early, may go to the end.
LEMMA LastInOrder ==
  ASSUME NEW b \in Nat, NEW early, NEW q \in Seq(1 .. b), Sorted(q, early),
         NEW t \in 1 .. b, \A i \in DOMAIN q : t \in early \/ q[i] < t
  PROVE  Sorted(q \o << t >>, early)
<1> DEFINE n == Len(q)
<1>1. PICK x : x = q \o << t >>
  OBVIOUS
<1>2. n \in Nat /\ DOMAIN q = 1 .. n
  BY ElementOf
<1>3. DOMAIN x = 1 .. n + 1 /\ x[n + 1] = t /\ \A i \in 1 .. n : x[i] = q[i]
  BY <1>1
<1>4. ASSUME NEW i \in 1 .. n + 1, NEW j \in 1 .. n + 1, i < j,
             {x[i], x[j]} \cap early = {}
      PROVE  x[i] < x[j]
  <2>1. i \in 1 .. n /\ x[i] = q[i]
    BY <1>2, <1>3, <1>4
  <2>2. CASE j = n + 1
    BY <1>2, <1>3, <1>4, <2>1, <2>2
  <2>3. CASE j # n + 1
    <3>1. j \in 1 .. n /\ x[j] = q[j]
      BY <1>2, <1>3, <2>3
    <3>2. QED
      BY <1>2, <1>4, <2>1, <3>1 DEF Sorted
  <2>4. QED
    BY <2>2, <2>3
<1>5. QED
  BY <1>1, <1>3, <1>4 DEF Sorted

\* What is appended is shown with the rest.
LEMMA LastIsShown ==
  ASSUME NEW b \in Nat, NEW q \in Seq(1 .. b), NEW t \in 1 .. b
  PROVE  ShownIn(q \o << t >>) = ShownIn(q) \cup {t}
<1> DEFINE n == Len(q)
<1>1. PICK x : x = q \o << t >>
  OBVIOUS
<1>2. n \in Nat /\ DOMAIN q = 1 .. n
  BY ElementOf
<1>3. DOMAIN x = 1 .. n + 1 /\ x[n + 1] = t /\ \A i \in 1 .. n : x[i] = q[i]
  BY <1>1
<1>4. \A i \in 1 .. n : q[i] = x[i] /\ i \in 1 .. n + 1
  BY <1>2, <1>3
<1>5. \A i \in 1 .. n + 1 : i \in 1 .. n \/ x[i] = t
  BY <1>2, <1>3
<1>6. n + 1 \in 1 .. n + 1
  BY <1>2
<1>7. QED
  BY <1>1, <1>2, <1>3, <1>4, <1>5, <1>6 DEF ShownIn

\* The answer to a call fits the sheet that waits for it, and what else the sheet
\* waits for.
LEMMA ShowFits ==
  ASSUME clock \in Nat, NEW sheet \in Sheet, SheetFits(sheet),
         NEW talk \in Talk, TalkFits(talk), talk.kind # "lost", Awaited(talk, sheet),
         NEW ok \in BOOLEAN, ok => talk.at = "ok",
         NEW show, show = Show(sheet, talk, ok)
  PROVE  /\ show \in Sheet /\ SheetFits(show)
         /\ \A other : other.kind \in {"list", "send"} \ {talk.kind} /\ Awaited(other, sheet)
              => Awaited(other, show)
<1>1. CASE talk.kind = "list"
  <2>1. PICK q : q = IF ok THEN InOrder(talk.got) ELSE sheet.messages
    OBVIOUS
  <2>2. show = [sheet EXCEPT !.loading = FALSE, !.messages = q]
    BY <1>1, <2>1 DEF Show, Sheet
  <2>3. q \in Seq(1 .. clock) /\ Sorted(q, sheet.early)
    <3>1. CASE ok
      <4>1. talk.got \in SUBSET (1 .. clock)
        BY DEF Talk
      <4>2. /\ InOrder(talk.got) \in Seq(talk.got)
            /\ \A i, j \in DOMAIN InOrder(talk.got) :
                 i < j => InOrder(talk.got)[i] < InOrder(talk.got)[j]
        BY <4>1, InOrderIsInOrder
      <4>3. Sorted(InOrder(talk.got), sheet.early)
        BY <4>2 DEF Sorted
      <4>4. InOrder(talk.got) \in Seq(1 .. clock)
        BY <4>1, <4>2, SeqMonotonic
      <4>5. QED
        BY <2>1, <3>1, <4>3, <4>4
    <3>2. CASE ~ok
      BY <2>1, <3>2 DEF Sheet, SheetFits
    <3>3. QED
      BY <3>1, <3>2
  <2>4. /\ show \in Sheet /\ show.loading = FALSE /\ show.messages = q
        /\ show.sending = sheet.sending /\ show.sent = sheet.sent
        /\ show.rushed = sheet.rushed /\ show.early = sheet.early
    BY <2>2, <2>3 DEF Sheet
  <2>5. sheet.sent \subseteq sheet.early /\ (sheet.sending => sheet.rushed)
    BY <1>1 DEF SheetFits, Awaited
  <2>6. SheetFits(show)
    BY <2>3, <2>4, <2>5 DEF SheetFits
  <2>7. show # None
    BY <2>4, SheetIsNotNone
  <2>8. QED
    BY <1>1, <2>4, <2>5, <2>6, <2>7 DEF Awaited
<1>2. CASE talk.kind = "send"
  <2>1. sheet.sending /\ (sheet.rushed \/ ~sheet.loading)
    BY <1>2 DEF Awaited, SheetFits
  <2>2. CASE ok
    <3>1. talk.sentAt \in 1 .. clock /\ talk.got = {talk.sentAt}
      BY <1>2, <2>2 DEF TalkFits
    <3>2. InOrder(talk.got) = << talk.sentAt >>
      BY <3>1, InOrderOfOne
    <3>3. PICK q : q = sheet.messages \o << talk.sentAt >>
      OBVIOUS
    <3>4. PICK early : early = IF sheet.rushed THEN sheet.early \cup {talk.sentAt}
                               ELSE sheet.early
      OBVIOUS
    <3>5. show = [sheet EXCEPT !.sending = FALSE, !.sent = sheet.sent \cup {talk.sentAt},
                               !.early = early, !.messages = q]
      BY <1>2, <2>2, <3>1, <3>2, <3>3, <3>4 DEF Show, Sheet
    <3>6. /\ show \in Sheet /\ show.loading = sheet.loading /\ show.messages = q
          /\ ~show.sending /\ show.sent = sheet.sent \cup {talk.sentAt}
          /\ show.rushed = sheet.rushed /\ show.early = early
      <4>1. q \in Seq(1 .. clock)
        BY <3>1, <3>3 DEF Sheet
      <4>2. early \subseteq 1 .. clock
        BY <3>1, <3>4 DEF Sheet
      <4>3. QED
        BY <3>1, <3>5, <4>1, <4>2 DEF Sheet
    <3>7. /\ Sorted(q, early)
          /\ ShownIn(q) = ShownIn(sheet.messages) \cup {talk.sentAt}
      <4>1. Sorted(sheet.messages, sheet.early) /\ sheet.messages \in Seq(1 .. clock)
        BY DEF SheetFits, Sheet
      <4>2. Sorted(sheet.messages, early)
        BY <3>4, <4>1 DEF Sorted
      <4>3. \A i \in DOMAIN sheet.messages :
              talk.sentAt \in early \/ sheet.messages[i] < talk.sentAt
        BY <1>2, <2>2, <3>4 DEF Awaited
      <4>4. Sorted(sheet.messages \o << talk.sentAt >>, early)
        BY <3>1, <4>1, <4>2, <4>3, LastInOrder
      <4>5. QED
        BY <3>1, <3>3, <4>1, <4>4, LastIsShown
    <3>8. SheetFits(show)
      <4>1. /\ sheet.sent \subseteq sheet.early \cup ShownIn(sheet.messages)
            /\ sheet.loading => sheet.sent \subseteq sheet.early
        BY DEF SheetFits
      <4>2. sheet.early \subseteq early /\ (sheet.loading => talk.sentAt \in early)
        BY <2>1, <3>4 DEF Sheet
      <4>3. show.sent \subseteq show.early \cup ShownIn(show.messages)
        BY <3>6, <3>7, <4>1, <4>2
      <4>4. show.loading => show.sent \subseteq show.early
        BY <3>6, <4>1, <4>2
      <4>5. QED
        BY <3>6, <3>7, <4>3, <4>4 DEF SheetFits
    <3>9. show # None
      BY <3>6, SheetIsNotNone
    <3>10. QED
      BY <1>2, <3>6, <3>8, <3>9 DEF Awaited
  <2>3. CASE ~ok
    <3>1. show = [sheet EXCEPT !.sending = FALSE]
      BY <1>2, <2>3 DEF Show, Sheet
    <3>2. /\ show \in Sheet /\ show.loading = sheet.loading /\ ~show.sending
          /\ show.messages = sheet.messages /\ show.sent = sheet.sent
          /\ show.rushed = sheet.rushed /\ show.early = sheet.early
      BY <3>1 DEF Sheet
    <3>3. SheetFits(show)
      BY <2>1, <3>2 DEF SheetFits
    <3>4. show # None
      BY <3>2, SheetIsNotNone
    <3>5. QED
      BY <1>2, <3>2, <3>3, <3>4 DEF Awaited
  <2>4. QED
    BY <2>2, <2>3
<1>3. QED
  BY <1>1, <1>2 DEF Talk

LEMMA HearTalkKeeps ==
  ASSUME ChatInv, UNCHANGED rides, NEW k \in Calls, talks[k] # None, HearTalk(k)
  PROVE  ChatFits'
<1>1. /\ clock \in Nat /\ talks \in Seq(Talk \cup {None})
      /\ sheets \in [Users -> Sheet \cup {None}]
      /\ UNCHANGED << stored, clock, sockets, notices >>
  BY DEF ChatInv, ChatFits, ChatTypeOK, HearTalk
<1>2. PICK u : u = talks[k].by
  OBVIOUS
<1>3. /\ talks[k] \in Talk /\ TalkFits(talks[k]) /\ u \in Users
      /\ talks[k].kind # "lost" /\ Awaited(talks[k], sheets[u])
  <2>1. talks[k] \in Talk
    BY <1>1 DEF Calls
  <2>2. TalkFits(talks[k]) /\ talks[k].kind # "lost"
    BY DEF ChatInv, ChatFits, TalksFit, HearTalk
  <2>3. Awaited(talks[k], sheets[u])
    BY <1>2, <2>2 DEF ChatInv, ChatFits, CallsOK, Waiting
  <2>4. QED
    BY <1>2, <2>1, <2>2, <2>3 DEF Talk
<1>4. sheets[u] \in Sheet /\ SheetFits(sheets[u])
  BY <1>1, <1>3 DEF ChatInv, ChatFits, SheetsFit, Awaited
<1>5. PICK ok \in {talks[k].at = "ok", FALSE} :
        sheets' = [sheets EXCEPT ![u] = Show(sheets[u], talks[k], ok)]
  BY <1>1, <1>2, <1>3 DEF HearTalk
<1>6. PICK show : show = Show(sheets[u], talks[k], ok)
  OBVIOUS
<1>7. /\ show \in Sheet /\ SheetFits(show)
      /\ \A other : other.kind \in {"list", "send"} \ {talks[k].kind}
                      /\ Awaited(other, sheets[u]) => Awaited(other, show)
  <2>1. ok \in BOOLEAN /\ (ok => talks[k].at = "ok")
    BY <1>5
  <2>2. QED
    BY <1>1, <1>3, <1>4, <1>6, <2>1, ShowFits
<1>8. /\ sheets' \in [Users -> Sheet \cup {None}] /\ sheets'[u] = show
      /\ \A v \in Users \ {u} : sheets'[v] = sheets[v]
  <2>1. sheets' = [sheets EXCEPT ![u] = show] /\ show \in Sheet \cup {None}
    BY <1>5, <1>6, <1>7
  <2>2. QED
    BY <1>1, <1>3, <2>1
<1>9. PICK x : x = Forget(talks[k])
  OBVIOUS
<1>10. /\ x \in Talk \cup {None}
       /\ x # None => x.kind = "lost" /\ TalkFits(x)
  BY <1>3, <1>9, ForgetFits
<1>11. talks' \in Seq(Talk \cup {None}) /\ Calls' = Calls /\ talks'[k] = x
       /\ \A j \in Calls \ {k} : talks'[j] = talks[j]
  <2>1. talks' = [talks EXCEPT ![k] = x]
    BY <1>9 DEF HearTalk
  <2>2. QED
    BY <1>1, <1>10, <2>1 DEF Calls
<1>12. ChatTypeOK'
  <2>1. Talk' = Talk /\ Sheet' = Sheet
    BY <1>1 DEF Talk, Sheet
  <2>2. QED
    BY <1>1, <1>8, <1>11, <2>1 DEF ChatInv, ChatFits, ChatTypeOK
<1>13. TalksFit'
  <2>1. \A j \in Calls' : talks'[j] # None => TalkFits(talks'[j])
    BY <1>10, <1>11 DEF TalksFit, ChatInv, ChatFits
  <2>2. QED
    BY <1>1, <2>1 DEF TalksFit, TalkFits
<1>14. SheetsFit'
  BY <1>7, <1>8 DEF SheetsFit, ChatInv, ChatFits
<1>15. CallsOK'
  <2>1. \A j \in Calls : Waiting(j)' =>
          Waiting(j) /\ j # k /\ talks'[j] = talks[j] /\ talks[j] \in Talk
    BY <1>1, <1>10, <1>11 DEF Waiting, Calls
  <2>2. ASSUME NEW j \in Calls, Waiting(j)'
        PROVE  Awaited(talks'[j], sheets'[talks'[j].by])
    <3>1. Waiting(j) /\ j # k /\ talks'[j] = talks[j] /\ talks[j] \in Talk
      BY <2>1, <2>2
    <3>2. /\ Awaited(talks[j], sheets[talks[j].by]) /\ talks[j].by \in Users
          /\ talks[j].kind \in {"list", "send"}
      BY <3>1 DEF CallsOK, ChatInv, ChatFits, Waiting, Talk
    <3>3. CASE talks[j].by = u
      <4>1. Waiting(k)
        BY <1>3 DEF Waiting
      <4>2. talks[j].kind # talks[k].kind
        BY <1>2, <3>1, <3>3, <4>1 DEF CallsOK, ChatInv, ChatFits
      <4>3. QED
        BY <1>7, <1>8, <3>1, <3>2, <3>3, <4>2
    <3>4. CASE talks[j].by # u
      BY <1>8, <3>1, <3>2, <3>4
    <3>5. QED
      BY <3>3, <3>4
  <2>3. QED
    BY <1>11, <2>1, <2>2 DEF CallsOK, ChatInv, ChatFits, Awaited
<1>16. StoredOK' /\ NoticesFit'
  BY <1>1 DEF ChatInv, ChatFits, StoredOK, NoticesFit, NoticeFits
<1>17. QED
  BY <1>12, <1>13, <1>14, <1>15, <1>16 DEF ChatFits

\* Someone talks, or the server goes on with what was said.
LEMMA ChatKeeps ==
  ASSUME ChatInv, ChatNext
  PROVE  ChatInv' /\ RidesGoOn /\ UNCHANGED << rides, day >>
<1>1. quota \in Quota /\ quota.drivers \subseteq Drivers
  BY DEF ChatInv, TrafficTypeOK, Quota
<1>2. {Rider} \cup quota.drivers \subseteq Users
  BY <1>1 DEF Users
<1>3. UNCHANGED << rides, day >> /\ quota' \in Quota
  <2>1. (Spend("calls") \/ Spend("faults") \/ UNCHANGED quota) /\ UNCHANGED << rides, day >>
    BY DEF ChatNext, traffic
  <2>2. QED
    BY <1>1, <2>1, Spending
<1>4. TrafficTypeOK' /\ RidesGoOn
  BY <1>3, RidesRest DEF ChatInv, TrafficTypeOK, RideIds
<1>5. ChatFits'
  <2>1. ASSUME NEW u \in Users, OpenChat(u) \/ Send(u) \/ Link(u) \/ CloseChat(u)
        PROVE  ChatFits'
    BY <1>3, <2>1, OpenChatKeeps, SendKeeps, LinkKeeps, CloseChatKeeps
  <2>2. ASSUME NEW k \in Calls, talks[k] # None, Serve(k)
        PROVE  ChatFits'
    BY <1>3, <2>2, CheckKeeps, WriteKeeps, ListKeeps, HearTalkKeeps DEF Serve
  <2>3. ASSUME NEW n \in notices, FetchSockets(n) \/ Push(n)
        PROVE  ChatFits'
    BY <1>3, <2>3, FetchSocketsKeeps, PushKeeps
  <2>4. \/ \E u \in Users : OpenChat(u) \/ Send(u) \/ Link(u) \/ CloseChat(u)
        \/ \E k \in Calls : talks[k] # None /\ Serve(k)
        \/ \E n \in notices : FetchSockets(n) \/ Push(n)
    BY <1>2 DEF ChatNext
  <2>5. QED
    BY <2>1, <2>2, <2>3, <2>4
<1>6. QED
  BY <1>3, <1>4, <1>5 DEF ChatInv

-----------------------------------------------------------------------------
(***************************************************************************)
(* The lists: the invariant.                                               *)
(***************************************************************************)

\* Older than a ride that was shown and brought back, and next to it among those
\* that were over at the first page and stayed so.
Excused(r) ==
  \E c \in pager.got \cap pager.back :
    r < c /\ \A q \in pager.first \ pager.back : ~(r < q /\ q < c)

\* Of what was over at the first page and stayed so, all has been shown or has an
\* excuse that is not before the cursor, and nothing that is has been shown.
PagesFit ==
  pager # None =>
    /\ pager.twice = {}
    /\ pager.first \cup pager.got \subseteq InState(terminalRideStates) \cup pager.back
    /\ pager.cursor = None =>
         \A r \in pager.first \ (pager.got \cup pager.back) : Excused(r)
    /\ pager.cursor # None =>
         /\ pager.cursor \in pager.got /\ \A r \in pager.got : pager.cursor <= r
         /\ \A r \in pager.first \ (pager.got \cup pager.back) :
              r < pager.cursor \/ Excused(r)

\* The queries that have been answered are right about what has not moved.
TripsFit(read) ==
  \A r \in RideIds \ read.moved :
    /\ read.got.upcoming # None => (r \in read.got.upcoming <=> r \in Upcoming)
    /\ read.got.history # None =>
         /\ r \in read.got.history => r \in InState(terminalRideStates)
         /\ r \in InState(terminalRideStates) \ read.got.history =>
              Cardinality(read.got.history) = PageSize

EarningsFit(read) ==
  \A r \in RideIds \ read.moved :
    /\ read.got.today # None => (r \in read.got.today <=> r \in Earned(read.of, read.today))
    /\ read.got.week # None => (r \in read.got.week <=> r \in Earned(read.of, 0))

ReadFits(read) ==
  /\ read.screen = "trips" => TripsFit(read)
  /\ read.screen = "earnings" => EarningsFit(read)

ReadsFit == \A k \in Slots : reads[k] # None => ReadFits(reads[k])

AnyRead == Read("trips") \cup Read("earnings") \cup Read("overview")

ViewsFit == ViewsTypeOK /\ PagesFit /\ ReadsFit /\ EarningsAddUp

-----------------------------------------------------------------------------
(***************************************************************************)
(* The lists: their steps.                                                 *)
(***************************************************************************)

LEMMA ScreensOfReads ==
  ASSUME NEW read \in AnyRead
  PROVE  read.screen \in Screen /\ read \in Read(read.screen)
BY DEF AnyRead, Read, Screen

\* The step of one read.
LEMMA ReadGoesOn ==
  ASSUME ViewsTypeOK, ReadsFit, UNCHANGED << rides, day >>,
         NEW k, NEW x \in {None} \cup AnyRead, reads' = [reads EXCEPT ![k] = x],
         x # None => ReadFits(x)
  PROVE  reads' \in [Slots -> {None} \cup AnyRead'] /\ ReadsFit'
<1>1. reads \in [Slots -> {None} \cup AnyRead]
  BY DEF ViewsTypeOK, AnyRead
<1>2. AnyRead' = AnyRead
  BY DEF AnyRead, Read, RideIds
<1>3. /\ reads' \in [Slots -> {None} \cup AnyRead]
      /\ \A j \in Slots : reads'[j] = reads[j] \/ reads'[j] = x
  BY <1>1
<1>4. \A j \in Slots : reads'[j] # None => ReadFits(reads'[j])
  BY <1>3 DEF ReadsFit
<1>5. ReadsFit'
  BY <1>4 DEF ReadsFit, ReadFits, TripsFit, EarningsFit, InState, Upcoming, Earned, RideIds
<1>6. QED
  BY <1>2, <1>3, <1>5

LEMMA RequestGoesOn ==
  ASSUME TrafficTypeOK, ViewsTypeOK, ReadsFit, UNCHANGED << rides, day >>,
         NEW screen \in Screen, NEW of \in Drivers \cup {None}, Request(screen, of)
  PROVE  reads' \in [Slots -> {None} \cup AnyRead'] /\ ReadsFit'
<1>1. PICK x : x = [ screen |-> screen, of |-> of, today |-> day, moved |-> {},
                     got |-> [query \in QueriesOf[screen] |-> None] ]
  OBVIOUS
<1>2. \E k : reads' = [reads EXCEPT ![k] = x]
  BY <1>1 DEF Request
<1>3. x \in AnyRead
  <2>1. x \in Read(screen)
    BY <1>1 DEF Read, TrafficTypeOK
  <2>2. QED
    BY <2>1 DEF AnyRead, Screen
<1>4. ReadFits(x)
  <2>1. CASE screen = "trips"
    <3>1. x.screen = "trips" /\ x.got.upcoming = None /\ x.got.history = None
      BY <1>1, <2>1 DEF QueriesOf
    <3>2. QED
      BY <3>1 DEF ReadFits, TripsFit
  <2>2. CASE screen = "earnings"
    <3>1. x.screen = "earnings" /\ x.got.today = None /\ x.got.week = None
      BY <1>1, <2>2 DEF QueriesOf
    <3>2. QED
      BY <3>1 DEF ReadFits, EarningsFit
  <2>3. CASE screen = "overview"
    BY <1>1, <2>3 DEF ReadFits
  <2>4. QED
    BY <2>1, <2>2, <2>3 DEF Screen
<1>5. QED
  BY <1>2, <1>3, <1>4, ReadGoesOn

LEMMA ResultsAreRides ==
  ASSUME NEW query \in UNION {QueriesOf[s] : s \in Screen}, NEW of, NEW today
  PROVE  Result(query, of, today) \in SUBSET RideIds
<1>1. query \in {"upcoming", "history", "today", "week", "byState", "completedToday", "recent"}
  BY DEF QueriesOf, Screen
<1>2. /\ Upcoming \subseteq RideIds /\ Active \subseteq RideIds
      /\ HistoryPage(None) \subseteq RideIds /\ Newest(RideIds, Recent) \subseteq RideIds
      /\ \A d, s : Earned(d, s) \subseteq RideIds /\ CompletedSince(s) \subseteq RideIds
  BY DEF Upcoming, Active, HistoryPage, HistoryFrom, Newest, Earned, CompletedSince, InState
<1>3. QED
  BY <1>1, <1>2 DEF Result

\* A page shows rides that are over, and is full when it leaves some out.
LEMMA PageIsOfTheHistory ==
  ASSUME TrafficTypeOK
  PROVE  /\ HistoryPage(None) \subseteq InState(terminalRideStates)
         /\ HistoryPage(None) # InState(terminalRideStates) =>
              Cardinality(HistoryPage(None)) = PageSize
<1> DEFINE all == InState(terminalRideStates)
<1>1. HistoryPage(None) = Newest(all, PageSize)
  <2>1. HistoryFrom(None) = all
    BY DEF HistoryFrom
  <2>2. QED
    BY <2>1 DEF HistoryPage
<1>2. all \in SUBSET (1 .. Len(rides)) /\ Len(rides) \in Nat
  BY DEF InState, RideIds, TrafficTypeOK
<1>3. Newest(all, PageSize) \subseteq all
  BY DEF Newest
<1>4. Newest(all, PageSize) # all => Cardinality(Newest(all, PageSize)) = PageSize
  BY <1>2, NewestIsFull, PageAssumption
<1>5. QED
  BY <1>1, <1>3, <1>4

LEMMA RunQueryGoesOn ==
  ASSUME TrafficTypeOK, ViewsTypeOK, ReadsFit, UNCHANGED << rides, day >>,
         NEW k \in Slots, NEW query, RunQuery(k, query)
  PROVE  reads' \in [Slots -> {None} \cup AnyRead'] /\ ReadsFit'
<1>1. PICK read : read = reads[k]
  OBVIOUS
<1>2. /\ read \in AnyRead /\ ReadFits(read) /\ read.screen \in Screen
      /\ read \in Read(read.screen) /\ query \in QueriesOf[read.screen]
  <2>1. read \in AnyRead /\ ReadFits(read) /\ query \in DOMAIN read.got
    BY <1>1 DEF RunQuery, ViewsTypeOK, AnyRead, ReadsFit
  <2>2. read.screen \in Screen /\ read \in Read(read.screen)
    BY <2>1, ScreensOfReads
  <2>3. DOMAIN read.got = QueriesOf[read.screen]
    BY <2>2 DEF Read
  <2>4. QED
    BY <2>1, <2>2, <2>3
<1>3. PICK v : v = Result(query, read.of, read.today)
  OBVIOUS
<1>4. v \in SUBSET RideIds
  BY <1>2, <1>3, ResultsAreRides
<1>5. PICK x : x = [read EXCEPT !.got = [read.got EXCEPT ![query] = v]]
  OBVIOUS
<1>6. reads' = [reads EXCEPT ![k] = x]
  BY <1>1, <1>3, <1>5 DEF RunQuery
<1>7. /\ x \in Read(read.screen) /\ x.screen = read.screen /\ x.of = read.of
      /\ x.today = read.today /\ x.moved = read.moved
      /\ x.got = [read.got EXCEPT ![query] = v]
      /\ read.got \in [QueriesOf[read.screen] -> {None} \cup SUBSET RideIds]
  BY <1>2, <1>4, <1>5 DEF Read
<1>8. x \in AnyRead
  BY <1>2, <1>7 DEF AnyRead, Screen
<1>9. ReadFits(x)
  <2>1. CASE read.screen = "trips"
    <3>1. query \in {"upcoming", "history"} /\ QueriesOf["trips"] = {"upcoming", "history"}
      BY <1>2, <2>1 DEF QueriesOf
    <3>2. TripsFit(read)
      BY <1>2, <2>1 DEF ReadFits
    <3>3. CASE query = "upcoming"
      <4>1. v = Upcoming /\ x.got.upcoming = v /\ x.got.history = read.got.history
        BY <1>3, <1>7, <2>1, <3>1, <3>3 DEF Result
      <4>2. TripsFit(x)
        BY <1>7, <3>2, <4>1 DEF TripsFit
      <4>3. QED
        BY <1>7, <2>1, <4>2 DEF ReadFits
    <3>4. CASE query = "history"
      <4>1. v = HistoryPage(None) /\ x.got.history = v
            /\ x.got.upcoming = read.got.upcoming
        BY <1>3, <1>7, <2>1, <3>1, <3>4 DEF Result
      <4>2. TripsFit(x)
        <5>1. v \subseteq InState(terminalRideStates)
              /\ (v # InState(terminalRideStates) => Cardinality(v) = PageSize)
          BY <4>1, PageIsOfTheHistory
        <5>2. QED
          BY <1>7, <3>2, <4>1, <5>1 DEF TripsFit
      <4>3. QED
        BY <1>7, <2>1, <4>2 DEF ReadFits
    <3>5. QED
      BY <3>1, <3>3, <3>4
  <2>2. CASE read.screen = "earnings"
    <3>1. query \in {"today", "week"} /\ QueriesOf["earnings"] = {"today", "week"}
      BY <1>2, <2>2 DEF QueriesOf
    <3>2. EarningsFit(read)
      BY <1>2, <2>2 DEF ReadFits
    <3>3. CASE query = "today"
      <4>1. v = Earned(read.of, read.today) /\ x.got.today = v
            /\ x.got.week = read.got.week
        BY <1>3, <1>7, <2>2, <3>1, <3>3 DEF Result
      <4>2. EarningsFit(x)
        BY <1>7, <3>2, <4>1 DEF EarningsFit
      <4>3. QED
        BY <1>7, <2>2, <4>2 DEF ReadFits
    <3>4. CASE query = "week"
      <4>1. v = Earned(read.of, 0) /\ x.got.week = v /\ x.got.today = read.got.today
        BY <1>3, <1>7, <2>2, <3>1, <3>4 DEF Result
      <4>2. EarningsFit(x)
        BY <1>7, <3>2, <4>1 DEF EarningsFit
      <4>3. QED
        BY <1>7, <2>2, <4>2 DEF ReadFits
    <3>5. QED
      BY <3>1, <3>3, <3>4
  <2>3. CASE read.screen = "overview"
    BY <1>7, <2>3 DEF ReadFits
  <2>4. QED
    BY <1>2, <2>1, <2>2, <2>3 DEF Screen
<1>10. QED
  BY <1>6, <1>8, <1>9, ReadGoesOn

\* A ride moves under the reads.
LEMMA TouchedGoesOn ==
  ASSUME ViewsTypeOK, ReadsFit, RidesGoOn, TrafficTypeOK, NEW r,
         RideIds' = RideIds \cup {r}, \A q \in RideIds \ {r} : rides'[q] = rides[q],
         Touched(r)
  PROVE  reads' \in [Slots -> {None} \cup AnyRead'] /\ ReadsFit'
<1>1. day \in Nat /\ day' \in Nat /\ day <= day' /\ r \in RideIds' /\ RideIds \subseteq RideIds'
  BY DEF RidesGoOn, TrafficTypeOK
<1>2. ASSUME NEW screen PROVE Read(screen) \subseteq Read(screen)'
  <2>1. 0 .. day \subseteq (0 .. day)' /\ SUBSET RideIds \subseteq SUBSET RideIds'
    BY <1>1
  <2>2. QED
    BY <2>1 DEF Read
<1>3. AnyRead \subseteq AnyRead'
  BY <1>2 DEF AnyRead
<1>4. ASSUME NEW k \in Slots, reads[k] # None
      PROVE  reads'[k] \in AnyRead' /\ ReadFits(reads[k])'
  <2>1. PICK read : read = reads[k]
    OBVIOUS
  <2>2. read \in AnyRead /\ ReadFits(read)
    BY <1>4, <2>1 DEF ViewsTypeOK, AnyRead, ReadsFit
  <2>3. read.screen \in Screen /\ read \in Read(read.screen)
    BY <2>2, ScreensOfReads
  <2>4. CASE read.screen = "overview"
    <3>1. reads'[k] = read
      BY <2>1, <2>4 DEF Touched
    <3>2. QED
      BY <1>3, <2>2, <2>4, <3>1 DEF ReadFits
  <2>5. CASE read.screen # "overview"
    <3>1. PICK x : x = [read EXCEPT !.moved = read.moved \cup {r}]
      OBVIOUS
    <3>2. reads'[k] = x
      BY <1>4, <2>1, <2>5, <3>1 DEF Touched
    <3>3. read \in Read(read.screen)'
      BY <1>2, <2>3
    <3>4. /\ x \in Read(read.screen)' /\ x.screen = read.screen /\ x.of = read.of
          /\ x.today = read.today /\ x.moved = read.moved \cup {r} /\ x.got = read.got
      BY <1>1, <3>1, <3>3 DEF Read
    <3>5. x \in AnyRead'
      BY <2>3, <3>4 DEF AnyRead, Screen
    <3>6. \A q \in RideIds' \ x.moved : q \in RideIds \ read.moved /\ rides'[q] = rides[q]
      BY <3>4
    <3>7. CASE read.screen = "trips"
      <4>1. \A q \in RideIds' \ x.moved :
              /\ q \in Upcoming <=> q \in Upcoming'
              /\ q \in InState(terminalRideStates) <=> q \in InState(terminalRideStates)'
        BY <1>1, <3>6 DEF Upcoming, InState
      <4>2. TripsFit(read)
        BY <2>2, <3>7 DEF ReadFits
      <4>3. TripsFit(x)'
        BY <3>4, <3>6, <4>1, <4>2 DEF TripsFit
      <4>4. QED
        BY <3>2, <3>4, <3>5, <3>7, <4>3 DEF ReadFits
    <3>8. CASE read.screen = "earnings"
      <4>1. \A q \in RideIds' \ x.moved : \A d, s : q \in Earned(d, s) <=> q \in Earned(d, s)'
        BY <1>1, <3>6 DEF Earned, InState
      <4>2. EarningsFit(read)
        BY <2>2, <3>8 DEF ReadFits
      <4>3. EarningsFit(x)'
        BY <3>4, <3>6, <4>1, <4>2 DEF EarningsFit
      <4>4. QED
        BY <3>2, <3>4, <3>5, <3>8, <4>3 DEF ReadFits
    <3>9. QED
      BY <2>3, <2>5, <3>7, <3>8 DEF Screen
  <2>6. QED
    BY <2>4, <2>5
<1>5. \A k \in Slots : reads[k] = None => reads'[k] = None
  BY DEF Touched
<1>6. reads' \in [Slots -> {None} \cup AnyRead']
  <2>1. \A k \in Slots : reads'[k] \in {None} \cup AnyRead'
    BY <1>4, <1>5
  <2>2. reads' = [k \in Slots |-> reads'[k]]
    BY DEF Touched
  <2>3. QED
    BY <2>1, <2>2
<1>7. ReadsFit'
  BY <1>4, <1>5 DEF ReadsFit
<1>8. QED
  BY <1>6, <1>7

\* The rows from the cursor on: if one more than the cursor's ride is missing, that
\* ride is not over, and the missing one is the first after it.
LEMMA HistoryGoesOn ==
  ASSUME TrafficTypeOK, NEW cursor \in RideIds
  PROVE  /\ \A r \in HistoryFrom(cursor) : r < cursor
         /\ \A r \in InState(terminalRideStates) \ HistoryFrom(cursor) : r < cursor =>
              /\ cursor \notin InState(terminalRideStates)
              /\ \A q \in InState(terminalRideStates) : ~(r < q /\ q < cursor)
<1>1. PICK rows : rows = {r \in InState(terminalRideStates) : r <= cursor}
  OBVIOUS
<1>2. RideIds = 1 .. Len(rides) /\ Len(rides) \in Nat /\ rows \in SUBSET (1 .. Len(rides))
  BY <1>1 DEF InState, RideIds, TrafficTypeOK
<1>3. cursor \in Nat /\ cursor # None /\ \A r \in rows : r \in Nat /\ r <= cursor
  BY <1>1, <1>2, NoneAssumption
<1>4. HistoryFrom(cursor) = rows \ Newest(rows, 1)
  BY <1>1, <1>3 DEF HistoryFrom
<1>5. \A t \in Newest(rows, 1) : t \in rows /\ \A q \in rows : q <= t
  BY <1>2, NewestIsLast
<1>6. ASSUME NEW r \in HistoryFrom(cursor) PROVE r < cursor
  <2>1. r \in rows \ Newest(rows, 1)
    BY <1>4
  <2>2. PICK t : t \in Newest(rows, 1)
    <3>1. rows # {} /\ 1 \in Nat \ {0}
      BY <2>1
    <3>2. QED
      BY <1>2, <3>1, NewestIsNotEmpty
  <2>3. r < t
    BY <1>2, <2>1, <2>2, NewestIsAbove
  <2>4. t \in Nat /\ t <= cursor /\ r \in Nat
    BY <1>3, <1>5, <2>1, <2>2
  <2>5. QED
    BY <1>3, <2>3, <2>4
<1>7. ASSUME NEW r \in InState(terminalRideStates) \ HistoryFrom(cursor), r < cursor,
             NEW q \in InState(terminalRideStates), r < q, q <= cursor
      PROVE  FALSE
  <2>1. r \in RideIds /\ q \in RideIds
    BY DEF InState
  <2>2. r \in Nat /\ q \in Nat
    BY <1>2, <2>1
  <2>3. r \in rows /\ q \in rows
    BY <1>1, <1>3, <1>7, <2>2
  <2>4. r \in Newest(rows, 1)
    BY <1>4, <2>3
  <2>5. q <= r
    BY <1>5, <2>3, <2>4
  <2>6. QED
    BY <1>7, <2>2, <2>5
<1>8. \A q \in InState(terminalRideStates) : q \in Nat
  BY <1>2 DEF InState
<1>9. QED
  BY <1>3, <1>6, <1>7, <1>8

\* What a page leaves out goes on before its cursor, and without one nothing is
\* left.
LEMMA NextCursorIsNext ==
  ASSUME TrafficTypeOK, NEW cursor
  PROVE  /\ HistoryPage(cursor) \subseteq HistoryFrom(cursor)
         /\ HistoryFrom(cursor) \subseteq InState(terminalRideStates)
         /\ NextCursor(cursor) = None => HistoryPage(cursor) = HistoryFrom(cursor)
         /\ NextCursor(cursor) # None =>
              /\ NextCursor(cursor) \in HistoryPage(cursor)
              /\ \A q \in HistoryPage(cursor) : NextCursor(cursor) <= q
              /\ \A r \in HistoryFrom(cursor) \ HistoryPage(cursor) :
                   r < NextCursor(cursor)
<1>1. PICK all : all = HistoryFrom(cursor)
  OBVIOUS
<1>2. PICK page : page = HistoryPage(cursor)
  OBVIOUS
<1>3. PICK next : next = NextCursor(cursor)
  OBVIOUS
<1>4. page = Newest(all, PageSize) /\ page \subseteq all
  BY <1>1, <1>2 DEF HistoryPage, Newest
<1>5. all \subseteq InState(terminalRideStates)
  BY <1>1 DEF HistoryFrom
<1>6. all \in SUBSET (1 .. Len(rides)) /\ Len(rides) \in Nat
  BY <1>5 DEF InState, RideIds, TrafficTypeOK
<1>7. \A r \in all \ page : \A q \in page : r < q
  BY <1>4, <1>6, NewestIsAbove, PageAssumption
<1>8. next = IF page = all THEN None ELSE CHOOSE r \in page : \A q \in page : r <= q
  BY <1>1, <1>2, <1>3 DEF NextCursor
<1>9. CASE page = all
  BY <1>1, <1>2, <1>3, <1>5, <1>8, <1>9
<1>10. CASE page # all
  <2>1. page \in SUBSET Nat /\ page # {}
    <3>1. all # {}
      BY <1>4, <1>10
    <3>2. Newest(all, PageSize) # {}
      BY <1>6, <3>1, NewestIsNotEmpty, PageAssumption
    <3>3. \A r \in page : r \in Nat
      BY <1>4, <1>6
    <3>4. QED
      BY <1>4, <3>2, <3>3
  <2>2. \E m \in page : \A q \in page : m <= q
    BY <2>1, Smallest
  <2>3. next = CHOOSE r \in page : \A q \in page : r <= q
    BY <1>8, <1>10
  <2>4. next \in page /\ \A q \in page : next <= q
    BY <2>2, <2>3
  <2>5. next # None
    BY <2>1, <2>4, NoneAssumption
  <2>6. QED
    BY <1>1, <1>2, <1>3, <1>4, <1>5, <1>7, <2>4, <2>5
<1>11. QED
  BY <1>9, <1>10

\* An excuse stays one.
LEMMA ExcusedStays ==
  ASSUME pager.got \subseteq pager'.got, pager.back \subseteq pager'.back,
         pager'.first = pager.first, NEW r, Excused(r)
  PROVE  Excused(r)'
BY DEF Excused

LEMMA ReadPageKeeps ==
  ASSUME TrafficTypeOK, ViewsTypeOK, PagesFit, UNCHANGED rides, ReadPage
  PROVE  (pager \in {None} \cup Page)' /\ PagesFit'
<1>1. PICK cursor : cursor = IF pager = None THEN None ELSE pager.cursor
  OBVIOUS
<1>2. PICK page : page = HistoryPage(cursor)
  OBVIOUS
<1>3. PICK next : next = NextCursor(cursor)
  OBVIOUS
<1>4. PICK rest : rest = HistoryFrom(cursor)
  OBVIOUS
<1>5. PICK ended : ended = InState(terminalRideStates)
  OBVIOUS
<1>6. /\ page \subseteq rest /\ rest \subseteq ended /\ ended \subseteq RideIds
      /\ next = None => page = rest
      /\ next # None => /\ next \in page /\ \A q \in page : next <= q
                        /\ \A r \in rest \ page : r < next
  BY <1>2, <1>3, <1>4, <1>5, NextCursorIsNext DEF InState
<1>7. /\ RideIds' = RideIds /\ InState(terminalRideStates)' = ended
      /\ Page' = Page /\ RideIds \in SUBSET Nat
  BY <1>5 DEF RideIds, InState, Page, TrafficTypeOK
<1>8. pager' = [ cursor |-> next,
                 got |-> page \cup (IF pager = None THEN {} ELSE pager.got),
                 twice |-> IF pager = None THEN {} ELSE pager.twice \cup (page \cap pager.got),
                 first |-> IF pager = None THEN ended ELSE pager.first,
                 back |-> IF pager = None THEN {} ELSE pager.back ]
  BY <1>1, <1>2, <1>3, <1>5 DEF ReadPage
<1>9. CASE pager = None
  <2>1. rest = ended
    BY <1>1, <1>4, <1>5, <1>9 DEF HistoryFrom
  <2>2. /\ pager'.cursor = next /\ pager'.got = page /\ pager'.twice = {}
        /\ pager'.first = ended /\ pager'.back = {} /\ pager' \in Page
    BY <1>6, <1>8, <1>9 DEF Page
  <2>3. PagesFit'
    BY <1>6, <1>7, <2>1, <2>2 DEF PagesFit
  <2>4. QED
    BY <1>7, <2>2, <2>3
<1>10. CASE pager # None
  <2>1. /\ pager \in Page /\ cursor = pager.cursor /\ cursor # None /\ cursor \in RideIds
        /\ pager.twice = {} /\ pager.first \cup pager.got \subseteq ended \cup pager.back
        /\ cursor \in pager.got /\ \A r \in pager.got : cursor <= r
        /\ \A r \in pager.first \ (pager.got \cup pager.back) : r < cursor \/ Excused(r)
        /\ pager.got \subseteq RideIds /\ pager.first \subseteq RideIds
        /\ pager.back \subseteq RideIds
    BY <1>1, <1>5, <1>10 DEF ReadPage, PagesFit, ViewsTypeOK, Page
  <2>2. /\ \A r \in rest : r < cursor
        /\ \A r \in ended \ rest : r < cursor =>
             cursor \notin ended /\ \A q \in ended : ~(r < q /\ q < cursor)
    BY <1>4, <1>5, <2>1, HistoryGoesOn
  <2>3. page \cap pager.got = {}
    <3>1. \A r \in page : r \in Nat /\ r < cursor
      BY <1>6, <1>7, <2>2
    <3>2. cursor \in Nat /\ \A r \in pager.got : r \in Nat /\ cursor <= r
      BY <1>7, <2>1
    <3>3. \A r \in page : r \notin pager.got
      BY <3>1, <3>2
    <3>4. QED
      BY <3>3
  <2>4. /\ pager'.cursor = next /\ pager'.got = page \cup pager.got /\ pager'.twice = {}
        /\ pager'.first = pager.first /\ pager'.back = pager.back
    BY <1>8, <1>10, <2>1, <2>3
  <2>5. pager' \in Page
    <3>1. page \cup pager.got \in SUBSET RideIds /\ next \in RideIds \cup {None}
      BY <1>6, <2>1
    <3>2. QED
      BY <1>8, <1>10, <2>1, <2>3, <3>1 DEF Page
  <2>6. ASSUME NEW r \in pager.first \ (pager'.got \cup pager.back)
        PROVE  Excused(r)' \/ r \in rest \ page
    <3>1. CASE Excused(r)
      BY <2>4, <3>1, ExcusedStays
    <3>2. CASE r < cursor /\ r \notin rest
      <4>1. r \in ended \ rest
        BY <2>1, <3>2
      <4>2. cursor \in pager.got \cap pager.back
        BY <2>1, <2>2, <3>2, <4>1
      <4>3. \A q \in pager.first \ pager.back : ~(r < q /\ q < cursor)
        BY <2>1, <2>2, <3>2, <4>1
      <4>4. Excused(r)
        BY <3>2, <4>2, <4>3 DEF Excused
      <4>5. QED
        BY <2>4, <4>4, ExcusedStays
    <3>3. QED
      BY <2>1, <2>4, <3>1, <3>2
  <2>7. next # None => \A r \in pager.got : next <= r
    <3>1. next # None => next < cursor /\ next \in Nat /\ cursor \in Nat
      BY <1>6, <1>7, <2>1, <2>2
    <3>2. \A r \in pager.got : r \in Nat /\ cursor <= r
      BY <1>7, <2>1
    <3>3. QED
      BY <3>1, <3>2
  <2>8. PagesFit'
    <3>1. pager'.first \cup pager'.got \subseteq InState(terminalRideStates)' \cup pager'.back
      BY <1>6, <1>7, <2>1, <2>4
    <3>2. next = None =>
            \A r \in pager'.first \ (pager'.got \cup pager'.back) : Excused(r)'
      BY <1>6, <2>4, <2>6
    <3>3. next # None =>
            /\ next \in pager'.got /\ \A r \in pager'.got : next <= r
            /\ \A r \in pager'.first \ (pager'.got \cup pager'.back) :
                 r < next \/ Excused(r)'
      BY <1>6, <2>4, <2>6, <2>7
    <3>4. QED
      BY <2>4, <3>1, <3>2, <3>3 DEF PagesFit
  <2>9. QED
    BY <1>7, <2>5, <2>8
<1>11. QED
  BY <1>9, <1>10

LEMMA PagesRest ==
  ASSUME ViewsTypeOK, PagesFit, UNCHANGED << rides, pager >>
  PROVE  (pager \in {None} \cup Page)' /\ PagesFit'
BY DEF ViewsTypeOK, Page, PagesFit, Excused, InState, RideIds

\* A ride moves under the pages, from the end back perhaps.
LEMMA PagesGoOn ==
  ASSUME ViewsTypeOK, PagesFit, NEW r, RideIds \subseteq RideIds',
         \A q \in RideIds \ {r} : rides'[q] = rides[q], Touched(r)
  PROVE  (pager \in {None} \cup Page)' /\ PagesFit'
<1>1. CASE pager = None
  BY <1>1 DEF Touched, PagesFit
<1>2. CASE pager # None
  <2>1. PICK lost : lost = InState(terminalRideStates) \ InState(terminalRideStates)'
    OBVIOUS
  <2>2. PICK more : more = pager.back \cup (lost \cap {r})
    OBVIOUS
  <2>3. lost \subseteq {r} /\ lost \subseteq RideIds
    BY <2>1 DEF InState
  <2>4. pager \in Page /\ Page \subseteq Page'
    BY <1>2 DEF ViewsTypeOK, Page
  <2>5. pager' = [pager EXCEPT !.back = more]
    <3>1. CASE r \in lost
      BY <1>2, <2>1, <2>2, <2>4, <3>1 DEF Touched, Page
    <3>2. CASE r \notin lost
      <4>1. more = pager.back /\ pager' = pager
        BY <1>2, <2>1, <2>2, <3>2 DEF Touched
      <4>2. QED
        BY <2>4, <4>1 DEF Page
    <3>3. QED
      BY <3>1, <3>2
  <2>6. /\ pager' \in Page /\ pager'.back = more /\ pager'.cursor = pager.cursor
        /\ pager'.got = pager.got /\ pager'.first = pager.first
        /\ pager'.twice = pager.twice
    BY <2>2, <2>3, <2>4, <2>5 DEF Page
  <2>7. InState(terminalRideStates) \cup pager.back
          \subseteq InState(terminalRideStates)' \cup more
    BY <2>1, <2>2, <2>3
  <2>8. \A q : Excused(q) => Excused(q)'
    BY <2>2, <2>6, ExcusedStays
  <2>9. PagesFit'
    BY <1>2, <2>2, <2>6, <2>7, <2>8 DEF PagesFit
  <2>10. QED
    BY <2>4, <2>6, <2>9
<1>3. QED
  BY <1>1, <1>2

\* What the two screens of the app are given.
LEMMA DeliverShows ==
  ASSUME TrafficTypeOK, ViewsTypeOK, ReadsFit, NEW k \in Slots, Deliver(k)
  PROVE  /\ reads[k].screen = "trips" =>
              /\ TripsFit(reads[k])
              /\ reads[k].got.upcoming # None /\ reads[k].got.history # None
         /\ reads[k].screen = "earnings" =>
              reads[k].got.today \ reads[k].got.week \subseteq reads[k].moved
<1>1. PICK read : read = reads[k]
  OBVIOUS
<1>2. /\ read \in AnyRead /\ ReadFits(read)
      /\ \A query \in DOMAIN read.got : read.got[query] # None
  BY <1>1 DEF Deliver, ViewsTypeOK, AnyRead, ReadsFit
<1>3. /\ read.screen \in Screen
      /\ read.got \in [QueriesOf[read.screen] -> {None} \cup SUBSET RideIds]
      /\ read.today \in 0 .. day
  BY <1>2, ScreensOfReads DEF Read
<1>4. read.screen = "trips" =>
        TripsFit(read) /\ read.got.upcoming # None /\ read.got.history # None
  BY <1>2, <1>3 DEF ReadFits, QueriesOf
<1>5. ASSUME read.screen = "earnings"
      PROVE  read.got.today \ read.got.week \subseteq read.moved
  <2>1. /\ EarningsFit(read) /\ read.got.today # None /\ read.got.week # None
        /\ read.got.today \subseteq RideIds
    BY <1>2, <1>3, <1>5 DEF ReadFits, QueriesOf
  <2>2. \A r \in RideIds : rides[r].day \in Nat
    <3>1. \A r \in RideIds : rides[r] \in Ride
      BY DEF TrafficTypeOK, RideIds
    <3>2. QED
      BY <3>1 DEF Ride
  <2>3. Earned(read.of, read.today) \subseteq Earned(read.of, 0)
    BY <2>2 DEF Earned, InState
  <2>4. QED
    BY <2>1, <2>3 DEF EarningsFit
<1>6. QED
  BY <1>1, <1>4, <1>5

LEMMA ViewsTypeParts ==
  /\ ViewsTypeOK <=> reads \in [Slots -> {None} \cup AnyRead] /\ pager \in {None} \cup Page
  /\ ViewsTypeOK' <=> /\ reads' \in [Slots -> {None} \cup AnyRead']
                      /\ (pager \in {None} \cup Page)'
BY DEF ViewsTypeOK, AnyRead

\* Someone reads.
LEMMA ViewsKeep ==
  ASSUME TrafficTypeOK, ViewsFit, ViewsNext
  PROVE  ViewsFit' /\ UNCHANGED << rides, day >> /\ quota' \in Quota
<1>1. UNCHANGED << rides, day >> /\ quota' \in Quota /\ quota.drivers \subseteq Drivers
  <2>1. (Spend("reads") \/ Spend("faults") \/ UNCHANGED quota) /\ UNCHANGED << rides, day >>
    BY DEF ViewsNext, traffic
  <2>2. quota \in Quota
    BY DEF TrafficTypeOK
  <2>3. QED
    BY <2>1, <2>2, Spending DEF Quota
<1>2. ViewsTypeOK /\ PagesFit /\ ReadsFit /\ EarningsAddUp /\ RidesGoOn
  BY <1>1, RidesRest DEF ViewsFit
<1>3. UNCHANGED pager => (pager \in {None} \cup Page)' /\ PagesFit'
  BY <1>1, <1>2, PagesRest
<1>4. ASSUME NEW screen \in Screen, NEW of \in Drivers \cup {None}, Request(screen, of)
      PROVE  ViewsFit'
  <2>1. reads' \in [Slots -> {None} \cup AnyRead'] /\ ReadsFit'
    BY <1>1, <1>2, <1>4, RequestGoesOn
  <2>2. UNCHANGED << pager, earnings >>
    BY <1>4 DEF Request
  <2>3. QED
    BY <1>2, <1>3, <2>1, <2>2, ViewsTypeParts DEF ViewsFit, EarningsAddUp
<1>5. CASE ReadPage
  <2>1. (pager \in {None} \cup Page)' /\ PagesFit'
    BY <1>1, <1>2, <1>5, ReadPageKeeps
  <2>2. UNCHANGED << reads, earnings, rides, day >>
    BY <1>1, <1>5 DEF ReadPage
  <2>3. ReadsFit' /\ AnyRead' = AnyRead /\ EarningsAddUp'
    BY <1>2, <2>2 DEF ReadsFit, ReadFits, TripsFit, EarningsFit, InState, Upcoming, Earned,
                      RideIds, AnyRead, Read, EarningsAddUp
  <2>4. reads' \in [Slots -> {None} \cup AnyRead']
    <3>1. reads \in [Slots -> {None} \cup AnyRead]
      BY <1>2, ViewsTypeParts
    <3>2. reads' = reads /\ AnyRead' = AnyRead
      BY <2>2, <2>3
    <3>3. QED
      BY <3>1, <3>2
  <2>5. QED
    BY <1>1, <2>1, <2>3, <2>4, ViewsTypeParts DEF ViewsFit
<1>6. ASSUME NEW k \in Slots, reads' = [reads EXCEPT ![k] = None], UNCHANGED pager,
             EarningsAddUp'
      PROVE  ViewsFit'
  <2>1. reads' \in [Slots -> {None} \cup AnyRead'] /\ ReadsFit'
    BY <1>1, <1>2, <1>6, ReadGoesOn
  <2>2. QED
    BY <1>3, <1>6, <2>1, ViewsTypeParts DEF ViewsFit
<1>7. ASSUME NEW k \in Slots, FailRead(k)
      PROVE  ViewsFit'
  <2>1. earnings' = None \/ UNCHANGED earnings
    BY <1>7 DEF FailRead
  <2>2. EarningsAddUp'
    BY <1>2, <2>1 DEF EarningsAddUp
  <2>3. QED
    BY <1>6, <1>7, <2>2 DEF FailRead
<1>8. ASSUME NEW k \in Slots, Deliver(k)
      PROVE  ViewsFit'
  <2>1. earnings' = IF reads[k].screen = "earnings" THEN Shown(k) ELSE earnings
    BY <1>8 DEF Deliver
  <2>2. reads[k].screen = "earnings" =>
          Shown(k).got.today \ Shown(k).got.week \subseteq Shown(k).moved
    BY <1>2, <1>8, DeliverShows DEF Shown
  <2>3. EarningsAddUp'
    BY <1>2, <2>1, <2>2 DEF EarningsAddUp
  <2>4. QED
    BY <1>6, <1>8, <2>3 DEF Deliver
<1>9. ASSUME NEW k \in Slots, NEW query, RunQuery(k, query)
      PROVE  ViewsFit'
  <2>1. reads' \in [Slots -> {None} \cup AnyRead'] /\ ReadsFit'
    BY <1>1, <1>2, <1>9, RunQueryGoesOn
  <2>2. UNCHANGED << pager, earnings >>
    BY <1>9 DEF RunQuery
  <2>3. QED
    BY <1>2, <1>3, <2>1, <2>2, ViewsTypeParts DEF ViewsFit, EarningsAddUp
<1>10. \/ \E screen \in Screen : \E of \in Drivers \cup {None} : Request(screen, of)
       \/ ReadPage
       \/ \E k \in Slots : FailRead(k) \/ Deliver(k) \/ \E query : RunQuery(k, query)
  <2>1. LoadTrips \/ LoadEarnings \/ Poll =>
          \E screen \in Screen : \E of \in Drivers \cup {None} : Request(screen, of)
    BY <1>1 DEF LoadTrips, LoadEarnings, Poll, Screen
  <2>2. \A k \in Slots : Proceed(k) => Deliver(k) \/ \E query : RunQuery(k, query)
    BY DEF Proceed
  <2>3. QED
    BY <2>1, <2>2 DEF ViewsNext
<1>11. QED
  BY <1>1, <1>4, <1>5, <1>7, <1>8, <1>9, <1>10

-----------------------------------------------------------------------------
(***************************************************************************)
(* The whole.                                                              *)
(***************************************************************************)

DeskInv == ChatInv /\ ViewsFit

LEMMA DeskStarts == Init => DeskInv
<1> SUFFICES ASSUME Init PROVE DeskInv
  OBVIOUS
<1>1. rides = << >> /\ day = 0 /\ quota \in Quota /\ RideIds = {}
  BY QuotaAssumption DEF Init, TrafficInit, RideIds
<1>2. TrafficTypeOK
  BY <1>1 DEF TrafficTypeOK
<1>3. /\ stored = {} /\ clock = 0 /\ talks = << >> /\ notices = {}
      /\ sheets = [u \in Users |-> None]
      /\ sockets \in [Users -> {"on", "off", "dead"}]
  BY DEF Init, ChatInit
<1>4. Calls = {} /\ talks \in Seq(Talk \cup {None})
  BY <1>3 DEF Calls
<1>5. ChatFits
  BY <1>3, <1>4 DEF ChatFits, ChatTypeOK, TalksFit, StoredOK, SheetsFit, CallsOK, NoticesFit
<1>6. ViewsFit
  BY DEF Init, ViewsInit, ViewsFit, ViewsTypeOK, PagesFit, ReadsFit, EarningsAddUp
<1>7. QED
  BY <1>2, <1>5, <1>6 DEF DeskInv, ChatInv

LEMMA RidesMoveKeeps ==
  ASSUME DeskInv, RidesMove
  PROVE  DeskInv'
<1>1. TrafficTypeOK /\ ChatInv /\ ViewsTypeOK /\ PagesFit /\ ReadsFit /\ EarningsAddUp
  BY DEF DeskInv, ChatInv, ViewsFit
<1>2. ASSUME NEW r, Touched(r), UNCHANGED chat,
             TrafficTypeOK', RidesGoOn, RideIds' = RideIds \cup {r},
             \A q \in RideIds \ {r} : rides'[q] = rides[q]
      PROVE  DeskInv'
  <2>1. ChatInv'
    BY <1>1, <1>2, ChatPauses
  <2>2. reads' \in [Slots -> {None} \cup AnyRead'] /\ ReadsFit'
    BY <1>1, <1>2, TouchedGoesOn
  <2>3. (pager \in {None} \cup Page)' /\ PagesFit'
    BY <1>1, <1>2, PagesGoOn
  <2>4. EarningsAddUp'
    BY <1>1, <1>2 DEF Touched, EarningsAddUp
  <2>5. QED
    BY <2>1, <2>2, <2>3, <2>4, ViewsTypeParts DEF DeskInv, ViewsFit
<1>3. CASE Book /\ Touched(Len(rides) + 1) /\ UNCHANGED chat
  <2>1. PICK r : r = Len(rides) + 1
    OBVIOUS
  <2>2. /\ TrafficTypeOK' /\ RidesGoOn /\ RideIds' = RideIds \cup {r}
        /\ \A q \in RideIds : rides'[q] = rides[q]
    BY <1>1, <1>3, <2>1, BookGoesOn
  <2>3. QED
    BY <1>2, <1>3, <2>1, <2>2
<1>4. ASSUME NEW r \in RideIds, Move(r) \/ Due(r), Touched(r), UNCHANGED chat
      PROVE  DeskInv'
  <2>1. /\ TrafficTypeOK' /\ RidesGoOn /\ RideIds' = RideIds
        /\ \A q \in RideIds \ {r} : rides'[q] = rides[q]
    BY <1>1, <1>4, MoveGoesOn, DueGoesOn
  <2>2. RideIds' = RideIds \cup {r}
    BY <2>1
  <2>3. QED
    BY <1>2, <1>4, <2>1, <2>2
<1>5. CASE Midnight /\ UNCHANGED << chat, views >>
  <2>1. TrafficTypeOK' /\ RidesGoOn /\ UNCHANGED rides
    BY <1>1, <1>5, MidnightGoesOn
  <2>2. UNCHANGED << reads, pager, earnings >> /\ ChatInv'
    BY <1>1, <1>5, <2>1, ChatPauses DEF views
  <2>3. (pager \in {None} \cup Page)' /\ PagesFit'
    BY <1>1, <2>1, <2>2, PagesRest
  <2>4. ReadsFit'
    BY <1>1, <2>1, <2>2 DEF ReadsFit, ReadFits, TripsFit, EarningsFit, InState, Upcoming,
                            Earned, RideIds
  <2>5. AnyRead \subseteq AnyRead'
    <3>1. 0 .. day \subseteq (0 .. day)' /\ RideIds' = RideIds
      BY <1>1, <2>1 DEF TrafficTypeOK, RidesGoOn, RideIds
    <3>2. QED
      BY <3>1 DEF AnyRead, Read
  <2>6. QED
    BY <1>1, <2>2, <2>3, <2>4, <2>5, ViewsTypeParts DEF DeskInv, ViewsFit, EarningsAddUp
<1>6. QED
  BY <1>3, <1>4, <1>5 DEF RidesMove

LEMMA DeskGoesOn == DeskInv /\ [Next]_vars => DeskInv'
<1> SUFFICES ASSUME DeskInv, [Next]_vars PROVE DeskInv'
  OBVIOUS
<1>1. CASE RidesMove
  BY <1>1, RidesMoveKeeps
<1>2. CASE ChatNext /\ UNCHANGED views
  <2>1. ChatInv' /\ RidesGoOn /\ UNCHANGED << rides, day >>
    BY <1>2, ChatKeeps DEF DeskInv
  <2>2. ViewsFit'
    BY <1>2, <2>1 DEF views, DeskInv, ViewsFit, ViewsTypeOK, PagesFit, ReadsFit, ReadFits,
         Excused, EarningsAddUp, TripsFit, EarningsFit, InState, Upcoming, Earned, RideIds,
         Read, Page
  <2>3. QED
    BY <2>1, <2>2 DEF DeskInv
<1>3. CASE ViewsNext /\ UNCHANGED chat
  <2>1. ViewsFit' /\ UNCHANGED << rides, day >> /\ quota' \in Quota
    BY <1>3, ViewsKeep DEF DeskInv, ChatInv
  <2>2. TrafficTypeOK' /\ RidesGoOn
    BY <2>1, RidesRest DEF DeskInv, ChatInv, TrafficTypeOK, RideIds
  <2>3. QED
    BY <1>3, <2>1, <2>2, ChatPauses DEF DeskInv
<1>4. CASE UNCHANGED vars
  <2>1. UNCHANGED << rides, day, quota >> /\ UNCHANGED chat /\ UNCHANGED views
    BY <1>4 DEF vars, traffic
  <2>2. TrafficTypeOK' /\ RidesGoOn
    BY <2>1, RidesRest DEF DeskInv, ChatInv, TrafficTypeOK, RideIds
  <2>3. ChatInv'
    BY <2>1, <2>2, ChatPauses DEF DeskInv
  <2>4. ViewsFit'
    BY <2>1 DEF views, DeskInv, ViewsFit, ViewsTypeOK, PagesFit, ReadsFit, ReadFits,
         Excused, EarningsAddUp, TripsFit, EarningsFit, InState, Upcoming, Earned, RideIds,
         Read, Page
  <2>5. QED
    BY <2>3, <2>4 DEF DeskInv
<1>5. QED
  BY <1>1, <1>2, <1>3, <1>4 DEF Next

\* What chat and lists rest on, beside the rides: the messages on their way, the
\* calls the sheets wait for, the answers a read has so far.
THEOREM DeskInvHolds == Spec => []DeskInv
BY DeskStarts, DeskGoesOn, PTL DEF Spec

\* Every variable of the desk has its type.
THEOREM DeskIsTyped == Spec => []TypeOK
<1>1. DeskInv => TypeOK
  BY DEF DeskInv, ChatInv, ChatFits, ViewsFit, TypeOK
<1>2. QED
  BY <1>1, DeskInvHolds, PTL

\* However often a ride is offered and whenever its chat is checked, each message
\* is by the rider or by the driver the ride is with.
THEOREM MessagesAreTheirs == Spec => []MessagesAreOfTheParties
<1>1. DeskInv => MessagesAreOfTheParties
  BY DEF DeskInv, ChatInv, ChatFits, StoredOK, MessagesAreOfTheParties
<1>2. QED
  BY <1>1, DeskInvHolds, PTL

\* A notice that is over has reached its user, or there is one of three reasons.
THEOREM NoticesReach == Spec => []NoticeMissedForAReason
<1>1. DeskInv => NoticeMissedForAReason
  BY DEF DeskInv, ChatInv, ChatFits, NoticesFit, NoticeFits, NoticeMissedForAReason
<1>2. QED
  BY <1>1, DeskInvHolds, PTL

\* A sheet shows its messages in order and none twice, the user's own among them,
\* but for just those that were sent while the list was loading.
THEOREM SheetsKeepMessages == Spec => []SheetKeepsItsMessages
<1>1. DeskInv => SheetKeepsItsMessages
  BY DEF DeskInv, ChatInv, ChatFits, SheetsFit, SheetFits, Sorted,
         ShownIn, SheetKeepsItsMessages
<1>2. QED
  BY <1>1, DeskInvHolds, PTL

\* The pages of the history, read one after the other while rides end, show no ride
\* twice, and all that were over at the first but for those a late write brought
\* back and, next to one of these that had been shown, the one skipped for it.
THEOREM PagesCover == Spec => []PagesCoverTheHistory
<1>1. DeskInv => PagesCoverTheHistory
  BY DEF DeskInv, ViewsFit, PagesFit, Excused, PagesCoverTheHistory
<1>2. QED
  BY <1>1, DeskInvHolds, PTL

\* Whatever moves between the queries of one load, the trips and the earnings that
\* are shown are right about all that did not.
THEOREM ListsAreRightAboutTheRest == Spec => ListsMissOnlyTheMoved
<1> DEFINE RightTrips ==
      trips' # trips /\ trips' # None =>
        \A r \in RideIds \ trips'.moved :
          /\ (r \in trips'.got.upcoming) = (r \in Upcoming)
          /\ r \notin trips'.got.upcoming \cap trips'.got.history
          /\ \/ r \in trips'.got.upcoming \cup trips'.got.history
             \/ rides[r].state \notin terminalRideStates /\ ~rides[r].ahead
             \/ Cardinality(trips'.got.history) = PageSize
<1>1. DeskInv => EarningsAddUp
  BY DEF DeskInv, ViewsFit
<1>2. DeskInv /\ [Next]_vars => [RightTrips]_views
  <2> SUFFICES ASSUME DeskInv, [Next]_vars, trips' # trips, trips' # None
               PROVE  RightTrips
    OBVIOUS
  <2>1. PICK k \in Slots : Deliver(k) /\ reads[k].screen = "trips"
    BY DEF Next, vars, views, RidesMove, ViewsNext, LoadTrips, LoadEarnings, Poll, Request,
           ReadPage, FailRead, Proceed, RunQuery, Deliver, Touched
  <2>2. trips' = Shown(k)
    BY <2>1 DEF Deliver
  <2>3. PICK read : read = reads[k]
    OBVIOUS
  <2>4. trips'.got = read.got /\ trips'.moved = read.moved
    BY <2>2, <2>3 DEF Shown
  <2>5. TripsFit(read) /\ read.got.upcoming # None /\ read.got.history # None
    BY <2>1, <2>3, DeliverShows DEF DeskInv, ChatInv, ViewsFit
  <2>6. \A r \in RideIds \ read.moved :
          /\ r \in read.got.upcoming <=> r \in Upcoming
          /\ r \in read.got.history => r \in InState(terminalRideStates)
          /\ r \in InState(terminalRideStates) \ read.got.history =>
               Cardinality(read.got.history) = PageSize
    BY <2>5 DEF TripsFit
  <2>7. \A r \in RideIds :
          /\ r \in InState(terminalRideStates) <=> rides[r].state \in terminalRideStates
          /\ r \in Upcoming <=> rides[r].ahead /\ r \notin InState(terminalRideStates)
    BY DEF InState, Upcoming
  <2>8. QED
    BY <2>4, <2>6, <2>7
<1>3. Spec => [][RightTrips]_views
  BY <1>2, DeskInvHolds, PTL DEF Spec
<1>4. QED
  BY <1>1, <1>3, DeskInvHolds, PTL DEF ListsMissOnlyTheMoved, TripsMissOnlyTheMoved
=============================================================================
