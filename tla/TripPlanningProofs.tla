------------------------- MODULE TripPlanningProofs -------------------------
(***************************************************************************)
(* What TripPlanning keeps for any places, categories, policies, roads and *)
(* numbers of calls: types, the list of the search sheet, the fare of the  *)
(* options sheet, the fares that are quoted, and the fare that is booked.  *)
(***************************************************************************)
EXTENDS TripPlanning, SequenceTheorems, TLAPS

-----------------------------------------------------------------------------
(***************************************************************************)
(* Fares, for every policy, distance and duration, and whichever way the   *)
(* half-way cases of Math.round fall.                                      *)
(***************************************************************************)

\* A product of natural numbers is one, and grows with its first factor.
LEMMA Products ==
  ASSUME NEW a \in Nat, NEW b \in Nat
  PROVE  /\ a * b \in Nat
         /\ \A c \in Nat : a <= c => a * b <= c * b
  OBVIOUS

\* The divisors of the code: metres of a kilometre, seconds of a minute,
\* hundredths, the tenths of a route.
Divisor == {10, 60, 100, 1000}

LEMMA Divisors == 10 \in Divisor /\ 60 \in Divisor /\ 100 \in Divisor /\ 1000 \in Divisor
  BY DEF Divisor

\* Rounding a product of natural numbers gives a natural number.
LEMMA RoundedType ==
  ASSUME NEW a \in Nat, NEW b \in Nat, NEW d \in Divisor
  PROVE  Rounded(a, b, d) \in Nat
<1> DEFINE n == a * b
<1>1. n \in Nat BY Products
<1>2. (n \div d) \in Nat /\ (n % d) \in Nat BY <1>1 DEF Divisor
<1>. QED BY <1>2 DEF Rounded

\* Rounding moves a product by half a unit at most.
LEMMA RoundedIsNearest ==
  ASSUME NEW a \in Nat, NEW b \in Nat, NEW d \in Divisor
  PROVE  /\ 2 * d * Rounded(a, b, d) <= 2 * (a * b) + d
         /\ 2 * d * Rounded(a, b, d) + d >= 2 * (a * b)
<1> DEFINE n == a * b  q == n \div d  r == n % d
<1>1. n \in Nat BY Products
<1> HIDE DEF n
<1>2. q \in Nat /\ r \in Nat /\ r < d /\ n = d * q + r BY <1>1 DEF Divisor
<1>3. Rounded(a, b, d) \in {q, q + 1} BY DEF Rounded, n
<1>4. Rounded(a, b, d) = q => 2 * r <= d
  <2>1. SUFFICES ASSUME 2 * r > d PROVE Rounded(a, b, d) = q + 1 
    BY <1>2, <1>3 DEF Divisor
  <2>. QED BY <2>1 DEF Rounded, n
<1>5. Rounded(a, b, d) = q + 1 => 2 * r >= d
  <2>1. SUFFICES ASSUME 2 * r < d PROVE Rounded(a, b, d) = q
    BY <1>2, <1>3 DEF Divisor
  <2>. QED BY <2>1, <1>2 DEF Rounded, n, Divisor
<1>. HIDE DEF q, r
<1>6. CASE Rounded(a, b, d) = q BY <1>6, <1>4, <1>2 DEF n, Divisor
<1>7. CASE Rounded(a, b, d) = q + 1 BY <1>7, <1>5, <1>2 DEF n, Divisor
<1>. QED BY <1>3, <1>6, <1>7

\* Rounding keeps the order of products.
LEMMA RoundedMonotone ==
  ASSUME NEW a \in Nat, NEW c \in Nat, NEW b \in Nat, NEW d \in Divisor,
         a <= c
  PROVE  Rounded(a, b, d) <= Rounded(c, b, d)
<1> DEFINE n == a * b  m == c * b
           R == Rounded(a, b, d)  S == Rounded(c, b, d)
<1>1. n \in Nat /\ m \in Nat /\ n <= m BY Products
<1>2. R \in Nat /\ S \in Nat BY RoundedType
<1>3. CASE n = m
  <2>1. CASE a = c BY <2>1, <1>2
  <2>2. CASE b = 0
    <3>1. Rounded(a, b, d) = 0 /\ Rounded(c, b, d) = 0
      BY <2>2 DEF Rounded, Divisor
    <3>. QED BY <3>1
  <2>3. a * b = c * b /\ b # 0 => a = c OBVIOUS
  <2>. QED BY <1>3, <2>1, <2>2, <2>3
<1>4. CASE n < m
  <2>1. 2 * d * R <= 2 * n + d /\ 2 * d * S + d >= 2 * m
    BY RoundedIsNearest
  <2> HIDE DEF n, m, R, S
  <2>2. 2 * d * R < 2 * d * (S + 1) BY <2>1, <1>4, <1>1, <1>2 DEF Divisor
  <2>. QED BY <2>2, <1>2 DEF Divisor, R, S
<1>. QED BY <1>1, <1>3, <1>4

\* What is charged for distance and for time is a natural number.
LEMMA Parts ==
  ASSUME NEW p \in Policy, NEW m \in Nat, NEW s \in Nat
  PROVE  /\ Rounded(m, p.perKilometer, 1000) \in Nat
         /\ Rounded(s, p.perMinute, 60) \in Nat
<1>1. p.perKilometer \in Nat /\ p.perMinute \in Nat BY DEF Policy
<1>2. \A d \in Divisor : /\ Rounded(m, p.perKilometer, d) \in Nat
                        /\ Rounded(s, p.perMinute, d) \in Nat
  BY <1>1, RoundedType
<1>. QED BY <1>2, Divisors

\* So is every amount on the way to the fare.
LEMMA Amounts ==
  ASSUME NEW p \in Policy, NEW m \in Nat, NEW s \in Nat
  PROVE  /\ Multiplier(p) \in Nat
         /\ Subtotal(p, m, s) \in Nat
         /\ Multiplied(p, m, s) \in Nat
         /\ Raised(p, m, s) \in Nat
<1>1. /\ p.baseFare \in Nat /\ p.perKilometer \in Nat /\ p.perMinute \in Nat
      /\ p.bookingFee \in Nat /\ p.minimumFare \in Nat
      /\ p.categoryMultiplier \in Nat /\ p.demandMultiplier \in Nat
      /\ p.maximumMultiplier \in Nat
  BY DEF Policy
<1>2. p.categoryMultiplier * p.demandMultiplier \in Nat BY <1>1, Products
<1>3. AtMost(p.categoryMultiplier * p.demandMultiplier,
             100 * p.maximumMultiplier) \in Nat
  BY <1>1, <1>2 DEF AtMost
<1>4. Multiplier(p) \in Nat
  BY <1>3, RoundedType, Divisors DEF Multiplier
<1>5. /\ Rounded(m, p.perKilometer, 1000) \in Nat
      /\ Rounded(s, p.perMinute, 60) \in Nat
  BY Parts
<1>6. Subtotal(p, m, s) \in Nat BY <1>1, <1>5 DEF Subtotal
<1>7. Multiplied(p, m, s) \in Nat
  BY <1>4, <1>6, RoundedType, Divisors DEF Multiplied
<1>8. Raised(p, m, s) \in Nat BY <1>1, <1>7 DEF Raised, AtLeast
<1>. QED BY <1>4, <1>6, <1>7, <1>8

\* A policy that passed validatePolicy never yields a fare below its minimum or
\* above its maximum, though the cap is applied after the minimum.
THEOREM FareWithinPolicy ==
  ASSUME NEW p \in Policy, ValidPolicy(p), NEW m \in Nat, NEW s \in Nat
  PROVE  /\ Fare(p, m, s) \in Nat
         /\ Fare(p, m, s) >= p.minimumFare
         /\ p.maximumFare # NoMaximum => Fare(p, m, s) <= p.maximumFare
<1>1. /\ p.minimumFare \in Nat
      /\ p.maximumFare # NoMaximum => p.maximumFare \in Nat
  BY DEF Policy
<1>2. Multiplied(p, m, s) \in Nat /\ Raised(p, m, s) \in Nat BY Amounts
<1>3. Raised(p, m, s) >= p.minimumFare
  BY <1>1, <1>2 DEF Raised, AtLeast
<1>4. CASE CapApplied(p, m, s)
  BY <1>1, <1>4 DEF Fare, CapApplied, ValidPolicy
<1>5. CASE ~CapApplied(p, m, s)
  BY <1>1, <1>2, <1>3, <1>5 DEF Fare, CapApplied
<1>. QED BY <1>4, <1>5

\* A route that is no shorter and takes no less time is no cheaper, whatever
\* the rounding of distance, time and multiplier does in between.
THEOREM LongerNeverCheaper ==
  ASSUME NEW p \in Policy,
         NEW m \in Nat, NEW s \in Nat, NEW n \in Nat, NEW t \in Nat,
         m <= n, s <= t
  PROVE  Fare(p, m, s) <= Fare(p, n, t)
<1>1. /\ p.baseFare \in Nat /\ p.perKilometer \in Nat /\ p.perMinute \in Nat
      /\ p.bookingFee \in Nat /\ p.minimumFare \in Nat
      /\ p.maximumFare # NoMaximum => p.maximumFare \in Nat
  BY DEF Policy
<1>2. /\ Rounded(m, p.perKilometer, 1000) <= Rounded(n, p.perKilometer, 1000)
      /\ Rounded(s, p.perMinute, 60) <= Rounded(t, p.perMinute, 60)
  BY <1>1, RoundedMonotone, Divisors
<1>3. /\ Rounded(m, p.perKilometer, 1000) \in Nat
      /\ Rounded(n, p.perKilometer, 1000) \in Nat
      /\ Rounded(s, p.perMinute, 60) \in Nat
      /\ Rounded(t, p.perMinute, 60) \in Nat
  BY Parts
<1>4. Subtotal(p, m, s) <= Subtotal(p, n, t) BY <1>1, <1>2, <1>3 DEF Subtotal
<1>5. Multiplied(p, m, s) <= Multiplied(p, n, t)
  BY <1>4, Amounts, RoundedMonotone, Divisors DEF Multiplied
<1>6. /\ Multiplied(p, m, s) \in Nat /\ Multiplied(p, n, t) \in Nat
      /\ Raised(p, m, s) \in Nat /\ Raised(p, n, t) \in Nat
  BY Amounts
<1>7. Raised(p, m, s) <= Raised(p, n, t) BY <1>1, <1>5, <1>6 DEF Raised, AtLeast
<1>. QED BY <1>1, <1>6, <1>7 DEF Fare, CapApplied

\* The lines "Minimum fare applied" and "Maximum fare cap applied" are shown
\* exactly when the fare is more, or less, than the multiplied subtotal.
THEOREM ExplanationIsTrue ==
  ASSUME NEW p \in Policy, ValidPolicy(p), NEW m \in Nat, NEW s \in Nat
  PROVE  /\ MinimumApplied(p, m, s) <=> Fare(p, m, s) > Multiplied(p, m, s)
         /\ CapApplied(p, m, s) <=> Fare(p, m, s) < Multiplied(p, m, s)
<1>1. /\ p.minimumFare \in Nat
      /\ p.maximumFare # NoMaximum => p.maximumFare \in Nat
  BY DEF Policy
<1>2. Multiplied(p, m, s) \in Nat BY Amounts
<1>. QED BY <1>1, <1>2
         DEF MinimumApplied, CapApplied, Fare, Raised, AtLeast, ValidPolicy

-----------------------------------------------------------------------------
(***************************************************************************)
(* The search sheet.                                                       *)
(***************************************************************************)

\* Every request of the sheet is of a version it has had, and one of its last
\* version is for the text in the field, as is the timer.
SearchInv ==
  /\ SearchTypeOK
  /\ search # None =>
       /\ search.timer # None => /\ search.timer = search.query
                                 /\ search.version > 0
       /\ \A l \in lookups :
            /\ l.version <= search.version
            /\ l.version = search.version => l.query = search.query
  /\ SearchAnswersTheField

LEMMA SearchOpens ==
  ASSUME NEW mode \in Mode, OpenSearch(mode), lookups = {}
  PROVE  SearchInv'
<1>1. lookups' = {} /\ search' \in Sheet
      /\ search'.query = Empty /\ search'.timer = None
      /\ search'.of = None
  BY SearchAssumption DEF OpenSearch, Sheet
<1>. QED
  BY <1>1, SheetAssumption DEF SearchInv, SearchTypeOK, SearchAnswersTheField

LEMMA TextChanges ==
  ASSUME SearchInv, NEW q \in Queries \cup {Short, Empty}, Type(q)
  PROVE  SearchInv'
<1>1. search \in Sheet /\ lookups' = lookups BY DEF SearchInv, SearchTypeOK, Type
<1>2. PICK b \in BOOLEAN : b = (q \in Queries)
  <2>1. CASE q \in Queries BY <2>1, TRUE = (q \in Queries)
  <2>2. CASE q \notin Queries BY <2>2, FALSE = (q \in Queries)
  <2>. QED BY <2>1, <2>2
<1>3. /\ search' \in Sheet /\ search'.version = search.version + 1
      /\ search'.query = q /\ (q \in Queries => search'.searching = TRUE)
      /\ search'.timer = IF q \in Queries THEN q ELSE None
  <2>1. search' = [search EXCEPT !.query = q, !.version = @ + 1, !.of = None,
                              !.timer = IF q \in Queries THEN q ELSE None,
                              !.searching = b,
                              !.error = FALSE, !.results = {}]
    BY <1>2 DEF Type
  <2>2. search.version \in 0 .. MaxTyping /\ search.version < MaxTyping
    BY <1>1 DEF Type, Sheet
  <2>3. search.version + 1 \in 0 .. MaxTyping BY <2>2, SearchAssumption
  <2>4. q \in Queries => b = TRUE BY <1>2
  <2>. QED BY <1>1, <2>1, <2>3, <2>4 DEF Sheet
<1>4. \A l \in lookups : /\ l.version <= search.version
                         /\ l.version \in Nat
  BY <1>1, SheetAssumption DEF SearchInv, SearchTypeOK
<1>5. search.version \in Nat BY <1>1 DEF Sheet
<1>. QED
  BY <1>1, <1>3, <1>4, <1>5, SheetAssumption
     DEF SearchInv, SearchTypeOK, SearchAnswersTheField

LEMMA SearchStarts ==
  ASSUME SearchInv, TimerFires \/ RetrySearch
  PROVE  SearchInv'
<1>1. /\ search \in Sheet /\ search # None
      /\ lookups \subseteq [version : 1 .. MaxTyping, query : Queries]
  BY DEF SearchInv, SearchTypeOK, TimerFires, RetrySearch
<1>2. search.version \in Nat BY <1>1 DEF Sheet
<1>3. \A l \in lookups : /\ l.version \in Nat /\ l.version <= search.version
                         /\ l.version = search.version => l.query = search.query
  BY <1>1 DEF SearchInv
<1>4. \E v \in 1 .. MaxTyping :
        /\ search' \in Sheet /\ search'.version = v
        /\ search'.query = search.query /\ search'.searching = TRUE
        /\ search'.timer # None => search'.timer = search.query
        /\ search.query \in Queries /\ v >= search.version
        /\ lookups' = lookups \cup {[version |-> v, query |-> search.query]}
  <2>1. CASE TimerFires
    <3>1. /\ search.timer \in Queries /\ search.timer = search.query
          /\ search.version \in 1 .. MaxTyping
      BY <1>1, <2>1, SearchAssumption DEF SearchInv, TimerFires, Sheet
    <3>2. /\ search' \in Sheet /\ search'.version = search.version
          /\ search'.query = search.query /\ search'.searching = TRUE
          /\ search'.timer = None
      BY <1>1, <2>1 DEF TimerFires, Sheet
    <3>3. lookups' = lookups \cup
            {[version |-> search.version, query |-> search.query]}
      BY <2>1, <3>1 DEF TimerFires
    <3>. QED BY <1>2, <3>1, <3>2, <3>3
  <2>2. CASE RetrySearch
    <3>1. /\ search.version + 1 \in 1 .. MaxTyping
          /\ search.version + 1 \in 0 .. MaxTyping
      BY <1>1, <1>2, <2>2, SearchAssumption DEF RetrySearch
    <3>2. /\ search' \in Sheet /\ search'.version = search.version + 1
          /\ search'.query = search.query /\ search'.searching = TRUE
          /\ search'.timer = search.timer
      BY <1>1, <2>2, <3>1 DEF RetrySearch, Sheet
    <3>. QED BY <1>1, <1>2, <2>2, <3>1, <3>2 DEF RetrySearch, SearchInv
  <2>. QED BY <2>1, <2>2
<1>5. PICK v \in 1 .. MaxTyping : <1>4!(v) BY <1>4
<1>6. lookups' \subseteq [version : 1 .. MaxTyping, query : Queries]
  BY <1>1, <1>5
<1>7. \A l \in lookups' :
        /\ l.version <= search'.version
        /\ l.version = search'.version => l.query = search'.query
  BY <1>2, <1>3, <1>5
<1>. QED
  BY <1>5, <1>6, <1>7, SheetAssumption
     DEF SearchInv, SearchTypeOK, SearchAnswersTheField

LEMMA SearchEnds ==
  ASSUME SearchInv, NEW l \in lookups, NEW answer \in Found(l.query),
         SearchAnswered(l, answer)
  PROVE  SearchInv'
<1>1. /\ search \in Sheet /\ search # None
      /\ lookups \subseteq [version : 1 .. MaxTyping, query : Queries]
  BY SheetAssumption DEF SearchInv, SearchTypeOK
<1>2. lookups' \subseteq lookups BY DEF SearchAnswered
<1>3. l.query \in Queries /\ (answer # None => answer \in SUBSET Places)
  BY <1>1, SearchAssumption DEF Found, ProviderFinds
<1>4. CASE l.version # search.version
  BY <1>1, <1>2, <1>4
     DEF SearchInv, SearchTypeOK, SearchAnswersTheField, SearchAnswered
<1>5. CASE l.version = search.version
  <2>1. /\ search' \in Sheet /\ search'.version = search.version
        /\ search'.query = search.query /\ search'.timer = search.timer
        /\ search'.error \/ search'.of = l.query
    BY <1>1, <1>3, <1>5 DEF SearchAnswered, Sheet
  <2>2. l.query = search.query BY <1>1, <1>5 DEF SearchInv
  <2>. QED
    BY <1>1, <1>2, <2>1, <2>2, SheetAssumption
       DEF SearchInv, SearchTypeOK, SearchAnswersTheField
<1>. QED BY <1>4, <1>5

\* Whatever the home screen does, the search sheet keeps its invariant.
LEMMA SearchKept ==
  ASSUME SearchInv, [Next]_vars
  PROVE  SearchInv'
<1>1. CASE UNCHANGED << search, lookups >>
  BY <1>1 DEF SearchInv, SearchTypeOK, SearchAnswersTheField
<1>2. CASE SearchStep
  <2>1. CASE CloseSearch
    BY <2>1 DEF CloseSearch, SearchInv, SearchTypeOK, SearchAnswersTheField
  <2>. QED BY <1>2, <2>1, TextChanges, SearchStarts, SearchEnds DEF SearchStep
<1>3. ASSUME NEW mode \in Mode, BeginSearch(mode) PROVE SearchInv'
  <2>1. OpenSearch(mode) /\ lookups = {}
    BY <1>3 DEF BeginSearch, Composing, SearchInv, SearchTypeOK
  <2>. QED BY <2>1, SearchOpens
<1>4. ASSUME NEW place \in Places, ChoosePickup(place) \/ ChooseDestination(place)
      PROVE  SearchInv'
  BY <1>4 DEF ChoosePickup, ChooseDestination, CloseSearch, SearchInv,
              SearchTypeOK, SearchAnswersTheField
<1>5. ASSUME NEW k \in Underway, Serve(k) PROVE UNCHANGED searching
  BY <1>5 DEF Serve, StartPricing, ReadCategory, ReadPolicy, HasRead,
     RoutingFails, Routed, Insert, ReadCatalog, Yield, Advance, HandlerOnly
<1>6. CASE Choices
  BY <1>1, <1>6 DEF Choices, ChooseCategory, ChooseSchedule, PickTime, Choose,
     PickupTimePasses, RetryEstimate, RetryCategories, Confirm, CloseOptions,
     searching
<1>. QED
  BY <1>1, <1>2, <1>3, <1>4, <1>5, <1>6
     DEF Next, vars, Hear, Switch, Locate, Located, PickupResolved, searching

-----------------------------------------------------------------------------
(***************************************************************************)
(* Calls.                                                                  *)
(***************************************************************************)

\* A quote that is what its policy charges for its category and route.
Fair(q) ==
  /\ q \in Quote /\ Terms[q.policy][q.category] # None
  /\ q.fare = Fare(Terms[q.policy][q.category], q.distance, q.duration)

Asked ==
  [ ask : Request, at : Progress, waiting : BOOLEAN,
    result : Quote \cup Catalog \cup {None} ]

\* What is for the category and the trip of the sheet.
OfSheet(x, sheet) ==
  /\ x.category = Chosen(sheet)
  /\ x.pickup = sheet.pickup /\ x.destination = sheet.destination

\* What a handler has read and made so far, by where it is.
Sound(ask, at, result) ==
  /\ ask.kind = "booking" => /\ Fair(ask.confirmed)
                             /\ ask.confirmed.category = ask.category
  /\ at.category = "found" => ask.category \in Categories
  /\ at.phase \in {"reading", "routing"} => ask.kind # "catalog"
  /\ at.phase = "routing" => /\ at.policy \in Policies
                             /\ ask.category \in Categories
                             /\ Terms[at.policy][ask.category] # None
  /\ at.phase = "inserting" => /\ ask.kind = "booking" /\ Fair(result)
                               /\ result.category = ask.category
  /\ (at.phase = "ok" /\ ask.kind = "estimate") =>
       /\ Fair(result) /\ result.category = ask.category
       /\ result.pickup = ask.pickup /\ result.destination = ask.destination
  /\ (ask.kind # "catalog" /\ result # None) => Fair(result)
  /\ ask.kind = "catalog" =>
       /\ at.phase = "listing" => at.policy \in Policies
       /\ at.phase \in {"scheduled", "ok"} => result \in Catalog

CallOK(c) == c \in Asked /\ Sound(c.ask, c.at, c.result)

CallsOK(cs) ==
  /\ cs \in Seq({Over} \cup Asked) /\ Len(cs) <= MaxCalls
  /\ \A k \in DOMAIN cs : cs[k] # Over => CallOK(cs[k])

\* Every call of ds that is not over is one of cs.
Follows(ds, cs) ==
  \A k \in DOMAIN ds : ds[k] # Over =>
    k \in DOMAIN cs /\ cs[k] # Over /\ ds[k].ask = cs[k].ask

LEMMA CallReplaced ==
  ASSUME NEW cs, CallsOK(cs), NEW k \in DOMAIN cs,
         NEW c, c # Over => CallOK(c) /\ cs[k] # Over /\ c.ask = cs[k].ask
  PROVE  CallsOK([cs EXCEPT ![k] = c]) /\ Follows([cs EXCEPT ![k] = c], cs)
<1> DEFINE ds == [cs EXCEPT ![k] = c]
<1>1. c \in {Over} \cup Asked BY DEF CallOK
<1>2. cs \in Seq({Over} \cup Asked) /\ Len(cs) <= MaxCalls BY DEF CallsOK
<1>3. ds \in Seq({Over} \cup Asked) /\ Len(ds) = Len(cs) BY <1>1, <1>2
<1>4. DOMAIN ds = DOMAIN cs
      /\ \A j \in DOMAIN cs : ds[j] = IF j = k THEN c ELSE cs[j]
  OBVIOUS
<1>. QED BY <1>2, <1>3, <1>4 DEF CallsOK, Follows

LEMMA CallAdded ==
  ASSUME NEW cs, CallsOK(cs), Len(cs) < MaxCalls, NEW c, CallOK(c)
  PROVE  /\ CallsOK(Append(cs, c))
         /\ \A k \in DOMAIN Append(cs, c) :
              \/ k = Len(cs) + 1 /\ Append(cs, c)[k] = c
              \/ k \in DOMAIN cs /\ Append(cs, c)[k] = cs[k]
<1> DEFINE ds == Append(cs, c)
<1>1. /\ c \in {Over} \cup Asked
      /\ cs \in Seq({Over} \cup Asked) /\ Len(cs) \in Nat
  BY DEF CallOK, CallsOK
<1>2. /\ ds \in Seq({Over} \cup Asked) /\ Len(ds) = Len(cs) + 1
      /\ DOMAIN ds = 1 .. Len(cs) + 1 /\ DOMAIN cs = 1 .. Len(cs)
  BY <1>1
<1>3. \A k \in 1 .. Len(cs) + 1 :
        ds[k] = IF k = Len(cs) + 1 THEN c ELSE cs[k]
  BY <1>1
<1>4. MaxCalls \in Nat BY PlanningAssumption
<1> HIDE DEF ds
<1>5. \A k \in DOMAIN ds : \/ k = Len(cs) + 1 /\ ds[k] = c
                           \/ k \in DOMAIN cs /\ ds[k] = cs[k]
  BY <1>1, <1>2, <1>3
<1>6. Len(ds) <= MaxCalls BY <1>1, <1>2, <1>4
<1>7. CallsOK(ds) BY <1>2, <1>5, <1>6 DEF CallsOK
<1>. QED BY <1>5, <1>7 DEF ds

LEMMA CallsUnmounted ==
  ASSUME NEW cs, CallsOK(cs)
  PROVE  /\ CallsOK(Unmounted(cs)) /\ Follows(Unmounted(cs), cs)
         /\ \A k \in DOMAIN Unmounted(cs) : Unmounted(cs)[k] # Over =>
              Unmounted(cs)[k].ask.kind = "booking"
<1> DEFINE ds == Unmounted(cs)  S == {Over} \cup Asked
<1>1. cs \in Seq(S) /\ Len(cs) \in Nat /\ DOMAIN cs = 1 .. Len(cs)
  BY DEF CallsOK
<1>2. /\ DOMAIN ds = DOMAIN cs
      /\ \A k \in DOMAIN cs :
           ds[k] = IF cs[k] # Over /\ cs[k].ask.kind # "booking"
                   THEN Over ELSE cs[k]
  BY DEF Unmounted
<1>3. ds \in [1 .. Len(cs) -> S]
  <2>1. \A k \in 1 .. Len(cs) : cs[k] \in S BY <1>1
  <2>. QED BY <1>1, <2>1 DEF Unmounted
<1>4. ds \in Seq(S) /\ Len(ds) = Len(cs)
  <2>1. ds \in Seq(S) BY <1>1, <1>3, SeqDef
  <2> HIDE DEF ds, S
  <2>. QED BY <1>1, <1>2, <2>1
<1>. HIDE DEF ds
<1>5. CallsOK(ds) BY <1>2, <1>4 DEF CallsOK
<1>6. Follows(ds, cs) BY <1>2 DEF Follows
<1>7. \A k \in DOMAIN ds : ds[k] # Over => ds[k].ask.kind = "booking"
  BY <1>2
<1>. QED BY <1>5, <1>6, <1>7 DEF ds

LEMMA CallHeard ==
  ASSUME CallsOK(calls), NEW k \in Underway
  PROVE  /\ CallsOK(Heard(k)) /\ Follows(Heard(k), calls)
         /\ Len(Heard(k)) = Len(calls)
<1> DEFINE c == IF calls[k].ask.kind = "booking" /\ ~Answered(k)
                THEN [calls[k] EXCEPT !.waiting = FALSE] ELSE Over
<1>1. k \in DOMAIN calls /\ calls[k] # Over /\ CallOK(calls[k])
  BY DEF CallsOK, Underway
<1>2. Heard(k) = [calls EXCEPT ![k] = c] BY DEF Heard
<1>3. c # Over => CallOK(c) /\ c.ask = calls[k].ask
  BY <1>1 DEF CallOK, Asked
<1>4. Len(Heard(k)) = Len(calls) BY <1>1, <1>2 DEF CallsOK
<1>. HIDE DEF c
<1>5. /\ CallsOK([calls EXCEPT ![k] = c])
      /\ Follows([calls EXCEPT ![k] = c], calls)
  BY <1>1, <1>3, CallReplaced
<1>. QED BY <1>2, <1>4, <1>5

\* A new call of a sheet.
LEMMA CallMade ==
  ASSUME NEW kind \in Kind, NEW sheet \in Options, NEW from \in Places,
         kind = "booking" => /\ Fair(sheet.estimate)
                             /\ sheet.estimate.category = Chosen(sheet)
  PROVE  /\ CallOK(Call(kind, sheet, from))
         /\ Call(kind, sheet, from).ask.kind = kind
         /\ from = sheet.pickup => OfSheet(Call(kind, sheet, from).ask, sheet)
<1> DEFINE c == Call(kind, sheet, from)
<1>1. Chosen(sheet) \in Categories \cup {None}
  BY PlanningAssumption DEF Chosen, Options
<1>2. PICK late \in BOOLEAN : late = (sheet.isScheduled /\ sheet.expired)
  BY DEF Options
<1>3. c.ask \in Request
  <2>1. c.ask = [ kind |-> kind, sheet |-> sheet.id, pickup |-> from,
                  destination |-> sheet.destination,
                  category |-> Chosen(sheet), expired |-> late,
                  key |-> sheet.key,
                  confirmed |-> IF kind = "booking" THEN sheet.estimate
                                ELSE None ]
    BY <1>2 DEF Call
  <2>. QED BY <1>1, <2>1 DEF Request, Options
<1>4. Started \in Progress BY DEF Started, Progress, Refusal
<1>5. c \in Asked BY <1>3, <1>4 DEF Call, Asked
<1>6. Sound(c.ask, c.at, c.result) BY DEF Call, Sound, Started
<1>. QED BY <1>5, <1>6 DEF CallOK, Call, OfSheet

-----------------------------------------------------------------------------
(***************************************************************************)
(* Handlers.                                                               *)
(***************************************************************************)

Answer == Quote \cup Catalog \cup {None}

\* Call k where its handler has come to.
Moved(k, at, result) == [calls[k] EXCEPT !.at = at, !.result = result]

LEMMA CallMoves ==
  ASSUME CallsOK(calls), NEW k \in Underway,
         NEW at \in Progress, NEW result \in Answer,
         Sound(calls[k].ask, at, result),
         calls' = [calls EXCEPT ![k] = Moved(k, at, result)]
  PROVE  CallsOK(calls') /\ Follows(calls', calls)
<1> DEFINE c == Moved(k, at, result)
<1>1. k \in DOMAIN calls /\ calls[k] # Over /\ calls[k] \in Asked
  BY DEF CallsOK, CallOK, Underway
<1>2. /\ c \in Asked /\ c.ask = calls[k].ask /\ c.at = at
      /\ c.result = result
  BY <1>1 DEF Asked, Moved, Answer
<1>3. CallOK(c) BY <1>2 DEF CallOK
<1>. HIDE DEF c
<1>4. /\ CallsOK([calls EXCEPT ![k] = c])
      /\ Follows([calls EXCEPT ![k] = c], calls)
  BY <1>1, <1>2, <1>3, CallReplaced
<1>. QED BY <1>4 DEF c

LEMMA HandlerAdvances ==
  ASSUME CallsOK(calls), NEW k \in Underway, NEW phase, Advance(k, phase),
         [calls[k].at EXCEPT !.phase = phase] \in Progress,
         Sound(calls[k].ask, [calls[k].at EXCEPT !.phase = phase],
               calls[k].result)
  PROVE  CallsOK(calls') /\ Follows(calls', calls)
<1> DEFINE at == [calls[k].at EXCEPT !.phase = phase]
<1>1. calls[k] \in Asked /\ calls[k].result \in Answer
  BY DEF CallsOK, CallOK, Underway, Asked, Answer
<1>2. [calls[k] EXCEPT !.at.phase = phase] = Moved(k, at, calls[k].result)
  BY <1>1 DEF Asked, Moved
<1>3. calls' = [calls EXCEPT ![k] = Moved(k, at, calls[k].result)]
  BY <1>2 DEF Advance
<1>. QED BY <1>1, <1>3, CallMoves

LEMMA HandlerYields ==
  ASSUME CallsOK(calls), NEW k \in Underway, NEW phase, NEW result \in Answer,
         Yield(k, phase, result),
         [calls[k].at EXCEPT !.phase = phase] \in Progress,
         Sound(calls[k].ask, [calls[k].at EXCEPT !.phase = phase], result)
  PROVE  CallsOK(calls') /\ Follows(calls', calls)
<1> DEFINE at == [calls[k].at EXCEPT !.phase = phase]
<1>1. calls[k] \in Asked BY DEF CallsOK, CallOK, Underway
<1>2. [calls[k] EXCEPT !.at.phase = phase, !.result = result]
        = Moved(k, at, result)
  BY <1>1 DEF Asked, Moved
<1>3. calls' = [calls EXCEPT ![k] = Moved(k, at, result)]
  BY <1>2 DEF Yield
<1>. QED BY <1>3, CallMoves

\* The rides that were booked, with what their rider confirmed.
RidesOK ==
  /\ rides \in [Keys -> Ride \cup {None}]
  /\ \A key \in Keys : rides[key] # None =>
       /\ Fair(rides[key].quote) /\ Fair(rides[key].confirmed)
       /\ rides[key].quote.category = rides[key].confirmed.category

ServerOK ==
  /\ live \in Policies \cup {None} /\ onOffer \subseteq Categories
  /\ changes \in 0 .. MaxChanges /\ RidesOK

LEMMA PricingStarts ==
  ASSUME CallsOK(calls), RidesOK, NEW k \in Underway, StartPricing(k)
  PROVE  CallsOK(calls') /\ Follows(calls', calls)
<1> DEFINE q == calls[k].ask  at == calls[k].at
           Phase(p) == [at EXCEPT !.phase = p]
<1>1. /\ q \in Request /\ at \in Progress /\ calls[k].result \in Answer
      /\ Sound(q, at, calls[k].result)
      /\ q.kind # "catalog" /\ at.phase = "start"
  BY DEF CallsOK, CallOK, Underway, Asked, StartPricing, Answer
<1>2. CASE q.kind = "booking" /\ rides[q.key] # None
  <2>1. Yield(k, "ok", rides[q.key].quote) BY <1>2 DEF StartPricing
  <2>2. Fair(rides[q.key].quote) BY <1>1, <1>2 DEF RidesOK, Request
  <2>3. rides[q.key].quote \in Answer BY <2>2 DEF Fair, Answer
  <2>4. Phase("ok") \in Progress BY <1>1 DEF Progress
  <2>5. Sound(q, Phase("ok"), rides[q.key].quote)
    BY <1>1, <1>2, <2>2 DEF Sound, Progress
  <2>. QED BY <2>1, <2>3, <2>4, <2>5, HandlerYields
<1>3. CASE ~(q.kind = "booking" /\ rides[q.key] # None)
  <2>1. PICK p \in {"bad_request", "reading"} : Advance(k, p)
    BY <1>3 DEF StartPricing
  <2>2. Phase(p) \in Progress BY <1>1 DEF Progress, Refusal
  <2>3. Sound(q, Phase(p), calls[k].result) BY <1>1 DEF Sound, Progress
  <2>. QED BY <2>1, <2>2, <2>3, HandlerAdvances
<1>. QED BY <1>2, <1>3

\* Reading the category and reading the policy, in either order.
LEMMA QueryRead ==
  ASSUME CallsOK(calls), live \in Policies \cup {None},
         onOffer \subseteq Categories,
         NEW k \in Underway, ReadCategory(k) \/ ReadPolicy(k)
  PROVE  CallsOK(calls') /\ Follows(calls', calls)
<1> DEFINE q == calls[k].ask
<1>1. /\ q \in Request /\ calls[k].at \in Progress
      /\ calls[k] \in Asked /\ calls[k].result \in Answer
      /\ Sound(q, calls[k].at, calls[k].result)
      /\ calls[k].at.phase = "reading"
  BY DEF CallsOK, CallOK, Underway, Asked, ReadCategory, ReadPolicy, HasRead,
         Answer
<1>2. q.kind # "catalog" BY <1>1 DEF Sound
<1>3. PolicyInForce \in Policies \cup {"unread", "missing"}
  BY DEF PolicyInForce
<1>4. PICK got \in Progress :
        /\ HasRead(k, got)
        /\ got.category = "found" => q.category \in Categories
  <2>1. CASE ReadCategory(k)
    <3> DEFINE got == [calls[k].at EXCEPT !.category =
                         IF q.category \in onOffer THEN "found" ELSE "missing"]
    <3>1. got \in Progress BY <1>1 DEF Progress
    <3>2. got.category = "found" => q.category \in Categories
      BY <1>1 DEF Progress
    <3>. QED BY <2>1, <3>1, <3>2 DEF ReadCategory
  <2>2. CASE ReadPolicy(k)
    <3> DEFINE got == [calls[k].at EXCEPT !.policy = PolicyInForce]
    <3>1. got \in Progress BY <1>1, <1>3 DEF Progress
    <3>2. got.category = calls[k].at.category BY <1>1 DEF Progress
    <3>. QED BY <1>1, <2>2, <3>1, <3>2 DEF ReadPolicy, Sound
  <2>. QED BY <2>1, <2>2
<1> DEFINE at == [got EXCEPT !.phase = AfterReads(q.category, got)]
<1>5. /\ AfterReads(q.category, got) \in {"reading", "not_found", "routing"}
      /\ AfterReads(q.category, got) = "routing" =>
           /\ got.category = "found" /\ got.policy \in Policies
           /\ Terms[got.policy][q.category] # None
  BY DEF AfterReads, Progress
<1>6. /\ at \in Progress /\ at.phase = AfterReads(q.category, got)
      /\ at.category = got.category /\ at.policy = got.policy
  BY <1>5 DEF Progress, Refusal
<1>. HIDE DEF at
<1>7. Sound(q, at, calls[k].result)
  BY <1>1, <1>2, <1>4, <1>5, <1>6 DEF Sound
<1>8. calls' = [calls EXCEPT ![k] = Moved(k, at, calls[k].result)]
  <2>1. [calls[k] EXCEPT !.at = at] = Moved(k, at, calls[k].result)
    BY <1>1 DEF Asked, Moved
  <2>. QED BY <1>4, <2>1 DEF HasRead, at
<1>. QED BY <1>1, <1>6, <1>7, <1>8, CallMoves

LEMMA RouteParsed ==
  ASSUME NEW a \in Places, NEW b \in Places, NEW road \in Roads[<<a, b>>]
  PROVE  Parsed(road).distance \in Nat /\ Parsed(road).duration \in Nat
<1>1. <<a, b>> \in Places \X Places OBVIOUS
<1>2. road \in [distance : Nat, duration : Nat] BY <1>1, PlanningAssumption
<1>. QED BY <1>2, RoundedType, Divisors DEF Parsed

LEMMA QuoteIsFair ==
  ASSUME NEW q \in Request, NEW p \in Policies, NEW route,
         q.category \in Categories, Terms[p][q.category] # None,
         route.distance \in Nat, route.duration \in Nat
  PROVE  /\ Fair(Priced(q, p, route))
         /\ Priced(q, p, route).category = q.category
         /\ Priced(q, p, route).pickup = q.pickup
         /\ Priced(q, p, route).destination = q.destination
<1>1. Terms[p][q.category] \in Policy /\ ValidPolicy(Terms[p][q.category])
  BY PlanningAssumption
<1>2. Fare(Terms[p][q.category], route.distance, route.duration) \in Nat
  BY <1>1, FareWithinPolicy
<1>. QED BY <1>2 DEF Fair, Priced, Quote, Request

LEMMA RouteAnswered ==
  ASSUME CallsOK(calls), NEW k \in Underway, RoutingFails(k) \/ Routed(k)
  PROVE  CallsOK(calls') /\ Follows(calls', calls)
<1> DEFINE q == calls[k].ask  at == calls[k].at
           Phase(p) == [at EXCEPT !.phase = p]
<1>1. /\ q \in Request /\ at \in Progress /\ calls[k].result \in Answer
      /\ Sound(q, at, calls[k].result) /\ at.phase = "routing"
  BY DEF CallsOK, CallOK, Underway, Asked, RoutingFails, Routed, Answer
<1>2. /\ q.kind \in {"estimate", "booking"} /\ at.policy \in Policies
      /\ q.category \in Categories /\ Terms[at.policy][q.category] # None
  BY <1>1 DEF Sound, Request, Kind
<1>3. CASE Advance(k, "unavailable")
  <2>1. Phase("unavailable") \in Progress BY <1>1 DEF Progress, Refusal
  <2>2. Sound(q, Phase("unavailable"), calls[k].result)
    BY <1>1 DEF Sound, Progress
  <2>. QED BY <1>3, <2>1, <2>2, HandlerAdvances
<1>4. ASSUME NEW road \in Roads[<<q.pickup, q.destination>>],
             NEW p \in {"inserting", "ok"},
             p = "inserting" <=> q.kind = "booking",
             Yield(k, p, Priced(q, at.policy, Parsed(road)))
      PROVE  CallsOK(calls') /\ Follows(calls', calls)
  <2> DEFINE quote == Priced(q, at.policy, Parsed(road))
  <2>1. /\ Fair(quote) /\ quote.category = q.category
        /\ quote.pickup = q.pickup /\ quote.destination = q.destination
    BY <1>1, <1>2, RouteParsed, QuoteIsFair DEF Request
  <2>2. quote \in Answer BY <2>1 DEF Fair, Answer
  <2>3. Phase(p) \in Progress BY <1>1 DEF Progress
  <2> HIDE DEF quote
  <2>4. Sound(q, Phase(p), quote)
    BY <1>1, <1>2, <1>4, <2>1 DEF Sound, Progress
  <2>. QED BY <1>4, <2>2, <2>3, <2>4, HandlerYields DEF quote
<1>. QED BY <1>3, <1>4 DEF RoutingFails, Routed

LEMMA RideInserted ==
  ASSUME CallsOK(calls), RidesOK, NEW k \in Underway, Insert(k)
  PROVE  CallsOK(calls') /\ Follows(calls', calls) /\ RidesOK'
<1> DEFINE q == calls[k].ask
           ride == IF rides[q.key] # None THEN rides[q.key]
                   ELSE [quote |-> calls[k].result, confirmed |-> q.confirmed]
           at == [calls[k].at EXCEPT !.phase = "ok"]
<1>1. /\ q \in Request /\ calls[k].at \in Progress /\ calls[k] \in Asked
      /\ Sound(q, calls[k].at, calls[k].result)
      /\ calls[k].at.phase = "inserting"
  BY DEF CallsOK, CallOK, Underway, Asked, Insert
<1>2. /\ q.key \in Keys /\ q.kind = "booking"
      /\ Fair(q.confirmed) /\ Fair(calls[k].result)
      /\ calls[k].result.category = q.confirmed.category
  BY <1>1 DEF Sound, Request
<1>3. /\ Fair(ride.quote) /\ Fair(ride.confirmed)
      /\ ride.quote.category = ride.confirmed.category /\ ride \in Ride
  BY <1>2 DEF RidesOK, Fair, Ride
<1>4. /\ rides' = [rides EXCEPT ![q.key] = ride]
      /\ calls' = [calls EXCEPT ![k].at.phase = "ok", ![k].result = ride.quote]
  BY DEF Insert
<1>. HIDE DEF ride
<1>5. RidesOK' BY <1>2, <1>3, <1>4 DEF RidesOK
<1>6. at \in Progress /\ ride.quote \in Answer
  BY <1>1, <1>3 DEF Progress, Fair, Answer
<1>7. Sound(q, at, ride.quote) BY <1>1, <1>2, <1>3 DEF Sound, Progress
<1>8. [calls[k] EXCEPT !.at.phase = "ok", !.result = ride.quote]
        = Moved(k, at, ride.quote)
  BY <1>1 DEF Asked, Moved
<1>9. calls' = [calls EXCEPT ![k] = Moved(k, at, ride.quote)]
  BY <1>4, <1>8
<1>. QED BY <1>5, <1>6, <1>7, <1>9, CallMoves

LEMMA CatalogRead ==
  ASSUME CallsOK(calls), live \in Policies \cup {None},
         onOffer \subseteq Categories, NEW k \in Underway, ReadCatalog(k)
  PROVE  CallsOK(calls') /\ Follows(calls', calls)
<1> DEFINE q == calls[k].ask  at == calls[k].at
           Phase(p) == [at EXCEPT !.phase = p]
<1>1. /\ q \in Request /\ at \in Progress /\ calls[k] \in Asked
      /\ Sound(q, at, calls[k].result) /\ q.kind = "catalog"
      /\ calls[k].result \in Answer
  BY DEF CallsOK, CallOK, Underway, Asked, ReadCatalog, Answer
<1>2. ASSUME NEW p \in {"scheduled", "ok"}, NEW catalog \in Catalog,
             Yield(k, p, catalog)
      PROVE  CallsOK(calls') /\ Follows(calls', calls)
  <2>1. Phase(p) \in Progress /\ catalog \in Answer
    BY <1>1 DEF Progress, Answer
  <2>2. Sound(q, Phase(p), catalog) BY <1>1 DEF Sound, Progress
  <2>. QED BY <1>2, <2>1, <2>2, HandlerYields
<1>3. CASE at.phase = "start" /\ PolicyInForce # "missing"
           /\ calls' = [calls EXCEPT ![k].at.phase = "listing",
                                     ![k].at.policy = PolicyInForce]
  <2> DEFINE new == [at EXCEPT !.phase = "listing", !.policy = PolicyInForce]
  <2>1. PolicyInForce \in Policies BY <1>3 DEF PolicyInForce
  <2>2. new \in Progress /\ Sound(q, new, calls[k].result)
    BY <1>1, <2>1 DEF Progress, Sound
  <2>3. [calls[k] EXCEPT !.at.phase = "listing", !.at.policy = PolicyInForce]
          = Moved(k, new, calls[k].result)
    BY <1>1 DEF Asked, Moved
  <2>4. calls' = [calls EXCEPT ![k] = Moved(k, new, calls[k].result)]
    BY <1>3, <2>3
  <2>. QED BY <1>1, <2>2, <2>4, CallMoves
<1>4. CASE at.phase = "start" /\ PolicyInForce = "missing"
  <2>1. [categories |-> {}, scheduled |-> FALSE] \in Catalog BY DEF Catalog
  <2>2. Yield(k, "ok", [categories |-> {}, scheduled |-> FALSE])
    BY <1>4 DEF ReadCatalog
  <2>. QED BY <2>1, <2>2, <1>2
<1>5. CASE at.phase = "listing"
  <2>1. [ categories |-> (Rated(at.policy) \cap onOffer) \ {Scheduled},
          scheduled |-> FALSE ] \in Catalog
    BY DEF Catalog, Rated
  <2>. QED BY <1>2, <1>5, <2>1 DEF ReadCatalog
<1>6. CASE at.phase = "scheduled"
  <2> DEFINE offered == Scheduled \in onOffer
             new == [calls[k].result EXCEPT !.scheduled = offered]
  <2>1. calls[k].result \in Catalog BY <1>1, <1>6 DEF Sound
  <2>2. offered \in BOOLEAN OBVIOUS
  <2>3. Yield(k, "ok", new) BY <1>6 DEF ReadCatalog
  <2> HIDE DEF offered
  <2>4. new \in Catalog BY <2>1, <2>2 DEF Catalog
  <2>. QED BY <1>2, <2>3, <2>4
<1>. QED BY <1>3, <1>4, <1>5, <1>6 DEF ReadCatalog

\* A step of a handler, and a switch of the operator.
LEMMA ServerMoves ==
  ASSUME CallsOK(calls), ServerOK, NEW k \in Underway, Serve(k)
  PROVE  /\ CallsOK(calls') /\ Follows(calls', calls) /\ ServerOK'
         /\ UNCHANGED << screen, location, options, searching >>
<1>1. CallsOK(calls') /\ Follows(calls', calls)
  BY PricingStarts, QueryRead, RouteAnswered, RideInserted, CatalogRead
     DEF Serve, ServerOK
<1>2. CASE Insert(k)
  BY <1>1, <1>2, RideInserted DEF ServerOK, Insert
<1>3. CASE ~Insert(k)
  <2>1. HandlerOnly
    BY <1>3 DEF Serve, StartPricing, ReadCategory, ReadPolicy, HasRead,
       RoutingFails, Routed, ReadCatalog, Yield, Advance
  <2>. QED BY <1>1, <2>1 DEF HandlerOnly, server, ServerOK, RidesOK
<1>. QED BY <1>2, <1>3

-----------------------------------------------------------------------------
(***************************************************************************)
(* The options sheet.                                                      *)
(***************************************************************************)

\* What the sheet shows is for its choice unless it is being estimated, and
\* the one estimate it listens to is asked for its choice.
OptionsOK(sheet, cs) ==
  /\ sheet \in Options
  /\ sheet.estimate # None => Fair(sheet.estimate)
  /\ sheet.category # None =>
       /\ (sheet.estimate # None /\ ~sheet.estimating) =>
            OfSheet(sheet.estimate, sheet)
       /\ \A k \in DOMAIN cs :
            (k = sheet.latest /\ cs[k] # Over /\ cs[k].ask.kind = "estimate")
              => OfSheet(cs[k].ask, sheet)

\* A call that is not a booking's has its sheet: others are over.
SheetOK ==
  (\/ options # None
   \/ \E k \in DOMAIN calls : calls[k] # Over /\ calls[k].ask.kind # "booking")
    => OptionsOK(options, calls)

LEMMA SheetFollows ==
  ASSUME SheetOK, Follows(calls', calls), options' = options
  PROVE  SheetOK'
BY DEF SheetOK, Follows, OptionsOK

\* Asking for an estimate.
LEMMA EstimateAsked ==
  ASSUME NEW cs, CallsOK(cs), Len(cs) < MaxCalls, NEW sheet \in Options,
         sheet.estimate # None => Fair(sheet.estimate)
  PROVE  /\ CallsOK(Append(cs, Call("estimate", sheet, sheet.pickup)))
         /\ OptionsOK([sheet EXCEPT !.estimating = TRUE,
                         !.estimateError = FALSE, !.latest = Len(cs) + 1],
                      Append(cs, Call("estimate", sheet, sheet.pickup)))
<1> DEFINE c == Call("estimate", sheet, sheet.pickup)
           o == [sheet EXCEPT !.estimating = TRUE, !.estimateError = FALSE,
                              !.latest = Len(cs) + 1]
<1>1. CallOK(c) /\ OfSheet(c.ask, sheet)
  BY CallMade DEF Kind, Options
<1>2. /\ CallsOK(Append(cs, c))
      /\ \A k \in DOMAIN Append(cs, c) :
           \/ k = Len(cs) + 1 /\ Append(cs, c)[k] = c
           \/ k \in DOMAIN cs /\ Append(cs, c)[k] = cs[k]
  BY <1>1, CallAdded
<1>3. Len(cs) \in Nat /\ DOMAIN cs = 1 .. Len(cs) /\ MaxCalls \in Nat
  BY PlanningAssumption DEF CallsOK
<1>4. Len(cs) + 1 \in 0 .. MaxCalls BY <1>3
<1>5. /\ o \in Options /\ o.estimate = sheet.estimate /\ o.estimating = TRUE
      /\ o.latest = Len(cs) + 1 /\ Chosen(o) = Chosen(sheet)
      /\ o.pickup = sheet.pickup /\ o.destination = sheet.destination
  BY <1>4 DEF Options, Chosen
<1>. HIDE DEF c, o
<1>6. \A k \in DOMAIN Append(cs, c) : k = o.latest =>
        OfSheet(Append(cs, c)[k].ask, o)
  BY <1>1, <1>2, <1>3, <1>5 DEF OfSheet
<1>7. OptionsOK(o, Append(cs, c)) BY <1>5, <1>6 DEF OptionsOK
<1>. QED BY <1>2, <1>7 DEF c, o

\* A tap on a choice.
LEMMA ChoiceMade ==
  ASSUME CallsOK(calls), NEW sheet \in Options,
         sheet.estimate # None => Fair(sheet.estimate), Choose(sheet)
  PROVE  CallsOK(calls') /\ SheetOK'
<1> DEFINE keyed == [sheet EXCEPT !.key = Len(calls) + 1]
<1>1. Len(calls) \in Nat /\ Len(calls) < MaxCalls /\ MaxCalls \in Nat
  BY PlanningAssumption DEF CallsOK, Choose, LoadEstimate, CanCall
<1>2. Len(calls) + 1 \in Keys BY <1>1 DEF Keys
<1>3. /\ keyed \in Options /\ keyed.estimate = sheet.estimate
      /\ keyed.category = sheet.category
      /\ keyed.isScheduled = sheet.isScheduled
  BY <1>2 DEF Options
<1>4. IF Chosen(sheet) # None THEN LoadEstimate(keyed)
      ELSE CanCall /\ options' = keyed /\ UNCHANGED calls
  BY DEF Choose
<1> HIDE DEF keyed
<1>5. CASE Chosen(sheet) # None
  <2>1. LoadEstimate(keyed) BY <1>4, <1>5
  <2>2. CallsOK(calls') /\ OptionsOK(options', calls')
    BY <1>1, <1>3, <2>1, EstimateAsked DEF LoadEstimate
  <2>. QED BY <2>2 DEF SheetOK
<1>6. CASE Chosen(sheet) = None
  <2>1. options' = keyed /\ calls' = calls BY <1>4, <1>6
  <2>2. keyed.category = None BY <1>3, <1>6, PlanningAssumption DEF Chosen
  <2>3. OptionsOK(options', calls') BY <1>3, <2>1, <2>2 DEF OptionsOK
  <2>. QED BY <2>1, <2>3 DEF SheetOK
<1>. QED BY <1>5, <1>6

LEMMA ChoicesMade ==
  ASSUME CallsOK(calls), SheetOK,
         \/ \E c \in Categories : ChooseCategory(c)
         \/ \E when \in BOOLEAN : ChooseSchedule(when)
         \/ PickTime
  PROVE  CallsOK(calls') /\ SheetOK'
<1>1. options \in Options /\ (options.estimate # None => Fair(options.estimate))
  BY DEF SheetOK, OptionsOK, ChooseCategory, ChooseSchedule, PickTime
<1>2. \E sheet \in Options :
        sheet.estimate = options.estimate /\ Choose(sheet)
  <2>1. ASSUME NEW c \in Categories, ChooseCategory(c)
        PROVE  \E sheet \in Options :
                 sheet.estimate = options.estimate /\ Choose(sheet)
    <3>1. [options EXCEPT !.category = c] \in Options BY <1>1 DEF Options
    <3>2. [options EXCEPT !.category = c].estimate = options.estimate
      BY <1>1 DEF Options
    <3>. QED BY <2>1, <3>1, <3>2 DEF ChooseCategory
  <2>2. ASSUME NEW when \in BOOLEAN, ChooseSchedule(when)
        PROVE  \E sheet \in Options :
                 sheet.estimate = options.estimate /\ Choose(sheet)
    <3>1. [options EXCEPT !.isScheduled = when] \in Options
      BY <1>1 DEF Options
    <3>2. [options EXCEPT !.isScheduled = when].estimate = options.estimate
      BY <1>1 DEF Options
    <3>. QED BY <2>2, <3>1, <3>2 DEF ChooseSchedule
  <2>3. ASSUME NEW past \in BOOLEAN, Choose([options EXCEPT !.expired = past])
        PROVE  \E sheet \in Options :
                 sheet.estimate = options.estimate /\ Choose(sheet)
    <3>1. [options EXCEPT !.expired = past] \in Options BY <1>1 DEF Options
    <3>2. [options EXCEPT !.expired = past].estimate = options.estimate
      BY <1>1 DEF Options
    <3>. QED BY <2>3, <3>1, <3>2
  <2>. QED BY <2>1, <2>2, <2>3 DEF PickTime
<1>. QED BY <1>1, <1>2, ChoiceMade

\* A time that passes, and the retry buttons.
LEMMA SheetRetries ==
  ASSUME CallsOK(calls), SheetOK,
         PickupTimePasses \/ RetryEstimate \/ RetryCategories
  PROVE  CallsOK(calls') /\ SheetOK'
<1>1. OptionsOK(options, calls)
  BY DEF SheetOK, PickupTimePasses, RetryEstimate, RetryCategories
<1>2. options \in Options BY <1>1 DEF OptionsOK
<1>3. CASE PickupTimePasses
  <2>1. calls' = calls /\ options' = [options EXCEPT !.expired = TRUE]
    BY <1>3 DEF PickupTimePasses
  <2>2. OptionsOK(options', calls')
    BY <1>1, <1>2, <2>1 DEF OptionsOK, Options, OfSheet, Chosen
  <2>. QED BY <2>1, <2>2 DEF SheetOK
<1>4. CASE RetryEstimate
  <2>1. CallsOK(calls') /\ OptionsOK(options', calls')
    BY <1>1, <1>2, <1>4, EstimateAsked, PlanningAssumption
       DEF RetryEstimate, LoadEstimate, CanCall, OptionsOK
  <2>. QED BY <2>1 DEF SheetOK
<1>5. CASE RetryCategories
  <2> DEFINE c == Call("catalog", options, options.pickup)
  <2>1. /\ options' = [options EXCEPT !.loading = TRUE, !.categoryError = FALSE]
        /\ calls' = Append(calls, c) /\ Len(calls) < MaxCalls
    BY <1>5 DEF RetryCategories, CanCall
  <2>2. CallOK(c) /\ c.ask.kind = "catalog"
    BY <1>2, CallMade DEF Kind, Options
  <2> HIDE DEF c
  <2>3. /\ CallsOK(calls')
        /\ \A k \in DOMAIN calls' : \/ calls'[k] = c
                                    \/ k \in DOMAIN calls /\ calls'[k] = calls[k]
    BY <2>1, <2>2, CallAdded
  <2>4. /\ options' \in Options /\ options'.estimate = options.estimate
        /\ options'.category = options.category
        /\ options'.latest = options.latest
        /\ options'.estimating = options.estimating
        /\ options'.pickup = options.pickup
        /\ options'.destination = options.destination
        /\ Chosen(options') = Chosen(options)
    BY <1>2, <2>1 DEF Options, Chosen
  <2>5. OptionsOK(options', calls')
    BY <1>1, <2>2, <2>3, <2>4 DEF OptionsOK, OfSheet
  <2>. QED BY <2>3, <2>5 DEF SheetOK
<1>. QED BY <1>3, <1>4, <1>5

LEMMA SheetConfirmed ==
  ASSUME CallsOK(calls), SheetOK, pickup \in Places \cup {None}, Confirm
  PROVE  CallsOK(calls') /\ SheetOK'
<1>1. OptionsOK(options, calls) BY DEF SheetOK, Confirm, ConfirmEnabled
<1>2. options \in Options BY <1>1 DEF OptionsOK
<1> DEFINE c == Call("booking", options, pickup)
<1>3. /\ options' = [options EXCEPT !.submitting = TRUE]
      /\ calls' = Append(calls, c) /\ Len(calls) < MaxCalls
      /\ pickup \in Places
  BY DEF Confirm, CanCall
<1>4. Fair(options.estimate) /\ options.estimate.category = Chosen(options)
  BY <1>1 DEF OptionsOK, Confirm, ConfirmEnabled, OfSheet
<1>5. CallOK(c) /\ c.ask.kind = "booking"
  BY <1>2, <1>3, <1>4, CallMade DEF Kind
<1>. HIDE DEF c
<1>6. /\ CallsOK(calls')
      /\ \A k \in DOMAIN calls' : \/ calls'[k] = c
                                  \/ k \in DOMAIN calls /\ calls'[k] = calls[k]
  BY <1>3, <1>5, CallAdded
<1>7. /\ options' \in Options /\ options'.estimate = options.estimate
      /\ options'.category = options.category
      /\ options'.latest = options.latest
      /\ options'.estimating = options.estimating
      /\ options'.pickup = options.pickup
      /\ options'.destination = options.destination
      /\ Chosen(options') = Chosen(options)
  BY <1>2, <1>3 DEF Options, Chosen
<1>8. OptionsOK(options', calls')
  BY <1>1, <1>5, <1>6, <1>7 DEF OptionsOK, OfSheet
<1>. QED BY <1>6, <1>8 DEF SheetOK

LEMMA SheetCloses ==
  ASSUME CallsOK(calls), options' = None,
         \E cs : CallsOK(cs) /\ calls' = Unmounted(cs)
  PROVE  CallsOK(calls') /\ SheetOK'
<1>1. PICK cs : CallsOK(cs) /\ calls' = Unmounted(cs) OBVIOUS
<1>2. /\ CallsOK(calls')
      /\ \A k \in DOMAIN calls' : calls'[k] # Over =>
           calls'[k].ask.kind = "booking"
  BY <1>1, CallsUnmounted
<1>. QED BY <1>2 DEF SheetOK

\* _openRideOptions.
LEMMA SheetOpens ==
  ASSUME CallsOK(calls), SheetOK, pickup \in Places \cup {None},
         NEW place \in Places, ChooseDestination(place)
  PROVE  CallsOK(calls') /\ SheetOK'
<1>1. CASE pickup = None
  BY <1>1 DEF ChooseDestination, SheetOK
<1>2. CASE pickup # None
  <2> DEFINE sheet == NewOptions(place)
             c == Call("catalog", sheet, pickup)
  <2>1. options' = sheet /\ calls' = Append(calls, c) /\ Len(calls) < MaxCalls
    BY <1>2 DEF ChooseDestination, CanCall
  <2>2. Len(calls) \in Nat /\ MaxCalls \in Nat /\ DOMAIN calls = 1 .. Len(calls)
    BY PlanningAssumption DEF CallsOK
  <2>3. Len(calls) + 1 \in Keys /\ 0 \in 0 .. MaxCalls BY <2>1, <2>2 DEF Keys
  <2>4. /\ sheet \in Options /\ sheet.category = None
        /\ sheet.estimate = None
    BY <1>2, <2>3 DEF NewOptions, Options
  <2> HIDE DEF sheet
  <2>5. CallOK(c) BY <1>2, <2>4, CallMade DEF Kind
  <2> HIDE DEF c
  <2>6. CallsOK(calls') BY <2>1, <2>5, CallAdded
  <2>7. OptionsOK(options', calls') BY <2>1, <2>4 DEF OptionsOK
  <2>. QED BY <2>6, <2>7 DEF SheetOK
<1>. QED BY <1>1, <1>2

-----------------------------------------------------------------------------
(***************************************************************************)
(* Answers.                                                                *)
(***************************************************************************)

\* What the sheet keeps while its calls go on, when its fields but these stay.
LEMMA SheetStays ==
  ASSUME NEW sheet, NEW cs, OptionsOK(sheet, cs),
         NEW new \in Options, NEW ds, Follows(ds, cs),
         new.estimate = sheet.estimate, new.estimating = sheet.estimating,
         new.category = sheet.category, new.isScheduled = sheet.isScheduled,
         new.latest = sheet.latest, new.pickup = sheet.pickup,
         new.destination = sheet.destination
  PROVE  OptionsOK(new, ds)
<1>1. Chosen(new) = Chosen(sheet) BY DEF Chosen
<1>. QED BY <1>1 DEF OptionsOK, Follows, OfSheet

LEMMA CatalogAnswered ==
  ASSUME CallsOK(calls), SheetOK, NEW k \in Underway,
         calls[k].ask.kind = "catalog", NEW broken \in BOOLEAN,
         CatalogHeard(k, ~broken /\ calls[k].at.phase = "ok", broken)
  PROVE  CallsOK(calls') /\ SheetOK'
<1> DEFINE ok == ~broken /\ calls[k].at.phase = "ok"
           loaded == [options EXCEPT !.loading = FALSE]
           empty == [loaded EXCEPT !.categories = {}, !.category = None,
                                   !.categoryError = TRUE]
           catalog == calls[k].result
<1>1. OptionsOK(options, calls) /\ k \in DOMAIN calls /\ calls[k] # Over
  BY DEF SheetOK, Underway
<1>2. options \in Options /\ (options.estimate # None => Fair(options.estimate))
  BY <1>1 DEF OptionsOK
<1>3. /\ CallsOK(Heard(k)) /\ Follows(Heard(k), calls)
      /\ Len(Heard(k)) = Len(calls)
  BY CallHeard
<1>4. ok => catalog \in Catalog
  BY <1>1 DEF CallsOK, CallOK, Sound
<1>5. \/ broken /\ options' = loaded /\ calls' = Heard(k)
      \/ ~ok /\ options' = empty /\ calls' = Heard(k)
      \/ ok /\ options' = Offering(empty, catalog.scheduled)
            /\ calls' = Heard(k)
      \/ ok /\ \E first \in catalog.categories :
           LET sheet == Offering([loaded EXCEPT
                          !.categories = catalog.categories,
                          !.category = first], catalog.scheduled)
           IN /\ CanCall
              /\ options' = [sheet EXCEPT !.estimating = TRUE,
                   !.estimateError = FALSE, !.latest = Len(calls) + 1]
              /\ calls' = Append(Heard(k), Call("estimate", sheet, sheet.pickup))
  BY DEF CatalogHeard
<1>6. /\ loaded \in Options /\ loaded.estimate = options.estimate
      /\ loaded.estimating = options.estimating
      /\ loaded.category = options.category
      /\ loaded.isScheduled = options.isScheduled
      /\ loaded.latest = options.latest /\ loaded.pickup = options.pickup
      /\ loaded.destination = options.destination
  BY <1>2 DEF Options
<1>7. /\ empty \in Options /\ empty.category = None
      /\ empty.estimate = options.estimate
  BY <1>2 DEF Options
<1>8. ASSUME NEW sheet \in Options, NEW scheduled \in BOOLEAN
      PROVE  /\ Offering(sheet, scheduled) \in Options
             /\ Offering(sheet, scheduled).category = sheet.category
             /\ Offering(sheet, scheduled).estimate = sheet.estimate
  <2>1. PICK a \in BOOLEAN : a = (sheet.isScheduled /\ scheduled)
    BY DEF Options
  <2>2. PICK b \in BOOLEAN : b = (sheet.expired /\ scheduled)
    BY DEF Options
  <2>3. Offering(sheet, scheduled) =
          [sheet EXCEPT !.scheduledEnabled = scheduled, !.isScheduled = a,
                        !.expired = b]
    BY <2>1, <2>2 DEF Offering, Options
  <2>. QED BY <2>3 DEF Options
<1>. HIDE DEF ok, loaded, empty
<1>9. CASE broken /\ options' = loaded /\ calls' = Heard(k)
  BY <1>1, <1>3, <1>6, <1>9, SheetStays DEF SheetOK
<1>10. CASE ~ok /\ options' = empty /\ calls' = Heard(k)
  BY <1>2, <1>3, <1>7, <1>10 DEF SheetOK, OptionsOK
<1>11. CASE ok /\ options' = Offering(empty, catalog.scheduled)
               /\ calls' = Heard(k)
  <2>1. /\ options' \in Options /\ options'.category = None
        /\ options'.estimate = options.estimate
    BY <1>4, <1>7, <1>8, <1>11 DEF Catalog
  <2>. QED BY <1>2, <1>3, <1>11, <2>1 DEF SheetOK, OptionsOK
<1>12. ASSUME ok, NEW first \in catalog.categories, CanCall,
              NEW sheet,
              sheet = Offering([loaded EXCEPT
                        !.categories = catalog.categories,
                        !.category = first], catalog.scheduled),
              options' = [sheet EXCEPT !.estimating = TRUE,
                            !.estimateError = FALSE, !.latest = Len(calls) + 1],
              calls' = Append(Heard(k), Call("estimate", sheet, sheet.pickup))
       PROVE  CallsOK(calls') /\ SheetOK'
  <2>1. /\ [loaded EXCEPT !.categories = catalog.categories,
                          !.category = first] \in Options
        /\ [loaded EXCEPT !.categories = catalog.categories,
                          !.category = first].estimate = options.estimate
    BY <1>4, <1>6, <1>12 DEF Options, Catalog
  <2>2. catalog.scheduled \in BOOLEAN BY <1>4, <1>12 DEF Catalog
  <2>3. sheet \in Options /\ sheet.estimate = options.estimate
    BY <1>8, <1>12, <2>1, <2>2
  <2>4. CallsOK(calls') /\ OptionsOK(options', calls')
    BY <1>2, <1>3, <1>12, <2>3, EstimateAsked DEF CanCall
  <2>. QED BY <2>4 DEF SheetOK
<1>. QED BY <1>5, <1>9, <1>10, <1>11, <1>12

LEMMA EstimateAnswered ==
  ASSUME CallsOK(calls), SheetOK, NEW k \in Underway,
         calls[k].ask.kind = "estimate", NEW ok \in BOOLEAN,
         ok => calls[k].at.phase = "ok", EstimateHeard(k, ok)
  PROVE  CallsOK(calls') /\ SheetOK'
<1>1. OptionsOK(options, calls) /\ k \in DOMAIN calls /\ calls[k] # Over
  BY DEF SheetOK, Underway
<1>2. options \in Options BY <1>1 DEF OptionsOK
<1>3. CallsOK(calls') /\ Follows(calls', calls)
  BY CallHeard DEF EstimateHeard
<1>4. CASE k # options.latest
  BY <1>3, <1>4, SheetFollows DEF EstimateHeard
<1>5. CASE k = options.latest
  <2> DEFINE quote == IF ok THEN calls[k].result ELSE None
             failed == ~ok
  <2>1. options' = [options EXCEPT !.estimating = FALSE,
                      !.estimateError = failed, !.estimate = quote]
    BY <1>5 DEF EstimateHeard
  <2>2. ok => /\ Fair(quote) /\ quote.category = calls[k].ask.category
              /\ quote.pickup = calls[k].ask.pickup
              /\ quote.destination = calls[k].ask.destination
    BY <1>1 DEF CallsOK, CallOK, Sound
  <2>3. failed \in BOOLEAN OBVIOUS
  <2>4. options.category # None => OfSheet(calls[k].ask, options)
    BY <1>1, <1>5 DEF OptionsOK
  <2>5. ~ok => quote = None OBVIOUS
  <2> HIDE DEF quote, failed
  <2>6. /\ options' \in Options /\ options'.estimate = quote
        /\ options'.category = options.category
        /\ options'.latest = options.latest
        /\ options'.pickup = options.pickup
        /\ options'.destination = options.destination
        /\ Chosen(options') = Chosen(options)
    BY <1>2, <2>1, <2>2, <2>3, <2>5 DEF Options, Chosen, Fair
  <2>7. OptionsOK(options', calls')
    BY <1>1, <1>3, <2>2, <2>4, <2>5, <2>6 DEF OptionsOK, OfSheet, Follows
  <2>. QED BY <1>3, <2>7 DEF SheetOK
<1>. QED BY <1>4, <1>5

LEMMA BookingAnswered ==
  ASSUME CallsOK(calls), SheetOK, active \in Keys \cup {None},
         NEW k \in Underway, NEW ok \in BOOLEAN, BookingHeard(k, ok)
  PROVE  CallsOK(calls') /\ SheetOK' /\ active' \in Keys \cup {None}
<1> DEFINE ours == options # None /\ options.id = calls[k].ask.sheet
<1>1. calls[k] \in Asked BY DEF CallsOK, CallOK, Underway
<1>2. active' \in Keys \cup {None} BY <1>1 DEF BookingHeard, Asked, Request
<1>3. CallsOK(Heard(k)) /\ Follows(Heard(k), calls) BY CallHeard
<1>4. CASE ours /\ ok
  <2>1. options' = None /\ calls' = Unmounted(Heard(k))
    BY <1>4 DEF BookingHeard
  <2>. QED BY <1>2, <1>3, <2>1, SheetCloses
<1>5. CASE ours /\ ~ok
  <2>1. options' = [options EXCEPT !.submitting = FALSE] /\ calls' = Heard(k)
    BY <1>5 DEF BookingHeard
  <2>2. OptionsOK(options, calls) BY <1>5 DEF SheetOK
  <2>3. options \in Options BY <2>2 DEF OptionsOK
  <2>4. /\ options' \in Options /\ options'.estimate = options.estimate
        /\ options'.estimating = options.estimating
        /\ options'.category = options.category
        /\ options'.isScheduled = options.isScheduled
        /\ options'.latest = options.latest /\ options'.pickup = options.pickup
        /\ options'.destination = options.destination
    BY <2>1, <2>3 DEF Options
  <2>5. OptionsOK(options', calls') BY <1>3, <2>1, <2>2, <2>4, SheetStays
  <2>. QED BY <1>2, <1>3, <2>1, <2>5 DEF SheetOK
<1>6. CASE ~ours
  <2>1. options' = options /\ calls' = Heard(k) BY <1>6 DEF BookingHeard
  <2>. QED BY <1>2, <1>3, <2>1, SheetFollows
<1>. QED BY <1>4, <1>5, <1>6

LEMMA AnswerHeard ==
  ASSUME CallsOK(calls), SheetOK, active \in Keys \cup {None},
         NEW k \in Underway, Hear(k)
  PROVE  CallsOK(calls') /\ SheetOK' /\ active' \in Keys \cup {None}
<1> DEFINE Ok(broken) == ~broken /\ calls[k].at.phase = "ok"
<1>1. calls[k].ask.kind \in {"booking", "catalog", "estimate"}
  BY DEF CallsOK, CallOK, Underway, Asked, Request, Kind
<1>2. \A broken : Ok(broken) \in BOOLEAN OBVIOUS
<1>3. PICK broken \in BOOLEAN :
        \/ calls[k].ask.kind = "booking" /\ BookingHeard(k, Ok(broken))
        \/ /\ calls[k].ask.kind = "catalog" /\ UNCHANGED active
           /\ CatalogHeard(k, Ok(broken), broken)
        \/ /\ calls[k].ask.kind = "estimate" /\ UNCHANGED active
           /\ EstimateHeard(k, Ok(broken))
  BY <1>1 DEF Hear
<1>4. CASE calls[k].ask.kind = "booking" /\ BookingHeard(k, Ok(broken))
  BY <1>2, <1>4, BookingAnswered
<1>5. CASE /\ calls[k].ask.kind = "catalog" /\ UNCHANGED active
           /\ CatalogHeard(k, Ok(broken), broken)
  BY <1>5, CatalogAnswered
<1>6. CASE /\ calls[k].ask.kind = "estimate" /\ UNCHANGED active
           /\ EstimateHeard(k, Ok(broken))
  <2>1. Ok(broken) => calls[k].at.phase = "ok" OBVIOUS
  <2> HIDE DEF Ok
  <2>. QED BY <1>2, <1>6, <2>1, EstimateAnswered
<1>. QED BY <1>3, <1>4, <1>5, <1>6

-----------------------------------------------------------------------------
(***************************************************************************)
(* The inductive invariant.                                                *)
(***************************************************************************)

HomeOK ==
  /\ pickup \in Places \cup {None} /\ active \in Keys \cup {None}
  /\ locating \in {"free", "locating", "reversing"}
  /\ isLocatingPickup \in BOOLEAN

PlanInv == SearchInv /\ ServerOK /\ CallsOK(calls) /\ SheetOK /\ HomeOK

LEMMA PlanningStarts == Init => PlanInv
<1> SUFFICES ASSUME Init PROVE PlanInv OBVIOUS
<1>1. SearchInv
  BY DEF Init, SearchInit, SearchInv, SearchTypeOK, SearchAnswersTheField
<1>2. ServerOK
  BY PlanningAssumption DEF Init, ServerOK, RidesOK
<1>3. CallsOK(calls) /\ SheetOK
  BY PlanningAssumption DEF Init, CallsOK, SheetOK
<1>4. HomeOK BY DEF Init, HomeOK
<1>. QED BY <1>1, <1>2, <1>3, <1>4 DEF PlanInv

LEMMA FollowsItself == ASSUME NEW cs PROVE Follows(cs, cs)
BY DEF Follows

LEMMA PlanningGoesOn == PlanInv /\ [Next]_vars => PlanInv'
<1> SUFFICES ASSUME PlanInv, [Next]_vars PROVE PlanInv' OBVIOUS
<1>1. /\ SearchInv /\ ServerOK /\ CallsOK(calls) /\ SheetOK /\ HomeOK
      /\ SearchInv'
  BY SearchKept DEF PlanInv
<1>2. CASE UNCHANGED << server, calls, options >> /\ HomeOK'
  BY <1>1, <1>2, SheetFollows, FollowsItself
     DEF PlanInv, server, ServerOK, RidesOK
<1>3. CASE UNCHANGED << server, screen, location >> /\ CallsOK(calls') /\ SheetOK'
  BY <1>1, <1>3
     DEF PlanInv, server, screen, location, ServerOK, RidesOK, HomeOK
<1>4. ASSUME NEW k \in Underway, Serve(k) PROVE PlanInv'
  <2>1. /\ CallsOK(calls') /\ Follows(calls', calls) /\ ServerOK'
        /\ UNCHANGED << screen, location, options, searching >>
    BY <1>1, <1>4, ServerMoves
  <2>. QED
    BY <1>1, <2>1, SheetFollows DEF PlanInv, screen, location, HomeOK
<1>5. ASSUME NEW k \in Underway, Hear(k) PROVE PlanInv'
  <2>1. CallsOK(calls') /\ SheetOK' /\ active' \in Keys \cup {None}
    BY <1>1, <1>5, AnswerHeard DEF HomeOK
  <2>2. UNCHANGED << server, pickup, location >> BY <1>5 DEF Hear
  <2>. QED
    BY <1>1, <2>1, <2>2
       DEF PlanInv, server, location, ServerOK, RidesOK, HomeOK
<1>6. CASE Switch
  <2>1. ServerOK'
    <3>1. changes' \in 0 .. MaxChanges
      BY <1>1, <1>6, PlanningAssumption DEF Switch, ServerOK
    <3>. QED BY <1>1, <1>6, <3>1 DEF Switch, ServerOK, RidesOK
  <2>2. UNCHANGED << calls, options, screen, location >> BY <1>6 DEF Switch
  <2>. QED
    BY <1>1, <2>1, <2>2, SheetFollows, FollowsItself
       DEF PlanInv, screen, location, HomeOK
<1>7. CASE Choices
  <2>1. UNCHANGED << server, screen, location >>
    BY <1>7 DEF Choices, ChooseCategory, ChooseSchedule, PickTime, Choose,
       PickupTimePasses, RetryEstimate, RetryCategories, Confirm, CloseOptions
  <2>2. CASE CloseOptions
    <3>1. CallsOK(calls') /\ SheetOK'
      BY <1>1, <2>2, SheetCloses DEF CloseOptions
    <3>. QED BY <1>3, <2>1, <3>1
  <2>3. CASE ~CloseOptions
    <3>1. CallsOK(calls') /\ SheetOK'
      BY <1>1, <1>7, <2>3, ChoicesMade, SheetRetries, SheetConfirmed
         DEF Choices, HomeOK
    <3>. QED BY <1>3, <2>1, <3>1
  <2>. QED BY <2>2, <2>3
<1>8. ASSUME \/ Locate \/ Located
             \/ \E place \in Named : PickupResolved(place)
      PROVE  PlanInv'
  <2>1. HomeOK'
    BY <1>1, <1>8, PlanningAssumption
       DEF Locate, Located, PickupResolved, Named, HomeOK, screen
  <2>2. UNCHANGED << server, calls, options >>
    BY <1>8 DEF Locate, Located, PickupResolved
  <2>. QED BY <1>2, <2>1, <2>2
<1>9. ASSUME SearchStep \/ \E mode \in Mode : BeginSearch(mode)
      PROVE  PlanInv'
  <2>1. UNCHANGED << server, calls, screen, location, options >>
    BY <1>9 DEF SearchStep, BeginSearch
  <2>2. HomeOK' BY <1>1, <2>1 DEF screen, location, HomeOK
  <2>. QED BY <1>2, <2>1, <2>2
<1>10. ASSUME NEW place \in Places, ChoosePickup(place) PROVE PlanInv'
  <2>1. HomeOK' /\ UNCHANGED << server, calls, options >>
    BY <1>1, <1>10 DEF ChoosePickup, HomeOK
  <2>. QED BY <1>2, <2>1
<1>11. ASSUME NEW place \in Places, ChooseDestination(place) PROVE PlanInv'
  <2>1. CallsOK(calls') /\ SheetOK'
    BY <1>1, <1>11, SheetOpens DEF HomeOK
  <2>2. UNCHANGED << server, screen, location >>
    BY <1>11 DEF ChooseDestination, screen
  <2>. QED BY <1>3, <2>1, <2>2
<1>12. CASE UNCHANGED vars
  BY <1>1, <1>2, <1>12 DEF vars, server, HomeOK
<1>. QED
  BY <1>4, <1>5, <1>6, <1>7, <1>8, <1>9, <1>10, <1>11, <1>12 DEF Next

LEMMA PlanningIsInductive == Spec => []PlanInv
BY PlanningStarts, PlanningGoesOn, PTL DEF Spec

-----------------------------------------------------------------------------
(***************************************************************************)
(* Theorems.                                                               *)
(***************************************************************************)

\* Sheets, calls, rides and the home screen have their types.
THEOREM PlanningTypes == Spec => []TypeOK
<1>1. PlanInv => TypeOK
  BY DEF PlanInv, SearchInv, ServerOK, RidesOK, CallsOK, SheetOK, OptionsOK,
         HomeOK, TypeOK, Asked
<1>. QED BY <1>1, PlanningIsInductive, PTL

\* However searches overlap and fail, the list on the sheet is the answer to the
\* text in its field.
THEOREM ListIsForTheField == Spec => []SearchAnswersTheField
<1>1. PlanInv => SearchAnswersTheField BY DEF PlanInv, SearchInv
<1>. QED BY <1>1, PlanningIsInductive, PTL

\* However estimates overlap and fail, the fare over an enabled Confirm button is
\* of the category and the trip that is confirmed.
THEOREM FareIsForTheChoice == Spec => []ConfirmShowsTheChosen
<1>1. PlanInv => ConfirmShowsTheChosen
  BY DEF PlanInv, SheetOK, OptionsOK, OfSheet, ConfirmShowsTheChosen,
         ConfirmEnabled
<1>. QED BY <1>1, PlanningIsInductive, PTL

\* A booked fare that is not the confirmed one has another policy, pickup or
\* route: between confirming and storing nothing else enters it.
THEOREM FaresChangeForAReason == Spec => []FareChangesForAReason
<1>1. PlanInv => FareChangesForAReason
  BY DEF PlanInv, ServerOK, RidesOK, Fair, FareChangesForAReason
<1>. QED BY <1>1, PlanningIsInductive, PTL

\* Every quote shown, underway or stored keeps to its policy's minimum and
\* maximum, and the longer of two trips never has the lower fare.
THEOREM QuotesFollowThePolicy == Spec => []QuotesKeepThePolicy
<1>1. PlanInv => \A q \in Quotes : Fair(q)
  BY DEF PlanInv, SheetOK, OptionsOK, ServerOK, RidesOK, CallsOK, CallOK,
         Sound, Quotes
<1>2. ASSUME NEW q, Fair(q)
      PROVE  /\ Terms[q.policy][q.category] \in Policy
             /\ ValidPolicy(Terms[q.policy][q.category])
             /\ q.distance \in Nat /\ q.duration \in Nat
             /\ q.fare = Fare(Terms[q.policy][q.category], q.distance, q.duration)
  BY <1>2, PlanningAssumption DEF Fair, Quote
<1>3. ASSUME NEW q, Fair(q), NEW r, Fair(r),
             q.policy = r.policy, q.category = r.category,
             q.distance <= r.distance, q.duration <= r.duration
      PROVE  q.fare <= r.fare
  BY <1>2, <1>3, LongerNeverCheaper
<1>4. ASSUME NEW q, Fair(q)
      PROVE  /\ q.fare >= Terms[q.policy][q.category].minimumFare
             /\ Terms[q.policy][q.category].maximumFare # NoMaximum =>
                  q.fare <= Terms[q.policy][q.category].maximumFare
  BY <1>2, <1>4, FareWithinPolicy
<1>5. PlanInv => QuotesKeepThePolicy
  BY <1>1, <1>3, <1>4 DEF QuotesKeepThePolicy
<1>. QED BY <1>5, PlanningIsInductive, PTL
=============================================================================
