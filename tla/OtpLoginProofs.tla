--------------------------- MODULE OtpLoginProofs ---------------------------
(***************************************************************************)
(* Proofs about OtpLogin, for any number of clients, phones, challenges    *)
(* and accounts, and any limit, window and code life.                      *)
(***************************************************************************)
EXTENDS OtpLogin, FiniteSetTheorems, TLAPS

\* A request between the removal of its challenge and its end.
Holding(c) == pc[c] \in {"lookup", "update", "create", "session"}

\* What a request's variables hold at each step.
JobFits(c) ==
  /\ pc[c] \in {"expire", "issue"} => job[c].phone \in Phones
  /\ pc[c] = "consume" \/ Holding(c) =>
       /\ job[c].role \in Roles /\ job[c].city \in Cities
       /\ job[c].challenge \in Challenges
  /\ Holding(c) => job[c].phone \in Phones
  /\ pc[c] \in {"update", "session"} =>
       /\ job[c].account \in Accounts
       /\ account[job[c].account] # None
       /\ account[job[c].account].phone = job[c].phone

JobOK == \A c \in Clients : JobFits(c)

IssuedOK ==
  \A ch \in Challenges :
    challenge[ch] # NoChallenge => challenge[ch].phone = issuedTo[ch]

\* A challenge in the hands of a request is no longer in the map, was issued to
\* the phone the request logs in, and is in no other request's hands.
HeldOnce ==
  /\ \A c \in Clients : Holding(c) =>
       /\ challenge[job[c].challenge] = NoChallenge
       /\ issuedTo[job[c].challenge] = job[c].phone
  /\ \A b, c \in Clients :
       Holding(b) /\ Holding(c) /\ job[b].challenge = job[c].challenge => b = c

\* A challenge that has become a session is in neither map nor request.
Spent ==
  \A i \in DOMAIN sessions :
    /\ challenge[sessions[i].challenge] = NoChallenge
    /\ \A c \in Clients :
         Holding(c) => job[c].challenge # sessions[i].challenge

\* The requests of a phone younger than b were counted by the key in Redis, the
\* others by a key that is gone; each key gave every count once; and a key with
\* an expiry lives until the requests of its predecessors have left the window.
Paced(p, b) ==
  /\ \A x \in recent[p] : x.age < b => x.n <= count[p]
  /\ \A x, y \in recent[p] :
       (x.age < b <=> y.age < b) /\ x.n = y.n => x = y
  /\ ttl[p] # None => b + ttl[p] > Window

AllPaced == \A p \in Phones : \E b \in 1 .. Window : Paced(p, b)

IInv ==
  /\ TypeOK /\ AllPaced /\ JobOK /\ IssuedOK /\ HeldOnce /\ Spent
  /\ SingleUse /\ ForThePhone /\ OneAccountPerPhone

-----------------------------------------------------------------------------
LEMMA NoneApart ==
  /\ None \notin Phones /\ None \notin Challenges /\ None \notin Accounts
  /\ None \notin Roles /\ None \notin Cities /\ None \notin Codes
BY NoneAssumption, Zenon

LEMMA Numbers ==
  /\ Limit \in Nat /\ Limit >= 1
  /\ Window \in Nat /\ Window >= 1
  /\ CodeLife \in Nat /\ CodeLife >= 1
BY NumbersAssumption

\* None is not a number.
LEMMA NoneNoNumber == None \notin Nat
BY NoneAssumption

LEMMA NoneNoRow == None \notin AccountRow
BY NoneAssumption

LEMMA SessionTypes ==
  ASSUME TypeOK
  PROVE  \A i \in DOMAIN sessions : /\ sessions[i].challenge \in Challenges
                                    /\ sessions[i].account \in Accounts
<1>1. \A i \in DOMAIN sessions : sessions[i] \in SessionRow
  BY DEF TypeOK
<1>2. QED
  BY <1>1 DEF SessionRow

\* The invariant holds when the process first starts.
LEMMA InitOK == Init => IInv
<1> SUFFICES ASSUME Init PROVE IInv
  OBVIOUS
<1>1. TypeOK
  <2>1. /\ count \in [Phones -> 0 .. Limit + 1]
        /\ ttl \in [Phones -> (1 .. Window) \cup {None}]
        /\ recent \in [Phones -> SUBSET Passed]
    BY Numbers DEF Init
  <2>2. /\ challenge \in [Challenges -> Challenge \cup {NoChallenge}]
        /\ issuedTo \in [Challenges -> Phones \cup {None}]
        /\ account \in [Accounts -> AccountRow \cup {None}]
        /\ sessions \in Seq(SessionRow)
    BY DEF Init
  <2>3. NoJob \in Job
    BY DEF NoJob, Job
  <2>4. pc \in [Clients -> Step] /\ job \in [Clients -> Job]
    BY <2>3 DEF Init, Step
  <2>5. QED
    BY <2>1, <2>2, <2>4 DEF TypeOK
<1>2. AllPaced
  BY Numbers DEF Init, AllPaced, Paced
<1>3. QED
  BY <1>1, <1>2 DEF Init, IInv, JobOK, JobFits, Holding, IssuedOK, HeldOnce, Spent, SingleUse,
              ForThePhone, OneAccountPerPhone
-----------------------------------------------------------------------------
(***************************************************************************)
(* Types.                                                                  *)
(***************************************************************************)

LEMMA GotoType ==
  ASSUME TypeOK, NEW c \in Clients, NEW step \in Step, NEW local \in Job,
         Goto(c, step, local)
  PROVE  /\ pc' \in [Clients -> Step] /\ job' \in [Clients -> Job]
         /\ pc'[c] = step /\ job'[c] = local
         /\ \A b \in Clients \ {c} : pc'[b] = pc[b] /\ job'[b] = job[b]
BY DEF TypeOK, Goto

LEMMA FinishType ==
  ASSUME TypeOK, NEW c \in Clients, Finish(c)
  PROVE  /\ pc' \in [Clients -> Step] /\ job' \in [Clients -> Job]
         /\ pc'[c] = "idle"
         /\ \A b \in Clients \ {c} : pc'[b] = pc[b] /\ job'[b] = job[b]
<1>1. NoJob \in Job
  BY DEF NoJob, Job
<1>2. "idle" \in Step
  BY DEF Step
<1>3. Goto(c, "idle", NoJob)
  BY DEF Finish
<1>4. QED
  BY <1>1, <1>2, <1>3, GotoType

\* What a step does to its request, and that it leaves the others alone.
LEMMA HandlersKeepTypes ==
  ASSUME TypeOK, JobOK, NEW c \in Clients, Handle(c)
  PROVE  TypeOK' /\ \A b \in Clients \ {c} : pc'[b] = pc[b] /\ job'[b] = job[b]
<1> USE Numbers
<1> DEFINE Kept == \A b \in Clients \ {c} : pc'[b] = pc[b] /\ job'[b] = job[b]
<1>0. job[c] \in Job /\ pc[c] \in Step /\ NoJob \in Job
  BY DEF TypeOK, NoJob, Job
<1>1. ASSUME NEW p \in Phones, RequestOtp(c, p)
      PROVE  TypeOK' /\ Kept
  <2> DEFINE n == IF count[p] > Limit THEN count[p] ELSE count[p] + 1
  <2>1. count[p] \in 0 .. Limit + 1 /\ n \in 0 .. Limit + 1
    BY DEF TypeOK
  <2>2. count' \in [Phones -> 0 .. Limit + 1]
    BY <1>1, <2>1 DEF RequestOtp, TypeOK
  <2>3. CASE Refused(n)
    <3>1. Finish(c) /\ UNCHANGED recent
      BY <1>1, <2>3 DEF RequestOtp
    <3>2. QED
      BY <1>1, <2>2, <3>1, FinishType DEF RequestOtp, TypeOK, codes, stored
  <2>4. CASE ~Refused(n)
    <3> DEFINE to == IF StartsWindow(n) THEN "expire" ELSE "issue"
    <3>1. Goto(c, to, [NoJob EXCEPT !.phone = p])
      BY <1>1, <2>4 DEF RequestOtp
    <3>2. to \in Step /\ [NoJob EXCEPT !.phone = p] \in Job
      BY <1>0 DEF Step, Job
    <3>3. [age |-> 0, n |-> n] \in Passed
      BY <2>1, <2>4 DEF Passed, Refused
    <3>4. recent' = [recent EXCEPT ![p] = @ \cup {[age |-> 0, n |-> n]}]
      BY <1>1, <2>4 DEF RequestOtp
    <3>5. recent' \in [Phones -> SUBSET Passed]
      BY <3>3, <3>4 DEF TypeOK
    <3> HIDE DEF to
    <3>6. QED
      BY <1>1, <2>2, <3>1, <3>2, <3>5, GotoType
         DEF RequestOtp, TypeOK, codes, stored
  <2>5. QED
    BY <2>3, <2>4
<1>2. ASSUME SetExpiry(c) PROVE TypeOK' /\ Kept
  <2>1. job[c].phone \in Phones
    BY <1>2 DEF SetExpiry, JobOK, JobFits
  <2>2. ttl' \in [Phones -> (1 .. Window) \cup {None}]
    BY <1>2, <2>1 DEF SetExpiry, TypeOK
  <2>3. Goto(c, "issue", job[c]) /\ "issue" \in Step
    BY <1>2 DEF SetExpiry, Step
  <2>4. QED
    BY <1>0, <1>2, <2>2, <2>3, GotoType
       DEF SetExpiry, TypeOK, codes, stored
<1>3. ASSUME Issue(c) PROVE TypeOK' /\ Kept
  <2>1. job[c].phone \in Phones
    BY <1>3 DEF Issue, JobOK, JobFits
  <2>2. PICK ch \in Challenges, code \in Codes :
          /\ challenge' = [challenge EXCEPT ![ch] =
                             [phone |-> job[c].phone, code |-> code,
                              life |-> CodeLife]]
          /\ issuedTo' = [issuedTo EXCEPT ![ch] = job[c].phone]
    BY <1>3 DEF Issue
  <2>3. [phone |-> job[c].phone, code |-> code, life |-> CodeLife] \in Challenge
    BY <2>1 DEF Challenge
  <2>4. /\ challenge' \in [Challenges -> Challenge \cup {NoChallenge}]
        /\ issuedTo' \in [Challenges -> Phones \cup {None}]
    BY <2>1, <2>2, <2>3 DEF TypeOK
  <2>5. QED
    BY <1>3, <2>4, FinishType DEF Issue, TypeOK, counters, stored
<1>4. ASSUME NEW role \in Roles, NEW ch \in Challenges, NEW code \in Codes,
             NEW city \in Cities, Verify(c, role, ch, code, city)
      PROVE  TypeOK' /\ Kept
  <2> DEFINE new == [NoJob EXCEPT !.role = role, !.challenge = ch,
                                  !.code = code, !.city = city]
  <2>1. new \in Job /\ "consume" \in Step
    BY DEF NoJob, Job, Step
  <2>2. Goto(c, "consume", new)
    BY <1>4 DEF Verify
  <2> HIDE DEF new
  <2>3. QED
    BY <1>4, <2>1, <2>2, GotoType DEF Verify, TypeOK, counters, codes, stored
<1>5. ASSUME Consume(c) PROVE TypeOK' /\ Kept
  <2> DEFINE held == challenge[job[c].challenge]
  <2>1. job[c].challenge \in Challenges
    BY <1>5 DEF Consume, JobOK, JobFits
  <2>2. challenge' \in [Challenges -> Challenge \cup {NoChallenge}]
    BY <1>5, <2>1 DEF Consume, TypeOK
  <2>3. CASE Good(held, job[c].code)
    <3>1. held \in Challenge
      BY <2>1, <2>3 DEF TypeOK, Good, NoChallenge
    <3>2. held.phone \in Phones
      BY <3>1 DEF Challenge
    <3>3. [job[c] EXCEPT !.phone = held.phone] \in Job
      BY <1>0, <3>2 DEF Job
    <3>4. Goto(c, "lookup", [job[c] EXCEPT !.phone = held.phone])
      BY <1>5, <2>3 DEF Consume
    <3>5. "lookup" \in Step
      BY DEF Step
    <3>6. QED
      BY <1>5, <2>2, <3>3, <3>4, <3>5, GotoType
         DEF Consume, TypeOK, counters, stored
  <2>4. CASE ~Good(held, job[c].code)
    BY <1>5, <2>2, <2>4, FinishType DEF Consume, TypeOK, counters, stored
  <2>5. QED
    BY <2>3, <2>4
<1>6. ASSUME Lookup(c) PROVE TypeOK' /\ Kept
  <2>1. CASE Goto(c, "create", job[c])
    <3>1. "create" \in Step
      BY DEF Step
    <3>2. QED
      BY <1>0, <1>6, <2>1, <3>1, GotoType
         DEF Lookup, TypeOK, counters, codes, stored
  <2>2. ASSUME NEW a \in Accounts,
               Goto(c, "update", [job[c] EXCEPT !.account = a])
        PROVE  TypeOK' /\ Kept
    <3>1. "update" \in Step /\ [job[c] EXCEPT !.account = a] \in Job
      BY <1>0 DEF Step, Job
    <3>2. QED
      BY <1>6, <2>2, <3>1, GotoType
         DEF Lookup, TypeOK, counters, codes, stored
  <2>3. QED
    BY <1>6, <2>1, <2>2 DEF Lookup, AccountsOf
<1>7. ASSUME UpdateCity(c) PROVE TypeOK' /\ Kept
  <2> DEFINE a == job[c].account
  <2>1. a \in Accounts /\ account[a] \in AccountRow /\ job[c].city \in Cities
    BY <1>7 DEF UpdateCity, JobOK, JobFits, Holding, TypeOK
  <2>2. [account[a] EXCEPT !.city = job[c].city] \in AccountRow
    BY <2>1 DEF AccountRow
  <2>3. account' = [account EXCEPT ![a] = [account[a] EXCEPT !.city = job[c].city]]
    BY <1>7 DEF UpdateCity
  <2>4. account' \in [Accounts -> AccountRow \cup {None}]
    BY <2>1, <2>2, <2>3 DEF TypeOK
  <2>5. Goto(c, "session", job[c]) /\ "session" \in Step
    BY <1>7 DEF UpdateCity, Step
  <2>6. QED
    BY <1>0, <1>7, <2>4, <2>5, GotoType
       DEF UpdateCity, TypeOK, counters, codes
<1>8. ASSUME CreateAccount(c) PROVE TypeOK' /\ Kept
  <2>1. CASE Finish(c) /\ UNCHANGED account
    BY <1>8, <2>1, FinishType DEF CreateAccount, TypeOK, counters, codes
  <2>2. ASSUME NEW a \in Accounts, Insert(c, a)
        PROVE  TypeOK' /\ Kept
    <3>1. [ role |-> job[c].role, phone |-> job[c].phone,
            city |-> job[c].city ] \in AccountRow
      BY <1>8 DEF CreateAccount, JobOK, JobFits, Holding, AccountRow
    <3>2. account' \in [Accounts -> AccountRow \cup {None}]
      BY <2>2, <3>1 DEF Insert, TypeOK
    <3>3. "session" \in Step /\ [job[c] EXCEPT !.account = a] \in Job
      BY <1>0 DEF Step, Job
    <3>4. QED
      BY <1>8, <2>2, <3>2, <3>3, GotoType
         DEF CreateAccount, Insert, TypeOK, counters, codes
  <2>3. QED
    BY <1>8, <2>1, <2>2 DEF CreateAccount
<1>9. ASSUME CreateSession(c) PROVE TypeOK' /\ Kept
  <2>1. [account |-> job[c].account, challenge |-> job[c].challenge]
          \in SessionRow
    BY <1>9 DEF CreateSession, JobOK, JobFits, Holding, SessionRow
  <2>2. sessions' \in Seq(SessionRow)
    BY <1>9, <2>1 DEF CreateSession, TypeOK
  <2>3. QED
    BY <1>9, <2>2, FinishType DEF CreateSession, TypeOK, counters, codes
<1>10. QED
  BY <1>1, <1>2, <1>3, <1>4, <1>5, <1>6, <1>7, <1>8, <1>9 DEF Handle

LEMMA TickKeepsTypes ==
  ASSUME TypeOK, Tick
  PROVE  TypeOK'
<1> USE Numbers
<1>1. count' \in [Phones -> 0 .. Limit + 1]
  BY DEF TypeOK, Tick
<1>2. ttl' \in [Phones -> (1 .. Window) \cup {None}]
  BY NoneApart DEF TypeOK, Tick
<1>3. recent' \in [Phones -> SUBSET Passed]
  <2>1. ASSUME NEW requests \in SUBSET Passed PROVE Older(requests) \subseteq Passed
    BY DEF Older, Passed
  <2>2. QED
    BY <2>1 DEF TypeOK, Tick
<1>4. challenge' \in [Challenges -> Challenge \cup {NoChallenge}]
  <2>1. ASSUME NEW ch \in Challenges, challenge[ch].life # 0
        PROVE  [challenge[ch] EXCEPT !.life = @ - 1] \in Challenge
    <3>1. challenge[ch] \in Challenge
      BY <2>1 DEF TypeOK, NoChallenge
    <3>2. QED
      BY <2>1, <3>1 DEF Challenge
  <2>2. QED
    BY <2>1 DEF TypeOK, Tick
<1>5. QED
  BY <1>1, <1>2, <1>3, <1>4 DEF TypeOK, Tick, stored

-----------------------------------------------------------------------------
(***************************************************************************)
(* The invariant.  The steps that matter: Issue takes a challenge never    *)
(* issued before, Consume moves one from the map to the request, and       *)
(* CreateSession from the request to a session.                            *)
(***************************************************************************)

\* Rest of the invariant, without types.
Rest == JobOK /\ IssuedOK /\ HeldOnce /\ Spent
          /\ SingleUse /\ ForThePhone /\ OneAccountPerPhone

\* A step that changes neither codes nor accounts nor sessions, and starts no
\* request beyond the removal of a challenge.
LEMMA QuietSteps ==
  ASSUME TypeOK, Rest, NEW c \in Clients, UNCHANGED << codes, stored >>,
         \A b \in Clients \ {c} : pc'[b] = pc[b] /\ job'[b] = job[b],
         ~Holding(c)', JobOK'
  PROVE  Rest'
<1>1. \A b \in Clients : Holding(b)' =>
         /\ b # c /\ Holding(b) /\ job'[b] = job[b]
  BY DEF Holding
<1>2. HeldOnce'
  BY <1>1 DEF Rest, HeldOnce, codes
<1>3. Spent'
  BY <1>1 DEF Rest, Spent, codes, stored
<1>4. QED
  BY <1>2, <1>3 DEF Rest, IssuedOK, SingleUse, ForThePhone, OneAccountPerPhone,
                    codes, stored

\* A request that keeps its challenge and its phone.
LEMMA HoldsOn ==
  ASSUME TypeOK, Rest, NEW c \in Clients, UNCHANGED << codes, sessions >>,
         \A b \in Clients \ {c} : pc'[b] = pc[b] /\ job'[b] = job[b],
         Holding(c), Holding(c)', job'[c].phone = job[c].phone,
         job'[c].challenge = job[c].challenge
  PROVE  IssuedOK' /\ HeldOnce' /\ Spent' /\ SingleUse'
<1>1. \A b \in Clients : Holding(b)' =>
         /\ Holding(b) /\ job'[b].phone = job[b].phone
         /\ job'[b].challenge = job[b].challenge
  BY DEF Holding
<1>2. HeldOnce'
  BY <1>1 DEF Rest, HeldOnce, codes
<1>3. Spent'
  BY <1>1 DEF Rest, Spent, codes
<1>4. QED
  BY <1>2, <1>3 DEF Rest, IssuedOK, SingleUse, codes

\* A request that ends.
LEMMA LetsGo ==
  ASSUME TypeOK, Rest, NEW c \in Clients, UNCHANGED << codes, stored >>,
         \A b \in Clients \ {c} : pc'[b] = pc[b] /\ job'[b] = job[b],
         pc'[c] = "idle"
  PROVE  Rest'
<1>1. ~Holding(c)'
  BY DEF Holding
<1>2. JobOK'
  BY <1>1 DEF Rest, JobOK, JobFits, Holding, stored
<1>3. QED
  BY <1>1, <1>2, QuietSteps

LEMMA HandlersKeepTheRest ==
  ASSUME TypeOK, Rest, NEW c \in Clients, Handle(c)
  PROVE  Rest'
<1> DEFINE Kept == \A b \in Clients \ {c} : pc'[b] = pc[b] /\ job'[b] = job[b]
<1>0. TypeOK' /\ Kept
  BY HandlersKeepTypes DEF Rest
<1>a. job[c] \in Job /\ pc[c] \in Step /\ NoJob \in Job
  BY DEF TypeOK, NoJob, Job
<1>1. ASSUME NEW p \in Phones, RequestOtp(c, p)
      PROVE  Rest'
  <2>1. pc'[c] = "idle" \/ (pc'[c] \in {"expire", "issue"} /\ job'[c].phone = p)
    <3>1. CASE Finish(c)
      BY <3>1, FinishType
    <3>2. ASSUME NEW step \in {"expire", "issue"},
                 Goto(c, step, [NoJob EXCEPT !.phone = p])
          PROVE  pc'[c] = step /\ job'[c].phone = p
      BY <1>a, <3>2 DEF Goto, TypeOK, Job
    <3>3. QED
      BY <1>1, <3>1, <3>2 DEF RequestOtp
  <2>2. ~Holding(c)'
    BY <2>1 DEF Holding
  <2>3. UNCHANGED << codes, stored >>
    BY <1>1 DEF RequestOtp
  <2>4. JobOK'
    BY <1>0, <2>1, <2>2, <2>3 DEF Rest, JobOK, JobFits, Holding, stored
  <2>5. QED
    BY <1>0, <2>2, <2>3, <2>4, QuietSteps
<1>2. ASSUME SetExpiry(c) PROVE Rest'
  <2>1. pc'[c] = "issue" /\ job'[c] = job[c]
    BY <1>2 DEF SetExpiry, Goto, TypeOK
  <2>2. ~Holding(c)' /\ UNCHANGED << codes, stored >>
    BY <1>2, <2>1 DEF Holding, SetExpiry
  <2>3. JobOK'
    BY <1>0, <1>2, <2>1, <2>2 DEF Rest, JobOK, JobFits, Holding, stored, SetExpiry
  <2>4. QED
    BY <1>0, <2>2, <2>3, QuietSteps
<1>3. ASSUME Issue(c) PROVE Rest'
  <2>1. job[c].phone \in Phones
    BY <1>3 DEF Issue, Rest, JobOK, JobFits
  <2>2. PICK ch \in Challenges, code \in Codes :
          /\ issuedTo[ch] = None
          /\ challenge' = [challenge EXCEPT ![ch] =
                             [phone |-> job[c].phone, code |-> code,
                              life |-> CodeLife]]
          /\ issuedTo' = [issuedTo EXCEPT ![ch] = job[c].phone]
    BY <1>3 DEF Issue
  <2>3. pc'[c] = "idle" /\ UNCHANGED stored
    BY <1>3, FinishType DEF Issue
  <2>4. \A b \in Clients : Holding(b)' =>
          b # c /\ Holding(b) /\ job'[b] = job[b] /\ job[b].challenge # ch
    <3>1. \A b \in Clients : Holding(b) => job[b].challenge # ch
      BY <2>2, NoneApart DEF Rest, HeldOnce, JobOK, JobFits
    <3>2. QED
      BY <1>0, <2>3, <3>1 DEF Holding
  <2>5. \A i \in DOMAIN sessions :
          sessions[i].challenge # ch /\ sessions[i].challenge \in Challenges
    <3> SUFFICES ASSUME NEW i \in DOMAIN sessions
                 PROVE  sessions[i].challenge # ch
                          /\ sessions[i].challenge \in Challenges
      OBVIOUS
    <3>1. sessions[i] \in SessionRow
      BY DEF TypeOK
    <3>2. account[sessions[i].account] \in AccountRow
      BY <3>1 DEF TypeOK, SessionRow, Rest, ForThePhone
    <3>3. issuedTo[sessions[i].challenge] # None
      BY <3>2, NoneApart DEF Rest, ForThePhone, AccountRow
    <3>4. QED
      BY <2>2, <3>1, <3>3 DEF SessionRow
  <2>6. JobOK'
    BY <1>0, <2>3 DEF Rest, JobOK, JobFits, Holding, stored
  <2>7. \A q \in Challenges \ {ch} :
          challenge'[q] = challenge[q] /\ issuedTo'[q] = issuedTo[q]
    BY <2>2 DEF TypeOK
  <2>8. IssuedOK'
    BY <2>2, <2>7 DEF Rest, IssuedOK, TypeOK
  <2>9. HeldOnce'
    BY <2>4, <2>7 DEF Rest, HeldOnce, JobOK, JobFits
  <2>10. Spent'
    BY <2>3, <2>4, <2>5, <2>7 DEF Rest, Spent, stored
  <2>11. ForThePhone'
    BY <2>3, <2>5, <2>7 DEF Rest, ForThePhone, stored
  <2>12. SingleUse' /\ OneAccountPerPhone'
    BY <2>3 DEF Rest, SingleUse, OneAccountPerPhone, stored
  <2>13. QED
    BY <2>6, <2>8, <2>9, <2>10, <2>11, <2>12 DEF Rest
<1>4. ASSUME NEW role \in Roles, NEW ch \in Challenges, NEW code \in Codes,
             NEW city \in Cities, Verify(c, role, ch, code, city)
      PROVE  Rest'
  <2>1. /\ pc'[c] = "consume" /\ job'[c].role = role
        /\ job'[c].challenge = ch /\ job'[c].city = city
    BY <1>4, <1>a DEF Verify, Goto, TypeOK, Job
  <2>2. ~Holding(c)' /\ UNCHANGED << codes, stored >>
    BY <1>4, <2>1 DEF Holding, Verify
  <2>3. JobOK'
    BY <1>0, <2>1, <2>2 DEF Rest, JobOK, JobFits, Holding, stored
  <2>4. QED
    BY <1>0, <2>2, <2>3, QuietSteps
<1>5. ASSUME Consume(c) PROVE Rest'
  <2> DEFINE ch == job[c].challenge
             held == challenge[ch]
  <2>1. /\ ch \in Challenges /\ job[c].role \in Roles /\ job[c].city \in Cities
        /\ ~Holding(c)
    BY <1>5 DEF Consume, Rest, JobOK, JobFits, Holding
  <2>2. /\ challenge'[ch] = NoChallenge
        /\ \A q \in Challenges \ {ch} : challenge'[q] = challenge[q]
        /\ UNCHANGED << issuedTo, stored >>
    BY <1>5, <2>1 DEF Consume, TypeOK
  <2>3. IssuedOK' /\ SingleUse' /\ ForThePhone' /\ OneAccountPerPhone'
    BY <2>2 DEF Rest, IssuedOK, SingleUse, ForThePhone, OneAccountPerPhone, stored
  <2>4. CASE ~Good(held, job[c].code)
    <3>1. pc'[c] = "idle"
      BY <1>5, <2>4, FinishType DEF Consume
    <3>2. \A b \in Clients : Holding(b)' =>
            b # c /\ Holding(b) /\ job'[b] = job[b]
      BY <1>0, <3>1 DEF Holding
    <3>3. JobOK'
      BY <1>0, <2>2, <3>1 DEF Rest, JobOK, JobFits, Holding, stored
    <3>4. HeldOnce'
      BY <2>1, <2>2, <3>2 DEF Rest, HeldOnce, JobOK, JobFits
    <3>5. Spent'
      BY <2>1, <2>2, <3>2, SessionTypes DEF Rest, Spent, stored
    <3>6. QED
      BY <2>3, <3>3, <3>4, <3>5 DEF Rest
  <2>5. CASE Good(held, job[c].code)
    <3>1. held # NoChallenge /\ held \in Challenge
      BY <2>1, <2>5 DEF Good, NoChallenge, TypeOK
    <3>2. held.phone = issuedTo[ch] /\ held.phone \in Phones
      BY <2>1, <3>1 DEF Rest, IssuedOK, Challenge
    <3>3. /\ pc'[c] = "lookup"
          /\ job'[c] = [job[c] EXCEPT !.phone = held.phone]
      BY <1>5, <2>5 DEF Consume, Goto, TypeOK
    <3>4. /\ job'[c].phone = held.phone /\ job'[c].challenge = ch
          /\ job'[c].role = job[c].role /\ job'[c].city = job[c].city
      BY <1>a, <3>3 DEF Job
    <3>5. \A b \in Clients : Holding(b)' /\ b # c =>
            Holding(b) /\ job'[b] = job[b] /\ job[b].challenge # ch
      <4>1. \A b \in Clients : Holding(b) => job[b].challenge # ch
        BY <3>1 DEF Rest, HeldOnce
      <4>2. QED
        BY <1>0, <4>1 DEF Holding
    <3>6. \A i \in DOMAIN sessions : sessions[i].challenge # ch
      BY <3>1 DEF Rest, Spent
    <3>7. JobOK'
      BY <1>0, <2>1, <2>2, <3>2, <3>3, <3>4 DEF Rest, JobOK, JobFits, Holding, stored
    <3>8. HeldOnce'
      BY <2>1, <2>2, <3>2, <3>4, <3>5 DEF Rest, HeldOnce, JobOK, JobFits
    <3>9. Spent'
      BY <2>2, <3>4, <3>5, <3>6, SessionTypes DEF Rest, Spent, stored
    <3>10. QED
      BY <2>3, <3>7, <3>8, <3>9 DEF Rest
  <2>6. QED
    BY <2>4, <2>5
<1>6. ASSUME Lookup(c) PROVE Rest'
  <2>1. Holding(c) /\ UNCHANGED << codes, stored >>
    BY <1>6 DEF Lookup, Holding
  <2>2. CASE Goto(c, "create", job[c])
    <3>1. pc'[c] = "create" /\ job'[c] = job[c]
      BY <2>2 DEF Goto, TypeOK
    <3>2. IssuedOK' /\ HeldOnce' /\ Spent' /\ SingleUse'
      BY <1>0, <2>1, <3>1, HoldsOn DEF Holding, stored
    <3>3. JobOK'
      BY <1>0, <2>1, <3>1 DEF Rest, JobOK, JobFits, Holding, stored
    <3>4. QED
      BY <2>1, <3>2, <3>3 DEF Rest, ForThePhone, OneAccountPerPhone, codes, stored
  <2>3. ASSUME NEW a \in AccountsOf(job[c].role, job[c].phone),
               Goto(c, "update", [job[c] EXCEPT !.account = a])
        PROVE  Rest'
    <3>1. pc'[c] = "update" /\ job'[c] = [job[c] EXCEPT !.account = a]
      BY <2>3 DEF Goto, TypeOK
    <3>2. /\ job'[c].phone = job[c].phone /\ job'[c].account = a
          /\ job'[c].challenge = job[c].challenge
          /\ job'[c].role = job[c].role /\ job'[c].city = job[c].city
      BY <1>a, <3>1 DEF Job
    <3>3. a \in Accounts /\ account[a] # None /\ account[a].phone = job[c].phone
      BY DEF AccountsOf
    <3>4. IssuedOK' /\ HeldOnce' /\ Spent' /\ SingleUse'
      BY <1>0, <2>1, <3>1, <3>2, HoldsOn DEF Holding, stored
    <3>5. JobOK'
      BY <1>0, <2>1, <3>1, <3>2, <3>3 DEF Rest, JobOK, JobFits, Holding, stored
    <3>6. QED
      BY <2>1, <3>4, <3>5 DEF Rest, ForThePhone, OneAccountPerPhone, codes, stored
  <2>4. QED
    BY <1>6, <2>2, <2>3 DEF Lookup
<1>7. ASSUME UpdateCity(c) PROVE Rest'
  <2> DEFINE a == job[c].account
  <2>1. /\ Holding(c) /\ a \in Accounts /\ account[a] # None
        /\ account[a].phone = job[c].phone
        /\ UNCHANGED << codes, sessions >>
    BY <1>7 DEF UpdateCity, Holding, Rest, JobOK, JobFits
  <2>2. pc'[c] = "session" /\ job'[c] = job[c]
    BY <1>7 DEF UpdateCity, Goto, TypeOK
  <2>3. \A b \in Accounts :
          /\ account'[b] # None <=> account[b] # None
          /\ account[b] # None => /\ account'[b].phone = account[b].phone
                                  /\ account'[b].role = account[b].role
    <3>1. account[a] \in AccountRow
      BY <2>1 DEF TypeOK
    <3>2. account' = [account EXCEPT ![a] = [account[a] EXCEPT !.city = job[c].city]]
      BY <1>7 DEF UpdateCity
    <3>3. /\ account'[a] = [account[a] EXCEPT !.city = job[c].city]
          /\ \A b \in Accounts \ {a} : account'[b] = account[b]
      BY <2>1, <3>2 DEF TypeOK
    <3>4. account'[a].phone = account[a].phone /\ account'[a].role = account[a].role
      BY <3>1, <3>3 DEF AccountRow
    <3>5. account'[a] # None
      <4>1. account' \in [Accounts -> AccountRow \cup {None}]
        BY <1>0 DEF TypeOK
      <4>2. [account[a] EXCEPT !.city = job[c].city] \in AccountRow
        BY <1>7, <3>1 DEF AccountRow, UpdateCity, Rest, JobOK, JobFits, Holding
      <4>3. \A x \in AccountRow : x.phone \in Phones
        BY DEF AccountRow
      <4>4. QED
        BY <3>3, <4>2, NoneNoRow
    <3>6. QED
      BY <2>1, <3>3, <3>4, <3>5
  <2>4. IssuedOK' /\ HeldOnce' /\ Spent' /\ SingleUse'
    BY <1>0, <2>1, <2>2, HoldsOn DEF Holding
  <2>5. JobOK'
    BY <1>0, <2>1, <2>2, <2>3 DEF Rest, JobOK, JobFits, Holding
  <2>6. ForThePhone'
    BY <2>1, <2>3, SessionTypes DEF Rest, ForThePhone, codes
  <2>7. OneAccountPerPhone'
    BY <2>3 DEF Rest, OneAccountPerPhone
  <2>8. QED
    BY <2>4, <2>5, <2>6, <2>7 DEF Rest
<1>8. ASSUME CreateAccount(c) PROVE Rest'
  <2>1. Holding(c) /\ UNCHANGED << codes, sessions >>
    BY <1>8 DEF CreateAccount, Holding
  <2>2. CASE Finish(c) /\ UNCHANGED account
    BY <1>0, <2>1, <2>2, FinishType, LetsGo DEF stored
  <2>3. ASSUME NEW a \in Accounts, account[a] = None, Insert(c, a),
               AccountsOf(job[c].role, job[c].phone) = {}
        PROVE  Rest'
    <3>1. pc'[c] = "session" /\ job'[c] = [job[c] EXCEPT !.account = a]
      BY <2>3 DEF Insert, Goto, TypeOK
    <3>2. /\ job'[c].phone = job[c].phone /\ job'[c].account = a
          /\ job'[c].challenge = job[c].challenge
          /\ job'[c].role = job[c].role /\ job'[c].city = job[c].city
      BY <1>a, <3>1 DEF Job
    <3>3. /\ account'[a] = [ role |-> job[c].role, phone |-> job[c].phone,
                             city |-> job[c].city ]
          /\ \A b \in Accounts \ {a} : account'[b] = account[b]
      BY <2>3 DEF Insert, TypeOK
    <3>4. /\ account'[a] # None
          /\ account'[a].phone = job[c].phone /\ account'[a].role = job[c].role
      <4>1. account'[a] \in AccountRow
        BY <1>8, <3>3 DEF CreateAccount, Rest, JobOK, JobFits, Holding, AccountRow
      <4>2. QED
        BY <3>3, <4>1, NoneNoRow
    <3>5. IssuedOK' /\ HeldOnce' /\ Spent' /\ SingleUse'
      BY <1>0, <2>1, <3>1, <3>2, HoldsOn DEF Holding
    <3>6. JobOK'
      <4>1. \A b \in Clients \ {c} : pc[b] \in {"update", "session"} =>
              account'[job[b].account] = account[job[b].account]
        BY <2>3, <3>3 DEF Rest, JobOK, JobFits
      <4>2. JobFits(c)'
        BY <2>1, <2>3, <3>1, <3>2, <3>4 DEF Rest, JobOK, JobFits, Holding
      <4>3. ASSUME NEW b \in Clients \ {c} PROVE JobFits(b)'
        BY <1>0, <4>1 DEF Rest, JobOK, JobFits, Holding
      <4>4. QED
        BY <4>2, <4>3 DEF JobOK
    <3>7. ForThePhone'
      BY <2>1, <2>3, <3>3, SessionTypes DEF Rest, ForThePhone, codes
    <3>8. OneAccountPerPhone'
      BY <2>3, <3>3, <3>4 DEF Rest, OneAccountPerPhone, AccountsOf
    <3>9. QED
      BY <3>5, <3>6, <3>7, <3>8 DEF Rest
  <2>4. QED
    BY <1>8, <2>2, <2>3 DEF CreateAccount
<1>9. ASSUME CreateSession(c) PROVE Rest'
  <2> DEFINE new == [account |-> job[c].account, challenge |-> job[c].challenge]
  <2>1. /\ Holding(c) /\ pc'[c] = "idle" /\ UNCHANGED << codes, account >>
    BY <1>9, FinishType DEF CreateSession, Holding
  <2>2. /\ job[c].challenge \in Challenges /\ job[c].account \in Accounts
        /\ account[job[c].account] # None
        /\ account[job[c].account].phone = job[c].phone
        /\ challenge[job[c].challenge] = NoChallenge
        /\ issuedTo[job[c].challenge] = job[c].phone
    BY <1>9, <2>1 DEF CreateSession, Rest, JobOK, JobFits, HeldOnce
  <2>3. new \in SessionRow
    BY <2>2 DEF SessionRow
  <2> DEFINE k == Len(sessions) + 1
  <2>4. /\ DOMAIN sessions' = DOMAIN sessions \cup {k} /\ k \notin DOMAIN sessions
        /\ sessions'[k] = new
        /\ \A i \in DOMAIN sessions : sessions'[i] = sessions[i]
    BY <1>9, <2>3 DEF CreateSession, TypeOK
  <2> HIDE DEF k
  <2>5. new.challenge = job[c].challenge /\ new.account = job[c].account
    OBVIOUS
  <2> HIDE DEF new
  <2>6. \A b \in Clients : Holding(b)' =>
          b # c /\ Holding(b) /\ job'[b] = job[b]
    BY <1>0, <2>1 DEF Holding
  <2>7. JobOK'
    BY <1>0, <2>1 DEF Rest, JobOK, JobFits, Holding
  <2>8. HeldOnce'
    BY <2>1, <2>6 DEF Rest, HeldOnce, codes
  <2>9. Spent'
    <3>1. \A b \in Clients : Holding(b)' => job'[b].challenge # job[c].challenge
      BY <2>1, <2>6 DEF Rest, HeldOnce
    <3>2. QED
      BY <2>1, <2>2, <2>4, <2>5, <2>6, <3>1 DEF Rest, Spent, codes
  <2>10. SingleUse'
    BY <2>1, <2>4, <2>5 DEF Rest, SingleUse, Spent
  <2>11. ForThePhone'
    BY <2>1, <2>2, <2>4, <2>5 DEF Rest, ForThePhone, codes
  <2>12. QED
    BY <2>1, <2>7, <2>8, <2>9, <2>10, <2>11
       DEF Rest, IssuedOK, OneAccountPerPhone, codes
<1>10. QED
  BY <1>1, <1>2, <1>3, <1>4, <1>5, <1>6, <1>7, <1>8, <1>9 DEF Handle

LEMMA EnvironmentKeepsTheInvariant ==
  ASSUME TypeOK, Rest
  PROVE  /\ Tick => (TypeOK /\ Rest)'
         /\ Restart => (TypeOK /\ Rest)'
         /\ \A c \in Clients : RequestFails(c) => (TypeOK /\ Rest)'
<1>1. ASSUME Tick PROVE (TypeOK /\ Rest)'
  <2>1. TypeOK'
    BY <1>1, TickKeepsTypes
  <2>2. UNCHANGED << issuedTo, stored, pc, job >>
    BY <1>1 DEF Tick
  <2>3. \A ch \in Challenges :
          /\ challenge[ch] = NoChallenge => challenge'[ch] = NoChallenge
          /\ challenge'[ch] # NoChallenge => challenge'[ch].phone = challenge[ch].phone
    <3> SUFFICES ASSUME NEW ch \in Challenges
                 PROVE  /\ challenge[ch] = NoChallenge => challenge'[ch] = NoChallenge
                        /\ challenge'[ch].phone = challenge[ch].phone
      OBVIOUS
    <3>1. challenge'[ch] = IF challenge[ch].life = 0 THEN challenge[ch]
                           ELSE [challenge[ch] EXCEPT !.life = @ - 1]
      BY <1>1 DEF Tick
    <3>2. CASE challenge[ch].life = 0
      BY <3>1, <3>2
    <3>3. CASE challenge[ch].life # 0
      <4>1. challenge[ch] \in Challenge /\ challenge[ch] # NoChallenge
        BY <3>3 DEF TypeOK, NoChallenge
      <4>2. QED
        BY <3>1, <3>3, <4>1 DEF Challenge
    <3>4. QED
      BY <3>2, <3>3
  <2>4. JobOK' /\ SingleUse' /\ ForThePhone' /\ OneAccountPerPhone'
    BY <2>2 DEF Rest, JobOK, JobFits, Holding, SingleUse, ForThePhone, OneAccountPerPhone,
                stored
  <2>5. IssuedOK'
    BY <2>2, <2>3 DEF Rest, IssuedOK
  <2>6. HeldOnce'
    BY <2>2, <2>3 DEF Rest, HeldOnce, JobOK, JobFits, Holding
  <2>7. Spent'
    BY <2>2, <2>3, SessionTypes DEF Rest, Spent, Holding, stored
  <2>8. QED
    BY <2>1, <2>4, <2>5, <2>6, <2>7 DEF Rest
<1>2. ASSUME Restart PROVE (TypeOK /\ Rest)'
  <2>1. /\ \A c \in Clients : pc'[c] = "idle"
        /\ \A ch \in Challenges : challenge'[ch] = NoChallenge
        /\ UNCHANGED << issuedTo, stored, counters >>
    BY <1>2 DEF Restart
  <2>2. TypeOK'
    <3>1. NoJob \in Job /\ "idle" \in Step
      BY DEF NoJob, Job, Step
    <3>2. pc' \in [Clients -> Step] /\ job' \in [Clients -> Job]
      BY <1>2, <3>1 DEF Restart
    <3>3. challenge' \in [Challenges -> Challenge \cup {NoChallenge}]
      BY <1>2 DEF Restart
    <3>4. QED
      BY <2>1, <3>2, <3>3 DEF TypeOK, counters, stored
  <2>3. \A c \in Clients : ~Holding(c)'
    BY <2>1 DEF Holding
  <2>4. JobOK'
    BY <2>1, <2>3 DEF JobOK, JobFits, Holding
  <2>5. IssuedOK' /\ HeldOnce'
    BY <2>1, <2>3 DEF IssuedOK, HeldOnce
  <2>6. Spent'
    BY <2>1, <2>3, SessionTypes DEF Spent, stored
  <2>7. QED
    BY <2>1, <2>2, <2>4, <2>5, <2>6
       DEF Rest, SingleUse, ForThePhone, OneAccountPerPhone, stored
<1>3. ASSUME NEW c \in Clients, RequestFails(c) PROVE (TypeOK /\ Rest)'
  <2>1. TypeOK'
    BY <1>3, FinishType DEF RequestFails, TypeOK, counters, codes, stored
  <2>2. Rest'
    BY <1>3, FinishType, LetsGo DEF RequestFails
  <2>3. QED
    BY <2>1, <2>2
<1>4. QED
  BY <1>1, <1>2, <1>3

-----------------------------------------------------------------------------
(***************************************************************************)
(* The rate limiter's window.                                              *)
(***************************************************************************)

LEMMA RequestKeepsPace ==
  ASSUME TypeOK, AllPaced, NEW c \in Clients, NEW p \in Phones, RequestOtp(c, p)
  PROVE  AllPaced'
<1> DEFINE n == IF count[p] > Limit THEN count[p] ELSE count[p] + 1
           new == [age |-> 0, n |-> n]
<1>1. /\ count[p] \in 0 .. Limit + 1 /\ count'[p] = n
      /\ \A q \in Phones \ {p} : count'[q] = count[q] /\ recent'[q] = recent[q]
      /\ recent'[p] \in {recent[p], recent[p] \cup {new}}
      /\ recent'[p] # recent[p] => n = count[p] + 1
      /\ UNCHANGED ttl
  BY Numbers DEF RequestOtp, Refused, TypeOK
<1> SUFFICES ASSUME NEW q \in Phones PROVE \E b \in 1 .. Window : Paced(q, b)'
  BY DEF AllPaced
<1>2. PICK b \in 1 .. Window : Paced(q, b)
  BY DEF AllPaced
<1>3. CASE q # p
  BY <1>1, <1>2, <1>3 DEF Paced
<1>4. CASE q = p
  <2>1. \A x \in recent[p] : x.age \in 0 .. Window - 1 /\ x.n \in 1 .. Limit
    BY DEF TypeOK, Passed
  <2>2. n \in Nat /\ n >= count[p] /\ new.age = 0 /\ new.n = n
    BY <1>1, Numbers
  <2> HIDE DEF new, n
  <2>3. \A x \in recent'[p] : x.age < b => x.n <= count'[p]
    BY <1>1, <1>2, <1>4, <2>1, <2>2, Numbers DEF Paced
  <2>4. \A x \in recent[p] : recent'[p] # recent[p] => ~(x.age < b /\ x.n = new.n)
    BY <1>1, <1>2, <1>4, <2>1, <2>2 DEF Paced
  <2>5. \A x, y \in recent'[p] :
          (x.age < b <=> y.age < b) /\ x.n = y.n => x = y
    <3>1. new.age < b
      BY <2>2
    <3>2. QED
      BY <1>1, <1>2, <1>4, <2>4, <3>1 DEF Paced
  <2>6. QED
    BY <1>1, <1>2, <1>4, <2>3, <2>5 DEF Paced
<1>5. QED
  BY <1>3, <1>4

LEMMA ExpiryKeepsPace ==
  ASSUME TypeOK, AllPaced, JobOK, NEW c \in Clients, SetExpiry(c)
  PROVE  AllPaced'
<1> SUFFICES ASSUME NEW q \in Phones PROVE \E b \in 1 .. Window : Paced(q, b)'
  BY DEF AllPaced
<1>1. PICK b \in 1 .. Window : Paced(q, b)
  BY DEF AllPaced
<1>2. ttl'[q] \in {ttl[q], Window} /\ UNCHANGED << count, recent >>
  BY DEF SetExpiry, TypeOK, JobOK, JobFits
<1>3. QED
  BY <1>1, <1>2, Numbers DEF Paced

\* When the key goes, all of its requests become its predecessor's: b is 1, and
\* no request of the phone has age 0.
LEMMA TickKeepsPace ==
  ASSUME TypeOK, AllPaced, Tick
  PROVE  AllPaced'
<1> USE Numbers
<1> SUFFICES ASSUME NEW q \in Phones PROVE \E b \in 1 .. Window : Paced(q, b)'
  BY DEF AllPaced
<1>1. PICK b \in 1 .. Window : Paced(q, b)
  BY DEF AllPaced
<1> DEFINE Aged(x) == [x EXCEPT !.age = @ + 1]
<1>2. /\ \A x \in recent[q] : x.age \in 0 .. Window - 1 /\ x.n \in 1 .. Limit
      /\ count[q] \in Nat /\ ttl[q] \in (1 .. Window) \cup {None}
  BY DEF TypeOK, Passed
<1>3. \A x \in recent[q] : Aged(x).age = x.age + 1 /\ Aged(x).n = x.n
  BY DEF TypeOK, Passed
<1>4. \A y \in recent'[q] : \E x \in recent[q] : y = Aged(x)
  BY DEF Tick, Older
<1>5. /\ count'[q] = IF ttl[q] = 1 THEN 0 ELSE count[q]
      /\ ttl'[q] = IF ttl[q] \in {1, None} THEN None ELSE ttl[q] - 1
  BY DEF Tick
<1> HIDE DEF Aged
<1>6. CASE ttl[q] = 1
  <2>1. \A x \in recent[q] : x.age < b
    <3>1. ttl[q] # None /\ b + 1 > Window
      BY <1>1, <1>6, NoneNoNumber DEF Paced
    <3>2. QED
      BY <1>2, <3>1
  <2>2. \A y \in recent'[q] : y.age \in Nat /\ ~(y.age < 1)
    BY <1>2, <1>3, <1>4
  <2>3. \A x, y \in recent[q] : Aged(x).n = Aged(y).n => x = y
    BY <1>1, <1>3, <2>1 DEF Paced
  <2>4. \A x, y \in recent'[q] : x.n = y.n => x = y
    BY <1>4, <2>3
  <2>5. Paced(q, 1)'
    BY <1>5, <1>6, <2>2, <2>4 DEF Paced
  <2>6. QED
    BY <2>5
<1>7. CASE ttl[q] # 1 /\ b = Window
  <2>1. \A x \in recent[q] : x.age < b
    BY <1>2, <1>7
  <2>2. \A x \in recent[q] : Aged(x).n <= count'[q]
    BY <1>1, <1>3, <1>5, <1>7, <2>1 DEF Paced
  <2>3. \A x, y \in recent[q] : Aged(x).n = Aged(y).n => x = y
    BY <1>1, <1>3, <2>1 DEF Paced
  <2>4. ttl'[q] # None => b + ttl'[q] > Window
    BY <1>2, <1>5, <1>7
  <2>5. /\ \A y \in recent'[q] : y.n <= count'[q]
        /\ \A x, y \in recent'[q] : x.n = y.n => x = y
    BY <1>4, <2>2, <2>3
  <2>6. QED
    BY <2>4, <2>5 DEF Paced
<1>8. CASE ttl[q] # 1 /\ b < Window
  <2> DEFINE a == b + 1
  <2>1. a \in 1 .. Window
    BY <1>8
  <2>2. \A x \in recent[q] : Aged(x).age < a <=> x.age < b
    BY <1>2, <1>3
  <2>3. \A x \in recent[q] : Aged(x).age < a => Aged(x).n <= count'[q]
    BY <1>1, <1>3, <1>5, <1>8, <2>2 DEF Paced
  <2>4. \A x, y \in recent[q] :
          (Aged(x).age < a <=> Aged(y).age < a) /\ Aged(x).n = Aged(y).n => x = y
    BY <1>1, <1>3, <2>2 DEF Paced
  <2> HIDE DEF a
  <2>5. /\ \A y \in recent'[q] : y.age < a => y.n <= count'[q]
        /\ \A x, y \in recent'[q] :
             (x.age < a <=> y.age < a) /\ x.n = y.n => x = y
    BY <1>4, <2>3, <2>4
  <2>6. ttl'[q] # None => a + ttl'[q] > Window
    BY <1>1, <1>2, <1>5, <1>8 DEF Paced, a
  <2>7. Paced(q, a)'
    BY <2>5, <2>6 DEF Paced
  <2>8. QED
    BY <2>1, <2>7
<1>9. QED
  BY <1>6, <1>7, <1>8

\* Two keys at most, and each has let through at most Limit requests.
LEMMA PaceIsTwiceTheLimit ==
  ASSUME TypeOK, NEW p \in Phones, NEW b \in 1 .. Window, Paced(p, b)
  PROVE  Cardinality(recent[p]) <= 2 * Limit
<1> DEFINE Key(x) == IF x.age < b THEN 0 ELSE 1
           Seats == (1 .. Limit) \X {0, 1}
           f == [x \in recent[p] |-> << x.n, Key(x) >>]
<1>1. \A x \in recent[p] : x.n \in 1 .. Limit
  BY DEF TypeOK, Passed
<1>2. IsFiniteSet(Seats) /\ Cardinality(Seats) = Limit * 2
  <2>1. /\ IsFiniteSet(1 .. Limit) /\ Cardinality(1 .. Limit) = Limit
        /\ IsFiniteSet({0, 1}) /\ Cardinality({0, 1}) = 2
    <3>1. \A i, j \in Int : i <= j =>
            IsFiniteSet(i .. j) /\ Cardinality(i .. j) = j - i + 1
      BY FS_Interval
    <3>2. IsFiniteSet(1 .. Limit) /\ Cardinality(1 .. Limit) = Limit
      BY <3>1, Numbers
    <3>3. IsFiniteSet({0}) /\ Cardinality({0}) = 1
      BY FS_Singleton
    <3>4. IsFiniteSet({0} \cup {1}) /\ Cardinality({0} \cup {1}) = 1 + 1
      BY <3>3, FS_AddElement
    <3>5. {0} \cup {1} = {0, 1}
      OBVIOUS
    <3>6. QED
      BY <3>2, <3>4, <3>5
  <2>2. /\ IsFiniteSet((1 .. Limit) \X {0, 1})
        /\ Cardinality((1 .. Limit) \X {0, 1}) =
             Cardinality(1 .. Limit) * Cardinality({0, 1})
    BY <2>1, FS_Product
  <2>3. QED
    BY <2>1, <2>2
<1>3. f \in Injection(recent[p], Seats)
  <2>1. f \in [recent[p] -> Seats]
    BY <1>1
  <2>2. \A x, y \in recent[p] : f[x] = f[y] => x = y
    BY DEF Paced
  <2>3. QED
    BY <2>1, <2>2 DEF Injection, IsInjective
<1>4. Cardinality(recent[p]) <= Cardinality(Seats)
  BY <1>2, <1>3, FS_Injection DEF ExistsInjection
<1>5. QED
  BY <1>2, <1>4, Numbers

\* Each request that is let through is one more of its phone's recent ones: INCR
\* has not given its count to another of this tick.
LEMMA RequestsAreCountedOnce ==
  ASSUME TypeOK, AllPaced, NEW c \in Clients, NEW p \in Phones,
         RequestOtp(c, p), pc'[c] # "idle"
  PROVE  Cardinality(recent'[p]) = Cardinality(recent[p]) + 1
<1>1. PICK n : n = IF count[p] > Limit THEN count[p] ELSE count[p] + 1
  OBVIOUS
<1>2. PICK new : new = [age |-> 0, n |-> n]
  OBVIOUS
<1>3. ~Refused(n)
  BY <1>1 DEF RequestOtp, Finish, Goto, TypeOK
<1>4. recent'[p] = recent[p] \cup {new} /\ n = count[p] + 1 /\ count[p] \in Nat
  BY <1>1, <1>2, <1>3, Numbers DEF RequestOtp, Refused, TypeOK
<1>5. new \notin recent[p]
  <2>1. PICK b \in 1 .. Window : Paced(p, b)
    BY DEF AllPaced
  <2>2. ASSUME new \in recent[p] PROVE FALSE
    <3>1. new.age < b /\ new.n = n
      BY <1>2, Numbers
    <3>2. n <= count[p]
      BY <2>1, <2>2, <3>1 DEF Paced
    <3>3. QED
      BY <1>4, <3>2
  <2>3. QED
    BY <2>2
<1>6. IsFiniteSet(recent[p])
  <2>1. \A i, j \in Int : IsFiniteSet(i .. j)
    BY FS_Interval
  <2>2. IsFiniteSet(0 .. Window - 1) /\ IsFiniteSet(1 .. Limit)
    BY <2>1, Numbers
  <2>3. IsFiniteSet((0 .. Window - 1) \X (1 .. Limit))
    BY <2>2, FS_Product
  <2>4. PICK f : f = [x \in recent[p] |-> << x.age, x.n >>]
    OBVIOUS
  <2>5. recent[p] \subseteq Passed
    BY DEF TypeOK
  <2>6. f \in Injection(recent[p], (0 .. Window - 1) \X (1 .. Limit))
    <3>1. f \in [recent[p] -> (0 .. Window - 1) \X (1 .. Limit)]
      BY <2>4, <2>5 DEF Passed
    <3>2. \A x, y \in recent[p] : f[x] = f[y] => x = y
      BY <2>4, <2>5 DEF Passed
    <3>3. QED
      BY <3>1, <3>2 DEF Injection, IsInjective
  <2>7. QED
    BY <2>3, <2>6, FS_Injection DEF ExistsInjection
<1>7. QED
  BY <1>4, <1>5, <1>6, FS_AddElement

LEMMA Invariance == Spec => []IInv
<1>1. Init => IInv
  BY InitOK
<1>2. IInv /\ [Next]_vars => IInv'
  <2> SUFFICES ASSUME IInv, [Next]_vars PROVE IInv'
    OBVIOUS
  <2>0. AllPaced
    BY DEF IInv
  <2>1. TypeOK /\ Rest
    BY DEF IInv, Rest
  <2>2. CASE Next
    <3>1. ASSUME NEW c \in Clients, Handle(c) PROVE (TypeOK /\ Rest)'
      BY <2>1, <3>1, HandlersKeepTypes, HandlersKeepTheRest DEF Rest
    <3>2. (TypeOK /\ Rest)'
      BY <2>1, <2>2, <3>1, EnvironmentKeepsTheInvariant DEF Next
    <3>3. ASSUME UNCHANGED counters PROVE AllPaced'
      BY <2>0, <3>3 DEF AllPaced, Paced, counters
    <3>4. AllPaced'
      BY <2>0, <2>1, <2>2, <3>3, RequestKeepsPace, ExpiryKeepsPace, TickKeepsPace
         DEF Next, Handle, RequestFails, Restart, Issue, Verify, Consume, Lookup,
             UpdateCity, CreateAccount, CreateSession, Rest
    <3>5. QED
      BY <3>2, <3>4 DEF IInv, Rest
  <2>3. CASE UNCHANGED vars
    BY <2>3 DEF IInv, TypeOK, AllPaced, Paced, JobOK, JobFits, Holding, IssuedOK, HeldOnce, Spent,
                SingleUse, ForThePhone, OneAccountPerPhone, vars, counters,
                codes, stored
  <2>4. QED
    BY <2>2, <2>3
<1>3. QED
  BY <1>1, <1>2, PTL DEF Spec

-----------------------------------------------------------------------------
(***************************************************************************)
(* Theorems.                                                               *)
(***************************************************************************)

\* Counters, challenges, rows and requests keep their types.
THEOREM LoginTypes == Spec => []TypeOK
<1>1. IInv => TypeOK
  BY DEF IInv
<1>2. QED
  BY <1>1, Invariance, PTL

\* No challenge is exchanged for two sessions (OtpService.consume), however
\* requests overlap and fail, and across restarts.
THEOREM ChallengesAreUsedOnce == Spec => []SingleUse
<1>1. IInv => SingleUse
  BY DEF IInv
<1>2. QED
  BY <1>1, Invariance, PTL

\* A session is for an account of the phone the code was sent to (verifyRider,
\* verifyDriver).
THEOREM SessionsAreForThePhone == Spec => []ForThePhone
<1>1. IInv => ForThePhone
  BY DEF IInv
<1>2. QED
  BY <1>1, Invariance, PTL

\* Overlapping first logins leave one account per role and phone (createRider,
\* createDriver and their unique indexes).
THEOREM AccountsAreUnique == Spec => []OneAccountPerPhone
<1>1. IInv => OneAccountPerPhone
  BY DEF IInv
<1>2. QED
  BY <1>1, Invariance, PTL

\* A fixed window lets through at most twice the limit in any stretch of its
\* length (RateLimiterService.consume), also when EXPIRE is late or never sent.
THEOREM TwiceTheLimitAtMost == Spec => []TwiceTheLimit
<1>1. IInv => TwiceTheLimit
  BY PaceIsTwiceTheLimit DEF IInv, AllPaced, TwiceTheLimit
<1>2. QED
  BY <1>1, Invariance, PTL
=============================================================================
