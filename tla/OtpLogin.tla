------------------------------ MODULE OtpLogin ------------------------------
(***************************************************************************)
(* Login by a code sent to a phone: apps/api/src/auth.  Riders and drivers *)
(* use the same challenges, held in the memory of the process, and the     *)
(* same rate limiter, a counter with a time to live in Redis; accounts and *)
(* sessions are rows in PostgreSQL.                                        *)
(*                                                                         *)
(* A client has one request in flight, cut at its awaits.  Time is kept as *)
(* what is left of each deadline, in ticks.                                *)
(***************************************************************************)
EXTENDS Naturals, Sequences, FiniteSets

CONSTANTS
  Clients,      \* connections
  Roles,        \* rider and driver
  Phones,
  Cities,       \* the active ones
  Challenges,   \* challenge identifiers, random and never issued twice
  Codes,
  Accounts,     \* account identifiers
  None,
  Limit,        \* requests a phone may make in one window
  Window,       \* the window, in ticks
  CodeLife      \* how long a challenge is good, in ticks

ASSUME NumbersAssumption == {Limit, Window, CodeLife} \subseteq Nat \ {0}

AccountRow == [role : Roles, phone : Phones, city : Cities]

ASSUME NoneAssumption ==
  /\ None \notin UNION {Roles, Phones, Cities, Challenges, Codes, Accounts}
  /\ None \notin AccountRow /\ None \notin Nat

VARIABLES
  count,      \* the Redis counter of each phone, 0 if there is no such key
  ttl,        \* what is left of the key's life, None if it has no expiry
  challenge,  \* the map challenges
  account,    \* the Rider and Driver rows
  sessions,   \* the RiderSession and DriverSession rows, oldest first
  pc, job,    \* where each client's request stands and what it holds
  issuedTo,   \* for the properties: the phone each challenge was issued to
  recent      \* for the properties: the requests of each phone let through in
              \* the last Window ticks, with what INCR answered them

counters == << count, ttl, recent >>
codes == << challenge, issuedTo >>
stored == << account, sessions >>
vars == << counters, codes, stored, pc, job >>

\* A request let through, by its age in ticks and the count it was given; INCR
\* gives no count twice within a tick, so that a set loses none of them.
Passed == [age : 0 .. Window - 1, n : 1 .. Limit]

NoChallenge == [phone |-> None, code |-> None, life |-> 0]

Challenge == [phone : Phones, code : Codes, life : 0 .. CodeLife]

\* challenge tells what the session was exchanged for; the code stores none.
SessionRow == [account : Accounts, challenge : Challenges]

Step == { "idle", "expire", "issue", "consume", "lookup", "update", "create",
          "session" }

Job == [ role : Roles \cup {None}, phone : Phones \cup {None},
         city : Cities \cup {None}, challenge : Challenges \cup {None},
         code : Codes \cup {None}, account : Accounts \cup {None} ]

NoJob == [ role |-> None, phone |-> None, city |-> None, challenge |-> None,
           code |-> None, account |-> None ]

TypeOK ==
  /\ count \in [Phones -> 0 .. Limit + 1]
  /\ ttl \in [Phones -> (1 .. Window) \cup {None}]
  /\ challenge \in [Challenges -> Challenge \cup {NoChallenge}]
  /\ account \in [Accounts -> AccountRow \cup {None}]
  /\ sessions \in Seq(SessionRow)
  /\ pc \in [Clients -> Step]
  /\ job \in [Clients -> Job]
  /\ issuedTo \in [Challenges -> Phones \cup {None}]
  /\ recent \in [Phones -> SUBSET Passed]

Init ==
  /\ count = [p \in Phones |-> 0]
  /\ ttl = [p \in Phones |-> None]
  /\ challenge = [ch \in Challenges |-> NoChallenge]
  /\ account = [a \in Accounts |-> None]
  /\ sessions = << >>
  /\ pc = [c \in Clients |-> "idle"]
  /\ job = [c \in Clients |-> NoJob]
  /\ issuedTo = [ch \in Challenges |-> None]
  /\ recent = [p \in Phones |-> {}]

Goto(c, step, local) ==
  /\ pc' = [pc EXCEPT ![c] = step]
  /\ job' = [job EXCEPT ![c] = local]

Finish(c) == Goto(c, "idle", NoJob)

-----------------------------------------------------------------------------
(***************************************************************************)
(* POST /auth/rider/otp and /auth/driver/otp.                              *)
(***************************************************************************)

\* The request whose INCR created the key sets its expiry.
StartsWindow(n) == n = 1

\* Mutant: one request more is let through.
RefusedTooLate(n) == n > Limit + 1

Refused(n) == n > Limit

\* INCR.  Beyond Limit + 1 the exact count makes no difference and is not kept.
RequestOtp(c, p) ==
  LET n == IF count[p] > Limit THEN count[p] ELSE count[p] + 1 IN
  /\ pc[c] = "idle"
  /\ count' = [count EXCEPT ![p] = n]
  /\ IF Refused(n)
     THEN Finish(c) /\ UNCHANGED recent
     ELSE /\ Goto(c, IF StartsWindow(n) THEN "expire" ELSE "issue",
                  [NoJob EXCEPT !.phone = p])
          /\ recent' = [recent EXCEPT ![p] = @ \cup {[age |-> 0, n |-> n]}]
  /\ UNCHANGED << ttl, codes, stored >>

\* EXPIRE.
SetExpiry(c) ==
  /\ pc[c] = "expire"
  /\ ttl' = [ttl EXCEPT ![job[c].phone] = Window]
  /\ Goto(c, "issue", job[c])
  /\ UNCHANGED << count, recent, codes, stored >>

\* The challenge is in the map before the message is sent; whether the message
\* arrives changes nothing here.
Issue(c) ==
  /\ pc[c] = "issue"
  /\ \E ch \in Challenges, code \in Codes :
       /\ issuedTo[ch] = None
       /\ challenge' = [challenge EXCEPT ![ch] =
                          [phone |-> job[c].phone, code |-> code,
                           life |-> CodeLife]]
       /\ issuedTo' = [issuedTo EXCEPT ![ch] = job[c].phone]
  /\ Finish(c)
  /\ UNCHANGED << counters, stored >>

-----------------------------------------------------------------------------
(***************************************************************************)
(* POST /auth/rider/verify and /auth/driver/verify.                        *)
(***************************************************************************)

\* The city turns out to be active.
Verify(c, role, ch, code, city) ==
  /\ pc[c] = "idle"
  /\ Goto(c, "consume", [NoJob EXCEPT !.role = role, !.challenge = ch,
                                      !.code = code, !.city = city])
  /\ UNCHANGED << counters, codes, stored >>

Good(held, code) == held.life > 0 /\ held.code = code

\* Mutant: the challenge stays in the map.
Peek(c) ==
  LET held == challenge[job[c].challenge] IN
  /\ pc[c] = "consume"
  /\ IF Good(held, job[c].code)
     THEN Goto(c, "lookup", [job[c] EXCEPT !.phone = held.phone])
     ELSE Finish(c)
  /\ UNCHANGED << counters, codes, stored >>

\* Mutant: the challenge is found by its code.
ConsumeByCode(c) ==
  LET ch == job[c].challenge IN
  /\ pc[c] = "consume"
  /\ challenge' = [challenge EXCEPT ![ch] = NoChallenge]
  /\ \/ \E other \in Challenges :
          /\ Good(challenge[other], job[c].code)
          /\ Goto(c, "lookup",
                  [job[c] EXCEPT !.phone = challenge[other].phone])
     \/ Finish(c)
  /\ UNCHANGED << counters, issuedTo, stored >>

\* OtpService.consume does not await: lookup, removal and tests are one step,
\* and the challenge is gone whatever the tests say.
Consume(c) ==
  LET ch == job[c].challenge
      held == challenge[ch]
  IN
  /\ pc[c] = "consume"
  /\ challenge' = [challenge EXCEPT ![ch] = NoChallenge]
  /\ IF Good(held, job[c].code)
     THEN Goto(c, "lookup", [job[c] EXCEPT !.phone = held.phone])
     ELSE Finish(c)
  /\ UNCHANGED << counters, issuedTo, stored >>

\* The account of this role and phone, what the unique index on phone sees.
AccountsOf(role, p) ==
  { a \in Accounts : /\ account[a] # None
                     /\ account[a].role = role /\ account[a].phone = p }

\* Mutant: the account found is not kept.
LookupOnly(c) ==
  /\ pc[c] = "lookup"
  /\ Goto(c, IF AccountsOf(job[c].role, job[c].phone) = {} THEN "create"
             ELSE "update", job[c])
  /\ UNCHANGED << counters, codes, stored >>

\* findRiderByPhone.
Lookup(c) ==
  LET found == AccountsOf(job[c].role, job[c].phone) IN
  /\ pc[c] = "lookup"
  /\ \/ found = {} /\ Goto(c, "create", job[c])
     \/ \E a \in found : Goto(c, "update", [job[c] EXCEPT !.account = a])
  /\ UNCHANGED << counters, codes, stored >>

\* updateRiderCity.
UpdateCity(c) ==
  /\ pc[c] = "update"
  /\ account' = [account EXCEPT ![job[c].account].city = job[c].city]
  /\ Goto(c, "session", job[c])
  /\ UNCHANGED << counters, codes, sessions >>

Insert(c, a) ==
  /\ account' = [account EXCEPT ![a] =
                   [ role |-> job[c].role, phone |-> job[c].phone,
                     city |-> job[c].city ]]
  /\ Goto(c, "session", [job[c] EXCEPT !.account = a])

\* Mutant: no unique index on phone.
CreateAccountUnindexed(c) ==
  /\ pc[c] = "create"
  /\ \E a \in Accounts : account[a] = None /\ Insert(c, a)
  /\ UNCHANGED << counters, codes, sessions >>

\* createRider; the index refuses a second account and the request fails.
CreateAccount(c) ==
  /\ pc[c] = "create"
  /\ IF AccountsOf(job[c].role, job[c].phone) # {}
     THEN Finish(c) /\ UNCHANGED account
     ELSE \E a \in Accounts : account[a] = None /\ Insert(c, a)
  /\ UNCHANGED << counters, codes, sessions >>

\* The token is new and random; the response carries it.
CreateSession(c) ==
  /\ pc[c] = "session"
  /\ sessions' = Append(sessions, [account |-> job[c].account,
                                   challenge |-> job[c].challenge])
  /\ Finish(c)
  /\ UNCHANGED << counters, codes, account >>

-----------------------------------------------------------------------------
(***************************************************************************)
(* Time and failure.                                                       *)
(***************************************************************************)

Older(requests) ==
  { [r EXCEPT !.age = @ + 1] : r \in { x \in requests : x.age + 1 < Window } }

\* Redis drops a key whose life is over.
Tick ==
  /\ count' = [p \in Phones |-> IF ttl[p] = 1 THEN 0 ELSE count[p]]
  /\ ttl' = [p \in Phones |-> IF ttl[p] \in {1, None} THEN None
                              ELSE ttl[p] - 1]
  /\ recent' = [p \in Phones |-> Older(recent[p])]
  /\ challenge' = [ch \in Challenges |->
       IF challenge[ch].life = 0 THEN challenge[ch]
       ELSE [challenge[ch] EXCEPT !.life = @ - 1]]
  /\ UNCHANGED << issuedTo, stored, pc, job >>

\* A command fails or the client's request is abandoned by the server.
RequestFails(c) ==
  /\ pc[c] # "idle"
  /\ Finish(c)
  /\ UNCHANGED << counters, codes, stored >>

\* The map is in memory only.
Restart ==
  /\ challenge' = [ch \in Challenges |-> NoChallenge]
  /\ pc' = [c \in Clients |-> "idle"]
  /\ job' = [c \in Clients |-> NoJob]
  /\ UNCHANGED << counters, issuedTo, stored >>

Handle(c) ==
  \/ \E p \in Phones : RequestOtp(c, p)
  \/ SetExpiry(c) \/ Issue(c)
  \/ \E role \in Roles, ch \in Challenges, code \in Codes, city \in Cities :
       Verify(c, role, ch, code, city)
  \/ Consume(c) \/ Lookup(c) \/ UpdateCity(c) \/ CreateAccount(c)
  \/ CreateSession(c)

Next == \/ Tick \/ Restart
        \/ \E c \in Clients : Handle(c) \/ RequestFails(c)

Spec == Init /\ [][Next]_vars

-----------------------------------------------------------------------------
(***************************************************************************)
(* Properties.                                                             *)
(***************************************************************************)

\* "still consumes a valid challenge exactly once" (otp.service.spec.ts): no
\* challenge is exchanged for two sessions, however many requests present it
\* at the same time, at either endpoint, and whatever fails in between.
SingleUse ==
  \A i, j \in DOMAIN sessions :
    sessions[i].challenge = sessions[j].challenge => i = j

\* A session is for an account of the phone the code was sent to.
ForThePhone ==
  \A i \in DOMAIN sessions :
    /\ account[sessions[i].account] # None
    /\ account[sessions[i].account].phone = issuedTo[sessions[i].challenge]

\* First logins of one phone that overlap leave one account of each role.
OneAccountPerPhone ==
  \A a, b \in Accounts :
    /\ account[a] # None /\ account[b] # None
    /\ account[a].role = account[b].role
    /\ account[a].phone = account[b].phone
    => a = b

\* A fixed window lets through at most twice the limit in any stretch of its
\* length, also when EXPIRE is late or never sent.
TwiceTheLimit == \A p \in Phones : Cardinality(recent[p]) <= 2 * Limit

=============================================================================
