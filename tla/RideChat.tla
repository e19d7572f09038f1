------------------------------ MODULE RideChat ------------------------------
(***************************************************************************)
(* The chat of a rider's first ride: the sheets of the rider and of the    *)
(* driver, the two chat services and their repository, and the gateways    *)
(* that announce a message on the sockets of both or else as a push.       *)
(* A message is known by its sentAt.                                       *)
(***************************************************************************)
EXTENDS RideTraffic

CONSTANTS
  Rider

VARIABLES
  stored,    \* the ChatMessage rows
  clock,     \* the last sentAt
  talks,     \* the calls of the sheets; None when nothing is left of one
  sheets,    \* the open RideChatSheet of each user
  sockets,   \* how the server sees the socket of each user
  notices    \* what the gateways have announced, or are about to

chat == << stored, clock, talks, sheets, sockets, notices >>

Users == {Rider} \cup Drivers
Calls == 1 .. Len(talks)

Message == [sentAt : Nat, sender : Users]
Talk == [ by : Users, kind : {"list", "send", "lost"},   \* lost: nobody waits
          at : {"start", "writing", "ok", "failed"},
          sentAt : Nat, driver : Drivers \cup {None}, got : SUBSET (1 .. clock) ]
Sheet == [ messages : Seq(1 .. clock), loading : BOOLEAN, sending : BOOLEAN,
           sent : SUBSET (1 .. clock),    \* the last three are kept for checking:
           rushed : BOOLEAN,              \* the send was asked while it was loading
           early : SUBSET (1 .. clock) ]  \* was sent so
Notice == [ to : Users, sentAt : Nat, at : {"fetch", "push", "over"},
            reached : SUBSET {"socket", "push"},
            excuse : SUBSET {"dead", "joined", "no push"} ]

ASSUME ChatAssumption ==
  /\ None # Rider
  /\ None \notin [ messages : Seq(Nat), loading : BOOLEAN, sending : BOOLEAN,
                   sent : SUBSET Nat, rushed : BOOLEAN, early : SUBSET Nat ]

chatEligibleStates ==
  driverActiveRideStates \ {"offered_to_driver"}

\* findRideForRider and findRideForDriver, and the check of the state.
CanChat(u) ==
  /\ rides # << >> /\ rides[1].state \in chatEligibleStates
  /\ u = Rider \/ u = rides[1].driver

-----------------------------------------------------------------------------
(***************************************************************************)
(* The services.                                                           *)
(***************************************************************************)

Over(talk) == talk.at \in {"ok", "failed"}

\* A call that is over and lost leaves nothing.
Kept(talk) == IF talk.kind = "lost" /\ Over(talk) THEN None ELSE talk

\* Mutant: the driver's service forgets whose ride it is.
CheckState(k) ==
  /\ talks[k].at = "start" /\ talks[k].kind # "list"
  /\ IF rides # << >> /\ rides[1].state \in chatEligibleStates
     THEN /\ clock' = clock + 1
          /\ talks' = [talks EXCEPT ![k].at = "writing", ![k].sentAt = clock + 1,
                                    ![k].driver = rides[1].driver]
     ELSE talks' = [talks EXCEPT ![k] = Kept([@ EXCEPT !.at = "failed"])] /\ UNCHANGED clock
  /\ UNCHANGED << stored, sheets, sockets, notices >>

\* assertRiderCanChat and assertDriverCanChat; a message takes its sentAt then.
Check(k) ==
  /\ talks[k].at = "start" /\ talks[k].kind # "list"
  /\ IF CanChat(talks[k].by)
     THEN /\ clock' = clock + 1
          /\ talks' = [talks EXCEPT ![k].at = "writing", ![k].sentAt = clock + 1,
                                    ![k].driver = rides[1].driver]
     ELSE talks' = [talks EXCEPT ![k] = Kept([@ EXCEPT !.at = "failed"])] /\ UNCHANGED clock
  /\ UNCHANGED << stored, sheets, sockets, notices >>

\* What the two gateways start with: each emits to a room at once, the drivers'
\* if the ride has a driver.
Announced(k) ==
  {[ to |-> u, sentAt |-> talks[k].sentAt, at |-> "fetch",
     reached |-> IF sockets[u] = "on" THEN {"socket"} ELSE {},
     excuse |-> IF sockets[u] = "dead" THEN {"dead"} ELSE {} ] :
    u \in {Rider, talks[k].driver} \ {None}}

\* createRiderMessage and createDriverMessage.
Created(talk) == [sentAt |-> talk.sentAt, sender |-> talk.by]

\* The rest of sendRiderMessage and of sendDriverMessage: the row and the event.
Write(k) ==
  /\ talks[k].at = "writing"
  /\ \/ /\ stored' = stored \cup {Created(talks[k])}
        /\ talks' = [talks EXCEPT ![k] =
             Kept([@ EXCEPT !.at = "ok", !.got = {talks[k].sentAt}])]
        /\ notices' = notices \cup Announced(k)
     \/ /\ talks' = [talks EXCEPT ![k] = Kept([@ EXCEPT !.at = "failed"])]
        /\ UNCHANGED << stored, notices >>
  /\ UNCHANGED << clock, sheets, sockets >>

\* listRiderMessages and listDriverMessages: the check and the list, between
\* which a ride that ends makes no difference.
List(k) ==
  /\ talks[k].at = "start" /\ talks[k].kind = "list"
  /\ talks' = IF CanChat(talks[k].by)
              THEN [talks EXCEPT ![k].at = "ok",
                                 ![k].got = {m.sentAt : m \in stored}]
              ELSE [talks EXCEPT ![k].at = "failed"]
  /\ UNCHANGED << stored, clock, sheets, sockets, notices >>

-----------------------------------------------------------------------------
(***************************************************************************)
(* The gateways.                                                           *)
(***************************************************************************)

\* Mutant: fetchSockets of the namespace, not of the room.
FetchAnySockets(n) ==
  /\ n \in notices /\ n.at = "fetch"
  /\ notices' = (notices \ {n}) \cup
       {[n EXCEPT !.at = IF \E u \in Users : sockets[u] # "off"
                         THEN "over" ELSE "push"]}
  /\ UNCHANGED << stored, clock, talks, sheets, sockets >>

\* emitOrPush after its emit.
FetchSockets(n) ==
  /\ n \in notices /\ n.at = "fetch"
  /\ notices' = (notices \ {n}) \cup
       {[n EXCEPT !.at = IF sockets[n.to] # "off" THEN "over" ELSE "push"]}
  /\ UNCHANGED << stored, clock, talks, sheets, sockets >>

\* findDeviceToken and the provider, which fails without a word.
Push(n) ==
  /\ n \in notices /\ n.at = "push"
  /\ notices' \in {(notices \ {n}) \cup {[n EXCEPT !.at = "over", !.reached = @ \cup {"push"}]},
                   (notices \ {n}) \cup {[n EXCEPT !.at = "over", !.excuse = @ \cup {"no push"}]}}
  /\ UNCHANGED << stored, clock, talks, sheets, sockets >>

\* handleConnection joins the room; a connection breaks, and is found out later.
Link(u) ==
  /\ Open("chat")
  /\ \/ sockets[u] = "off" /\ sockets' = [sockets EXCEPT ![u] = "on"]
     \/ sockets[u] = "on" /\ sockets' \in {[sockets EXCEPT ![u] = to] : to \in {"off", "dead"}}
     \/ sockets[u] = "dead" /\ sockets' = [sockets EXCEPT ![u] = "off"]
  /\ notices' = {IF n.to = u /\ n.at = "fetch" /\ sockets'[u] = "on"
                 THEN [n EXCEPT !.excuse = @ \cup {"joined"}] ELSE n : n \in notices}
  /\ UNCHANGED << stored, clock, talks, sheets >>

-----------------------------------------------------------------------------
(***************************************************************************)
(* RideChatSheet.                                                          *)
(***************************************************************************)

Ask(u, kind) ==
  talks' = Append(talks, [ by |-> u, kind |-> kind, at |-> "start", sentAt |-> 0,
                           driver |-> None, got |-> {} ])

\* The apps open the sheet from the acceptance on as far as they know; the routes
\* take any ride's id.
OpenChat(u) ==
  /\ Open("chat") /\ sheets[u] = None /\ rides # << >>
  /\ sheets' = [sheets EXCEPT ![u] =
       [ messages |-> << >>, loading |-> TRUE, sending |-> FALSE,
         sent |-> {}, rushed |-> FALSE, early |-> {} ]]
  /\ Ask(u, "list") /\ UNCHANGED << stored, clock, sockets, notices >>

\* _sendMessage; the field can be used while the messages load.
Send(u) ==
  /\ sheets[u] # None /\ ~sheets[u].sending
  /\ sheets' = [sheets EXCEPT ![u].sending = TRUE,
                              ![u].rushed = sheets[u].loading]
  /\ Ask(u, "send") /\ UNCHANGED << stored, clock, sockets, notices >>

\* The call of u is no longer waited for.
Forget(talk) ==
  IF talk.kind = "list" \/ Over(talk) THEN None ELSE [talk EXCEPT !.kind = "lost"]

CloseChat(u) ==
  /\ sheets[u] # None /\ sheets' = [sheets EXCEPT ![u] = None]
  /\ talks' = [k \in Calls |->
       IF talks[k] # None /\ talks[k].by = u /\ talks[k].kind # "lost"
       THEN Forget(talks[k]) ELSE talks[k]]
  /\ UNCHANGED << stored, clock, sockets, notices >>

\* orderBy sentAt: the i-th message is the one that i are not later than.
InOrder(times) ==
  [i \in 1 .. Cardinality(times) |->
     CHOOSE t \in times : Cardinality({s \in times : s <= t}) = i]

\* Mutant: a message goes before the others.
ShowFirst(sheet, talk, ok) ==
  IF talk.kind = "list"
  THEN [sheet EXCEPT !.loading = FALSE,
                     !.messages = IF ok THEN InOrder(talk.got) ELSE @]
  ELSE [sheet EXCEPT !.sending = FALSE, !.sent = IF ok THEN @ \cup talk.got ELSE @,
                     !.early = IF ok /\ sheet.rushed THEN @ \cup talk.got ELSE @,
                     !.messages = IF ok THEN InOrder(talk.got) \o @ ELSE @]

\* The rest of _loadMessages and of _sendMessage.
Show(sheet, talk, ok) ==
  IF talk.kind = "list"
  THEN [sheet EXCEPT !.loading = FALSE,
                     !.messages = IF ok THEN InOrder(talk.got) ELSE @]
  ELSE [sheet EXCEPT !.sending = FALSE, !.sent = IF ok THEN @ \cup talk.got ELSE @,
                     !.early = IF ok /\ sheet.rushed THEN @ \cup talk.got ELSE @,
                     !.messages = IF ok THEN @ \o InOrder(talk.got) ELSE @]

\* An answer, or a connection that breaks while the server goes on.
HearTalk(k) ==
  LET talk == talks[k]
  IN /\ talk.kind # "lost"
     /\ \E ok \in {talk.at = "ok", FALSE} :
          sheets' = [sheets EXCEPT ![talk.by] = Show(@, talk, ok)]
     /\ talks' = [talks EXCEPT ![k] = Forget(talk)]
     /\ UNCHANGED << stored, clock, sockets, notices >>

-----------------------------------------------------------------------------
ChatInit ==
  /\ stored = {} /\ clock = 0 /\ talks = << >> /\ notices = {}
  /\ sheets = [u \in Users |-> None] 
  /\ \E at \in {"on", "off"} : (Open("chat") \/ at = "off") /\ sockets = [u \in Users |-> at]

Serve(k) == Check(k) \/ Write(k) \/ List(k) \/ HearTalk(k)

ChatNext ==
  \/ /\ \E u \in {Rider} \cup quota.drivers : OpenChat(u) \/ Send(u)
     /\ Spend("calls") /\ UNCHANGED << rides, day >>
  \/ /\ \E u \in {Rider} \cup quota.drivers : Link(u)
     /\ Spend("faults") /\ UNCHANGED << rides, day >>
  \/ /\ \/ \E k \in Calls : talks[k] # None /\ Serve(k)
        \/ \E n \in notices : FetchSockets(n) \/ Push(n)
        \/ \E u \in Users : CloseChat(u)
     /\ UNCHANGED traffic

ChatTypeOK ==
  /\ stored \subseteq Message /\ clock \in Nat
  /\ talks \in Seq(Talk \cup {None})
  /\ sheets \in [Users -> Sheet \cup {None}]
  /\ sockets \in [Users -> {"on", "off", "dead"}]
  /\ notices \subseteq Notice

\* The driver's messages are those of the driver the ride is with, whoever it was
\* offered to before, whenever the check was made and whatever is written late.
MessagesAreOfTheParties ==
  \A m \in stored : m.sender \in {Rider, rides[1].driver}

\* A message that was written is heard of by both, on a socket or as a push, but
\* for a socket that is dead unnoticed, a user who joined between the emit and
\* the count, and a push that fails.
NoticeMissedForAReason ==
  \A n \in notices : n.at = "over" => n.reached # {} \/ n.excuse # {}

\* Whatever lists and sends overlap, a sheet shows no message twice, in the order
\* they were sent, and the user's own are all there, but for just those that were
\* sent before the list had arrived: the list may wipe them out or repeat them.
SheetKeepsItsMessages ==
  \A u \in Users : sheets[u] # None =>
    LET messages == sheets[u].messages
        early == sheets[u].early
    IN /\ \A i, j \in DOMAIN messages :
            i < j /\ {messages[i], messages[j]} \cap early = {}
              => messages[i] < messages[j]
       /\ sheets[u].sent \subseteq early \cup {messages[i] : i \in DOMAIN messages}
=============================================================================
