---------------------------- MODULE PlaceSearch -----------------------------
(***************************************************************************)
(* RiderPlaceSearchSheet, with which a pickup or a destination is chosen,  *)
(* and GET /places/search behind it.  Typing starts a timer of 350 ms; the *)
(* search it starts answers whenever it likes, also after a later one.     *)
(* The sheet's requests read one row and change nothing, so the service    *)
(* and the geocoding provider are one step; the provider may fail.         *)
(***************************************************************************)
EXTENDS Naturals

CONSTANTS
  Places,     \* what can be found
  Queries,    \* texts of two characters or more
  Matches,    \* the provider's answer to each, in the city's bounds
  Saved,      \* the places the app offers before anything is typed
  MaxTyping,  \* how often one sheet is typed into or retried
  None

ASSUME
  SearchAssumption ==
    /\ Matches \in [Queries -> SUBSET Places] /\ Saved \subseteq Places
    /\ MaxTyping \in Nat

VARIABLES
  search,   \* the open sheet
  lookups   \* its requests

Short == "short"      \* a text of one character
Empty == "empty"      \* nothing typed
Mode == {"pickup", "destination"}

Sheet ==
  [ mode : Mode, query : Queries \cup {Short, Empty}, version : 0 .. MaxTyping,
    timer : Queries \cup {None}, searching : BOOLEAN, error : BOOLEAN,
    results : SUBSET Places,
    of : Queries \cup {None} ]      \* kept for checking: whose results

ASSUME
  SheetAssumption ==
    /\ None \notin Sheet \cup Queries
    /\ {Short, Empty} \cap Queries = {}

SearchTypeOK ==
  /\ search \in Sheet \cup {None}
  /\ lookups \subseteq [version : 1 .. MaxTyping, query : Queries]
  /\ search = None => lookups = {}

SearchInit == search = None /\ lookups = {}

OpenSearch(mode) ==
  /\ search = None
  /\ search' = [ mode |-> mode, query |-> Empty, version |-> 0, timer |-> None,
                 searching |-> FALSE, error |-> FALSE, results |-> {},
                 of |-> None ]
  /\ UNCHANGED lookups

\* _onQueryChanged: the timer of the text before is cancelled.
Type(q) ==
  /\ search # None /\ search.version < MaxTyping
  /\ search' = [search EXCEPT !.query = q, !.version = @ + 1, !.of = None,
                              !.timer = IF q \in Queries THEN q ELSE None,
                              !.searching = q \in Queries,
                              !.error = FALSE, !.results = {}]
  /\ UNCHANGED lookups

\* _runSearch with the version of the text, when the timer fires.
TimerFires ==
  /\ search # None /\ search.timer # None
  /\ lookups' = lookups \cup
                  {[version |-> search.version, query |-> search.timer]}
  /\ search' = [search EXCEPT !.timer = None, !.searching = TRUE,
                              !.error = FALSE]

\* The button under an error runs the search with a version of its own.
RetrySearch ==
  /\ search # None /\ search.error /\ ~search.searching
  /\ search.query \in Queries /\ search.version < MaxTyping
  /\ lookups' = lookups \cup
                  {[version |-> search.version + 1, query |-> search.query]}
  /\ search' = [search EXCEPT !.version = @ + 1, !.searching = TRUE,
                              !.error = FALSE]

\* The geocoding provider: places, or an exception when it is late, refuses or
\* returns something that is no list of places.
ProviderFinds(q) == {Matches[q], None}

\* RiderPlaceSearchService.search.  What the app sends passes validateQuery; the
\* city may be inactive; every failure is an error to the app: None.
Found(q) == ProviderFinds(q) \cup {None}

\* Mutant: no version check.
AnySearchAnswered(l, answer) ==
  /\ l \in lookups /\ answer \in Found(l.query)
  /\ lookups' = lookups \ {l}
  /\ search' =
       IF answer = None
       THEN [search EXCEPT !.error = TRUE, !.searching = FALSE]
       ELSE [search EXCEPT !.results = answer, !.of = l.query,
                           !.searching = FALSE]

\* The rest of _runSearch: the answer to an older version is dropped.
SearchAnswered(l, answer) ==
  /\ l \in lookups /\ answer \in Found(l.query)
  /\ lookups' = lookups \ {l}
  /\ search' =
       IF l.version # search.version THEN search
       ELSE IF answer = None
            THEN [search EXCEPT !.error = TRUE, !.searching = FALSE]
            ELSE [search EXCEPT !.results = answer, !.of = l.query,
                                !.searching = FALSE]

\* A tap on a row of _buildResults.
Offered ==
  IF search.query = Empty THEN Saved
  ELSE IF search.query = Short \/ search.searching \/ search.error THEN {}
  ELSE search.results

\* Mutant: answers reach a sheet that is gone.
CloseSearchOnly == search # None /\ search' = None /\ UNCHANGED lookups

\* The sheet goes away, with a place or without; its answers find it unmounted.
CloseSearch == search # None /\ search' = None /\ lookups' = {}

-----------------------------------------------------------------------------
\* The list on the sheet, also the empty one that reads "No places found", is
\* the answer to the text in its field, however many searches overlap.
SearchAnswersTheField ==
  search # None => \/ search.query \notin Queries
                   \/ search.searching \/ search.error
                   \/ search.of = search.query

\* The progress circle ends: the search of the last version always answers.
SearchSettles ==
  (search # None /\ search.searching)
    ~> (search = None \/ ~search.searching)

SearchFairness ==
  /\ WF_<<search, lookups>>(TimerFires)
  /\ WF_<<search, lookups>>(\E l \in lookups : \E answer \in Found(l.query) :
                               SearchAnswered(l, answer))
=============================================================================
