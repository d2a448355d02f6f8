------------------------- MODULE MonitoredRequests -------------------------
(***************************************************************************)
(* How the recovery cycle shares its searches among the requests that miss *)
(* something (ensureMonitoredRequests of requests/sync/service.ts), and a  *)
(* show its passes among its seasons (grabMissingTvForRequest of           *)
(* requests/sync/mediaRequestService.ts with its two pipeline machines).   *)
(*                                                                         *)
(* A cycle visits a batch of the shows, from a position it remembers in an *)
(* order that its visits change, then the movies.  Each gets a search of   *)
(* what is cached; the first that finds nothing there gets the active      *)
(* search of the cycle, and no search at all before its cooldown is over.  *)
(* A pass over a show is a pass over one of its seasons.                   *)
(*                                                                         *)
(* Time is counted in cycles.  A season that could not be grabbed rests    *)
(* five minutes, which is less than a cycle takes to come again.           *)
(***************************************************************************)
EXTENDS Integers, FiniteSets

CONSTANTS Show, Movie,
          Seasons,      \* seasons of a show; a movie counts as one season
          Batch,        \* MONITORED_TV_BATCH_SIZE
          ActiveLimit,  \* ACTIVE_WANTED_SEARCHES_PER_CYCLE
          Cooldown,     \* cycles in REQUEST_WANTED_SEARCH_COOLDOWN_SECONDS
          Allow         \* what indexers, users and the environment do: a subset of Moves

Moves == {"find", "fail", "timeout", "full", "outside", "settle", "air"}

Request == Show \union Movie
Season == 1..Seasons
SeasonsOf(r) == IF r \in Show THEN Season ELSE {1}
Kind(r) == IF r \in Show THEN Show ELSE Movie
None == "none"

\* there: imported.  A download under way hides its season from the search;
\* that of a pack leaves it missing nevertheless.
SeasonState == {"missing", "pack", "episodes", "there"}

VARIABLES
  state,    \* of the seasons of every request
  rank,     \* the requests of a kind by updatedAt, 0 is the oldest
  tried,    \* movies whose status is no_release_found: they sort after the approved ones
  cursor,   \* per show: nextSeason, 0 is null
  wanted,   \* cycles a request must wait until it is searched again
  resting,  \* seasons (and movies) in the cooldown of a failed grab
  skip,     \* where the next batch of shows begins
  cycle     \* place, requests to visit, their order when they were read, request, active searches

vars == <<state, rank, tried, cursor, wanted, resting, skip, cycle>>

Idle == [pc |-> "idle", todo |-> {}, place |-> [r \in Request |-> 0], r |-> None, used |-> 0]

Orders == {f \in [Request -> 0..Cardinality(Request)] :
             \A r \in Request : /\ f[r] < Cardinality(Kind(r))
                                /\ \A q \in Kind(r) \ {r} : f[q] # f[r]}

Init ==
  /\ state = [r \in Request |-> [s \in SeasonsOf(r) |-> "missing"]]
  /\ rank \in Orders
  /\ tried = {}
  /\ cursor = [r \in Show |-> 0]
  /\ wanted = [r \in Request |-> 0]
  /\ resting = {}
  /\ skip = 0
  /\ cycle = Idle

-----------------------------------------------------------------------------
\* Rows and seasons.

\* updatedAt becomes the present: the row is now the last of its kind.
Touched(r) ==
  [q \in Request |-> CASE q = r -> Cardinality(Kind(r)) - 1
                       [] q # r /\ q \in Kind(r) /\ rank[q] > rank[r] -> rank[q] - 1
                       [] OTHER -> rank[q]]

Needing(r) == {s \in SeasonsOf(r) : state[r][s] = "missing"}

\* hasMissingEpisodes: an episode on its way counts as there, a pack does not.
Missing(r) == \E s \in SeasonsOf(r) : state[r][s] = "missing" \/ (r \in Show /\ state[r][s] = "pack")

Least(S) == CHOOSE s \in S : \A t \in S : s <= t
FirstFrom(c, S) == IF \E s \in S : s >= c THEN Least({s \in S : s >= c}) ELSE Least(S)

\* rotateMonitoredSeasonSlice, for one season per pass: the season, and where
\* the next pass begins.
Slice(r) == FirstFrom(cursor[r], Needing(r))
NextSeason(r) ==
  LET s == Slice(r) IN IF Needing(r) = {s} THEN s ELSE FirstFrom(s + 1, Needing(r) \ {s})

\* The season a grab for the request would look for.
Target(r) == IF r \in Show THEN Slice(r) ELSE 1

\* What a search comes to: nothing, a download, or a release whose grab fails.
Outcome == {"nothing"} \union (IF "find" \in Allow THEN {"pack", "episodes"} ELSE {})
           \union (IF "fail" \in Allow THEN {"failed"} ELSE {})
Grabs(o) == o \in {"pack", "episodes"}

Results(r) ==
  IF Needing(r) = {} \/ <<r, Target(r)>> \in resting THEN {"nothing"}
  ELSE IF r \in Movie THEN Outcome \ {"episodes"} ELSE Outcome

\* The pass over a show, with the season it takes: what it writes besides the
\* request.  With every season on its way it clears the cursor and is over;
\* finalize clears it when no episode is missing any more.  A season (movie)
\* rests after a search at the indexers that found nothing, and mostly after
\* a failed grab.
Pass(r, o, cachedOnly) ==
  LET s == Target(r)
      after == IF Grabs(o) THEN [state[r] EXCEPT ![s] = o] ELSE state[r]
      rests == resting \union {<<r, s>>}
  IN /\ state' = [state EXCEPT ![r] = after]
     /\ cursor' = IF r \in Movie THEN cursor
                  ELSE [cursor EXCEPT ![r] =
                          IF Needing(r) = {} \/ \A t \in Season : after[t] \in {"episodes", "there"}
                          THEN 0 ELSE NextSeason(r)]
     /\ resting' \in CASE o = "failed" -> {resting, rests}
                       [] o = "nothing" /\ ~cachedOnly /\ Needing(r) # {} -> {rests}
                       [] OTHER -> {resting}

-----------------------------------------------------------------------------
\* The cycle.

\* fetchMonitoredTvRequestsBatch, and the movies by status and updatedAt.
Start ==
  LET from == IF skip >= Cardinality(Show) THEN 0 ELSE skip
      batch == {r \in Show : from <= rank[r] /\ rank[r] < from + Batch}
  IN
  /\ cycle.pc = "idle"
  /\ skip' = IF from + Batch >= Cardinality(Show) THEN 0 ELSE from + Batch
  /\ cycle' = [pc |-> "next", todo |-> batch \union Movie, r |-> None, used |-> 0,
               place |-> [r \in Request |-> IF r \in Show THEN rank[r]
                                            ELSE Cardinality(Show) + rank[r]
                                                 + IF r \in tried THEN Cardinality(Movie) ELSE 0]]
  /\ wanted' = [r \in Request |-> IF wanted[r] > 0 THEN wanted[r] - 1 ELSE 0]
  /\ \E still \in SUBSET {x \in resting : x[1] \in Movie} : resting' = still   \* 30 minutes for these
  /\ UNCHANGED <<state, rank, tried, cursor>>

Turn(r) == /\ cycle.pc = "next" /\ r \in cycle.todo
           /\ \A q \in cycle.todo : cycle.place[r] <= cycle.place[q]

\* A visit corrects a status that is not what downloads and imports say; as long
\* as nothing is found it is right.
Visited(r) == IF "find" \in Allow THEN {rank, Touched(r)} ELSE {rank}

\* Nothing is missing, or the request was searched not long ago.
PassOver(r) ==
  /\ Turn(r)
  /\ ~Missing(r) \/ wanted[r] > 0
  /\ cycle' = [cycle EXCEPT !.todo = @ \ {r}]
  /\ rank' \in Visited(r)
  /\ UNCHANGED <<state, tried, cursor, wanted, resting, skip>>

\* After a search: the next request, or the end when the queue is full or the
\* time is up.
Onward(r, used) ==
  \/ cycle' = [cycle EXCEPT !.pc = "next", !.todo = @ \ {r}, !.r = None, !.used = used]
  \/ "full" \in Allow /\ cycle' = Idle

\* A search that outlives its timeout is done all the same, but its result is
\* not waited for.
Late == IF "timeout" \in Allow THEN BOOLEAN ELSE {FALSE}

\* The search of what is cached.  A show's row is written whatever comes of it.
CachedSearch(r) ==
  /\ Turn(r) /\ Missing(r) /\ wanted[r] = 0
  /\ \E o \in Results(r), late \in Late :
       /\ Pass(r, o, TRUE)
       /\ rank' \in IF r \in Show \/ Grabs(o) THEN {Touched(r)} ELSE Visited(r)
       /\ tried' = IF Grabs(o) THEN tried \ {r} ELSE tried
       /\ IF (Grabs(o) /\ ~late) \/ cycle.used >= ActiveLimit THEN Onward(r, cycle.used)
          ELSE cycle' = [cycle EXCEPT !.pc = "active", !.r = r]
  /\ UNCHANGED <<wanted, skip>>

\* What an active search writes as the status of a movie it did not grab.
TriedAfter(r, o) ==
  CASE r \in Show \/ <<r, 1>> \in resting \/ Needing(r) = {} -> {tried}
    [] Grabs(o) -> {tried \ {r}}
    [] o = "failed" -> {tried, tried \union {r}}
    [] OTHER -> {tried \union {r}}

\* The active search of the cycle.  The cooldown after a timeout, of five
\* minutes, is over when the next cycle comes.
ActiveSearch ==
  LET r == cycle.r IN
  /\ cycle.pc = "active"
  /\ \E o \in Results(r), late \in Late :
       /\ Pass(r, o, FALSE)
       /\ rank' = Touched(r)
       /\ tried' \in TriedAfter(r, o)
       /\ wanted' = IF late THEN wanted ELSE [wanted EXCEPT ![r] = Cooldown]
  /\ Onward(r, cycle.used + 1)
  /\ UNCHANGED skip

End ==
  /\ cycle.pc = "next" /\ cycle.todo = {}
  /\ cycle' = Idle
  /\ UNCHANGED <<state, rank, tried, cursor, wanted, resting, skip>>

-----------------------------------------------------------------------------
\* Others.

\* A webhook, a recovery or a repair has the seasons of a show searched.
Outside(r) ==
  /\ "outside" \in Allow
  /\ \E o \in Results(r) : Pass(r, o, FALSE)
  /\ rank' = Touched(r)
  /\ UNCHANGED <<tried, wanted, skip, cycle>>

\* A download becomes an import, or fails and its season is missing again.
Settle(r, s) ==
  /\ "settle" \in Allow /\ state[r][s] \in {"pack", "episodes"}
  /\ \E now \in {"there", "missing"} : state' = [state EXCEPT ![r][s] = now]
  /\ rank' = Touched(r) /\ tried' = tried \ {r}
  /\ UNCHANGED <<cursor, wanted, resting, skip, cycle>>

\* A season gets new episodes, or loses some.
Air(r, s) ==
  /\ "air" \in Allow /\ state[r][s] = "there"
  /\ state' = [state EXCEPT ![r][s] = "missing"]
  /\ UNCHANGED <<rank, tried, cursor, wanted, resting, skip, cycle>>

CycleStep == Start \/ (\E r \in Request : PassOver(r) \/ CachedSearch(r)) \/ ActiveSearch \/ End
Next ==
  \/ CycleStep
  \/ \E r \in Show : Outside(r)
  \/ \E r \in Request : \E s \in SeasonsOf(r) : Settle(r, s)
  \/ \E r \in Show, s \in Season : Air(r, s)

Spec == Init /\ [][Next]_vars

\* The cycle is a periodic task whose awaits all have timeouts or end.
FairSpec == Spec /\ WF_vars(CycleStep)

-----------------------------------------------------------------------------
\* The types of the variables.
TypeOK ==
  /\ state \in [Request -> UNION {[S -> SeasonState] : S \in {Season, {1}}}]
  /\ \A r \in Request : DOMAIN state[r] = SeasonsOf(r)
  /\ rank \in Orders
  /\ tried \subseteq Movie
  /\ cursor \in [Show -> 0..Seasons]
  /\ wanted \in [Request -> 0..Cooldown]
  /\ resting \subseteq Request \X Season
  /\ skip \in Nat
  /\ cycle.pc \in {"idle", "next", "active"} /\ cycle.todo \subseteq Request
  /\ cycle.r \in Request \union {None} /\ cycle.used \in 0..ActiveLimit

\* The active search of the cycle is about to look for this season (movie).
LooksFor(r, s) ==
  cycle.pc = "active" /\ cycle.r = r /\ s \in Needing(r) /\ s = Target(r) /\ <<r, s>> \notin resting

\* A missing season (or movie) does not stay missing for ever without an active
\* search of the cycle looking for it.  It fails: a cycle in which a show has the
\* active search takes two seasons of it, one for the search of what is cached,
\* so with two seasons missing the active search is for the same one each time.
MissingSearched ==
  \A r \in Request : \A s \in SeasonsOf(r) :
    state[r][s] = "missing" ~> (state[r][s] # "missing" \/ LooksFor(r, s))
=============================================================================
