----------------------------- MODULE NntpPool -----------------------------
(***************************************************************************)
(* The pool of NNTP connections (class NntpPool) and its one user, the     *)
(* verification of an NZB before it is streamed                            *)
(* (services/usenet/downloadEngine.ts).                                    *)
(*                                                                         *)
(* Checkers ask the providers for the articles of the NZB, one after the   *)
(* other; then the main process decodes a few samples.  All of them share  *)
(* the pool: who finds no slot waits until a slot is handed over.  How     *)
(* many slots may be used changes while they wait, with the streams.       *)
(***************************************************************************)
EXTENDS Integers, FiniteSets

CONSTANTS
  Provider, Backup,
  N, Owner,        \* the slots 1..N and the provider of each
  Checker, Main,   \* the processes that read through the pool
  Articles,        \* the articles of the NZB: 1..Articles
  Samples,         \* how many of them are decoded
  Has,             \* the articles each provider has
  MaxRuns,         \* how often the NZB is verified
  Allow            \* what providers, streams and users do: a subset of Moves

Moves == {"refuse", "stall", "fail", "shrink", "reconfigure"}
Slot == 1..N
Article == 1..Articles
Reader == Checker \union {Main}

\* The slots are given out provider by provider, backups last.
ASSUME PoolShape ==
  /\ N \in Nat \ {0} /\ Owner \in [Slot -> Provider] /\ IsFiniteSet(Provider) /\ Backup \subseteq Provider
  /\ \A s, t \in Slot : s < t /\ Owner[s] \in Backup => Owner[t] \in Backup
  /\ \A s \in Slot : Owner[s] \in Backup => \A p \in Provider \ Backup : \E t \in Slot : Owner[t] = p
ASSUME Bounds ==
  /\ Articles \in Nat \ {0} /\ Samples \in 0..Articles /\ MaxRuns \in Nat
  /\ Has \in [Provider -> SUBSET Article] /\ IsFiniteSet(Checker) /\ Main \notin Checker /\ Allow \subseteq Moves

VARIABLES
  busy, client,  \* per slot: is it given out, has it a connection
  reader,        \* per reader: where it is in stat or article, and what it has learnt
  place,         \* per waiting reader: its index in the array of waiters
  allowed,       \* getAllowedDownloadConnections
  cached,        \* articles the missing-article cache names
  next,          \* the next article to be checked
  changed,       \* the provider settings changed since the pool was made
  prep,          \* where the verification is
  runs

vars == <<busy, client, reader, place, allowed, cached, next, changed, prep, runs>>

Owners == {Owner[s] : s \in Slot}
Primary == Provider \ Backup
MaxAttempts == IF 2 * N > Cardinality(Owners) THEN 2 * N ELSE Cardinality(Owners)

NoReader == [pc |-> "over", art |-> 0, slot |-> 0, lim |-> 0, failed |-> {}, refused |-> {},
             backups |-> FALSE, attempt |-> 0, error |-> "none", thrown |-> "none"]

Init ==
  /\ busy = [s \in Slot |-> FALSE] /\ client = [s \in Slot |-> FALSE]
  /\ reader = [r \in Reader |-> NoReader] /\ place = [r \in Reader |-> 0]
  /\ allowed = N /\ cached = {} /\ next = 1 /\ changed = FALSE /\ prep = "idle" /\ runs = 0

-----------------------------------------------------------------------------
\* Slots.

At(r, pc) == reader[r].pc = pc
Waiting(r) == At(r, "wait")
Usable(r, s) == Owner[s] \notin reader[r].failed /\ (reader[r].backups \/ Owner[s] \notin Backup)

\* Mutant: the first in line is handed any slot.
Chosen_Any(r, s) == Waiting(r) /\ place[r] = 0

\* The waiter a slot is handed to: the first that may use it.
Chosen(r, s) ==
  /\ Waiting(r) /\ Usable(r, s)
  /\ \A q \in Reader : Waiting(q) /\ Usable(q, s) => place[r] <= place[q]

\* splice: the waiters behind q move up.
MoveUp(q) ==
  place' = [p \in Reader |-> IF p = q THEN 0
                            ELSE IF Waiting(p) /\ place[p] > place[q] THEN place[p] - 1 ELSE place[p]]

\* Mutant: the slot is marked idle although a waiter takes it over.
Release_MarksIdle(r, after) ==
  LET s == reader[r].slot IN
  /\ \/ \E q \in Reader :
          /\ Chosen(q, s)
          /\ reader' = [reader EXCEPT ![r] = after, ![q].pc = "use", ![q].slot = s]
          /\ MoveUp(q)
     \/ /\ \A q \in Reader : ~Chosen(q, s)
        /\ reader' = [reader EXCEPT ![r] = after] /\ UNCHANGED place
  /\ busy' = [busy EXCEPT ![s] = FALSE]

\* Mutant: only the first in line is looked at.
Release_FirstOnly(r, after) ==
  LET s == reader[r].slot IN
  \/ \E q \in Reader :
       /\ Chosen(q, s) /\ place[q] = 0
       /\ reader' = [reader EXCEPT ![r] = after, ![q].pc = "use", ![q].slot = s]
       /\ MoveUp(q)
       /\ busy' = [busy EXCEPT ![s] = TRUE]
  \/ /\ \A q \in Reader : ~(Chosen(q, s) /\ place[q] = 0)
     /\ reader' = [reader EXCEPT ![r] = after]
     /\ busy' = [busy EXCEPT ![s] = FALSE]
     /\ UNCHANGED place

\* release, with `after` the state of the reader that gives its slot back.
Release(r, after) ==
  LET s == reader[r].slot IN
  \/ \E q \in Reader :
       /\ Chosen(q, s)
       /\ reader' = [reader EXCEPT ![r] = after, ![q].pc = "use", ![q].slot = s]
       /\ MoveUp(q)
       /\ busy' = [busy EXCEPT ![s] = TRUE]
  \/ /\ \A q \in Reader : ~Chosen(q, s)
     /\ reader' = [reader EXCEPT ![r] = after]
     /\ busy' = [busy EXCEPT ![s] = FALSE]
     /\ UNCHANGED place

-----------------------------------------------------------------------------
\* stat (checkers) and article (main).

\* A verification that failed is not failed again by a reader that goes on.
PrepFails == prep' = IF prep \in {"verify", "sample"} THEN "failed" ELSE prep

\* The next article, and the head of the first attempt.
Begin(r, a) ==
  /\ reader' = [reader EXCEPT ![r] =
                  IF changed THEN [NoReader EXCEPT !.thrown = "changed"]
                  ELSE [NoReader EXCEPT !.pc = "ask", !.art = a, !.attempt = 1, !.backups = (Primary = {})]]
  /\ IF changed THEN PrepFails ELSE UNCHANGED prep

\* Mutant: one article too many.
NextArticle_TooMany(r) ==
  /\ r \in Checker /\ At(r, "next")
  /\ IF next > Articles + 1
     THEN reader' = [reader EXCEPT ![r] = NoReader] /\ UNCHANGED <<next, prep>>
     ELSE Begin(r, next) /\ next' = next + 1
  /\ UNCHANGED <<busy, client, place, allowed, cached, changed, runs>>

NextArticle(r) ==
  /\ r \in Checker /\ At(r, "next")
  /\ IF next > Articles
     THEN reader' = [reader EXCEPT ![r] = NoReader] /\ UNCHANGED <<next, prep>>
     ELSE Begin(r, next) /\ next' = next + 1
  /\ UNCHANGED <<busy, client, place, allowed, cached, changed, runs>>

NextSample ==
  /\ At(Main, "next") /\ reader[Main].art < Samples
  /\ Begin(Main, reader[Main].art + 1)
  /\ UNCHANGED <<busy, client, place, allowed, cached, next, changed, runs>>

\* acquire: while no connection is allowed the reader sleeps.
Ask(r) ==
  /\ At(r, "ask") /\ allowed > 0
  /\ reader' = [reader EXCEPT ![r].pc = "count"]
  /\ UNCHANGED <<busy, client, place, allowed, cached, next, changed, prep, runs>>

\* activeSlots: the allowance is read again.
Count(r) ==
  /\ At(r, "count")
  /\ reader' = [reader EXCEPT ![r].pc = "pick", ![r].lim = IF allowed > 1 THEN allowed ELSE 1]
  /\ UNCHANGED <<busy, client, place, allowed, cached, next, changed, prep, runs>>

Free(r, s) == s <= reader[r].lim /\ ~busy[s] /\ Usable(r, s)

\* The first free slot among the active ones, or a place in the queue.
Pick(r) ==
  /\ At(r, "pick")
  /\ \/ \E s \in Slot : /\ Free(r, s) /\ \A t \in 1..(s - 1) : ~Free(r, t)
                        /\ busy' = [busy EXCEPT ![s] = TRUE]
                        /\ reader' = [reader EXCEPT ![r].pc = "use", ![r].slot = s]
                        /\ UNCHANGED place
     \/ /\ \A s \in Slot : ~Free(r, s)
        /\ reader' = [reader EXCEPT ![r].pc = "wait"]
        /\ place' = [place EXCEPT ![r] = Cardinality({q \in Reader : Waiting(q)})]
        /\ UNCHANGED busy
  /\ UNCHANGED <<client, allowed, cached, next, changed, prep, runs>>

\* The article is there: the slot keeps its connection and is released.
Deliver(r) ==
  /\ At(r, "use") /\ reader[r].art \in Has[Owner[reader[r].slot]]
  /\ client' = [client EXCEPT ![reader[r].slot] = TRUE]
  /\ \/ Release(r, [NoReader EXCEPT !.pc = "next", !.art = reader[r].art]) /\ UNCHANGED prep
     \/ \* the decoded sample is empty
        /\ r = Main /\ "fail" \in Allow
        /\ Release(r, [NoReader EXCEPT !.thrown = "empty"]) /\ PrepFails
  /\ UNCHANGED <<allowed, cached, next, changed, runs>>

Fails(r, error) ==
  \/ error = "missing" /\ reader[r].art \notin Has[Owner[reader[r].slot]]
  \/ error = "refused" /\ "refuse" \in Allow
  \/ error = "temporary" /\ "stall" \in Allow
  \/ error = "other" /\ "fail" \in Allow

\* The connection fails or the article is missing there: the connection is closed.
Fail(r) ==
  /\ At(r, "use")
  /\ \E error \in {"missing", "refused", "temporary", "other"} :
       /\ Fails(r, error)
       /\ reader' = [reader EXCEPT ![r].pc = "judge", ![r].error = error]
       /\ cached' = IF error = "missing" THEN cached \union {reader[r].art} ELSE cached
  /\ client' = [client EXCEPT ![reader[r].slot] = FALSE]
  /\ UNCHANGED <<busy, place, allowed, next, changed, prep, runs>>

\* Mutant: the backups are not opened to a request that all primaries failed.
Judged_NoBackups(r) ==
  LET p == Owner[reader[r].slot]
      failed == reader[r].failed \union (IF reader[r].error = "temporary" THEN {} ELSE {p})
  IN [reader[r] EXCEPT !.failed = failed, !.pc = "ask", !.attempt = @ + 1, !.slot = 0, !.error = "none",
                       !.refused = IF reader[r].error = "refused" THEN @ \union {p} ELSE @]

\* What the reader knows once the error is judged: a temporary error excludes
\* no provider; when all primaries are excluded, backups may be used.
Judged(r) ==
  LET p == Owner[reader[r].slot]
      failed == reader[r].failed \union (IF reader[r].error = "temporary" THEN {} ELSE {p})
  IN [reader[r] EXCEPT !.failed = failed, !.pc = "ask", !.attempt = @ + 1, !.slot = 0, !.error = "none",
                       !.refused = IF reader[r].error = "refused" THEN @ \union {p} ELSE @,
                       !.backups = @ \/ Primary \subseteq failed]

\* Mutant: a reader gives up with its first missing article.
Judge_GivesUp(r) ==
  LET k == Judged(r) IN
  /\ At(r, "judge")
  /\ IF reader[r].error = "missing" \/ k.attempt > MaxAttempts \/ Cardinality(k.failed) >= Cardinality(Owners)
     THEN Release(r, [k EXCEPT !.pc = "over", !.thrown = "allFailed"]) /\ PrepFails
     ELSE Release(r, k) /\ UNCHANGED prep
  /\ UNCHANGED <<client, allowed, cached, next, changed, runs>>

\* After the sleep if the error is temporary: another attempt, or the request
\* fails and with it the verification; either way the slot is released.
Judge(r) ==
  LET k == Judged(r)
      refusedAll == reader[r].error = "refused" /\ Cardinality(k.failed) >= Cardinality(Owners)
  IN
  /\ At(r, "judge")
  /\ IF refusedAll \/ k.attempt > MaxAttempts \/ Cardinality(k.failed) >= Cardinality(Owners)
     THEN /\ Release(r, [k EXCEPT !.pc = "over", !.thrown = IF refusedAll THEN "refusedAll" ELSE "allFailed"])
          /\ PrepFails
     ELSE Release(r, k) /\ UNCHANGED prep
  /\ UNCHANGED <<client, allowed, cached, next, changed, runs>>

-----------------------------------------------------------------------------
\* prepareNzbDocumentForStreaming, and the world around it.

\* A new pool; an article known to be missing ends the verification at once.
\* A new verification begins when no reader of the last one is left.
Start ==
  /\ prep \in {"idle", "failed", "prepared"} /\ runs < MaxRuns /\ \A r \in Reader : At(r, "over")
  /\ runs' = runs + 1
  /\ busy' = [s \in Slot |-> FALSE] /\ client' = [s \in Slot |-> FALSE]
  /\ next' = 1 /\ changed' = FALSE
  /\ IF cached = {}
     THEN /\ prep' = "verify"
          /\ reader' = [r \in Reader |-> IF r \in Checker THEN [NoReader EXCEPT !.pc = "next"] ELSE NoReader]
     ELSE prep' = "failed" /\ UNCHANGED reader
  /\ UNCHANGED <<place, allowed, cached>>

\* Every checker came to its end without an error.
Sample ==
  /\ prep = "verify" /\ \A r \in Checker : At(r, "over")
  /\ prep' = "sample"
  /\ reader' = [reader EXCEPT ![Main] = [NoReader EXCEPT !.pc = "next"]]
  /\ UNCHANGED <<busy, client, place, allowed, cached, next, changed, runs>>

\* All samples are decoded: the download is prepared and the pool is closed.
Close ==
  /\ prep = "sample" /\ At(Main, "next") /\ reader[Main].art = Samples
  /\ prep' = "prepared"
  /\ reader' = [reader EXCEPT ![Main] = NoReader]
  /\ client' = [s \in Slot |-> FALSE]
  /\ UNCHANGED <<busy, place, allowed, cached, next, changed, runs>>

\* Streams begin and end, settings change.
Resize ==
  /\ "shrink" \in Allow /\ allowed' \in 0..N
  /\ UNCHANGED <<busy, client, reader, place, cached, next, changed, prep, runs>>
Reconfigure ==
  /\ "reconfigure" \in Allow /\ changed' = TRUE
  /\ UNCHANGED <<busy, client, reader, place, allowed, cached, next, prep, runs>>

Read(r) == NextArticle(r) \/ Ask(r) \/ Count(r) \/ Pick(r) \/ Deliver(r) \/ Fail(r) \/ Judge(r)
Prepare == Sample \/ NextSample \/ Close
Next == (\E r \in Reader : Read(r)) \/ Prepare \/ Start \/ Resize \/ Reconfigure

Spec == Init /\ [][Next]_vars

\* Providers answer or time out, promises settle.
Fairness == (\A r \in Reader : WF_vars(Read(r))) /\ WF_vars(Prepare)
FairSpec == Spec /\ Fairness
-----------------------------------------------------------------------------
Pc == {"over", "next", "ask", "count", "pick", "wait", "use", "judge"}

ReaderState ==
  [pc : Pc, art : 0..Articles, slot : 0..N, lim : 0..N,
   failed : SUBSET Provider, refused : SUBSET Provider, backups : BOOLEAN,
   attempt : 0..(MaxAttempts + 1), error : {"none", "missing", "refused", "temporary", "other"},
   thrown : {"none", "changed", "empty", "refusedAll", "allFailed"}]

TypeOK ==
  /\ busy \in [Slot -> BOOLEAN] /\ client \in [Slot -> BOOLEAN]
  /\ reader \in [Reader -> ReaderState]
  /\ place \in [Reader -> Nat]
  /\ allowed \in 0..N /\ cached \subseteq Article /\ next \in 1..(Articles + 1) /\ changed \in BOOLEAN
  /\ prep \in {"idle", "verify", "sample", "prepared", "failed"} /\ runs \in 0..MaxRuns

Holds(r, s) == reader[r].slot = s /\ reader[r].pc \in {"use", "judge"}

\* A slot is marked busy exactly while one reader holds it, also when it is
\* handed from reader to reader: no connection carries two requests, none is
\* lost to the pool.
SlotExclusive ==
  \A s \in Slot : /\ busy[s] <=> \E r \in Reader : Holds(r, s)
                  /\ \A q, r \in Reader : Holds(q, s) /\ Holds(r, s) => q = r

\* No lost wake-up: no slot a reader was ready to take when it began to wait
\* is idle while it waits.
NoLostWakeup ==
  \A r \in Reader, s \in Slot : Waiting(r) /\ s <= reader[r].lim /\ Usable(r, s) => busy[s]

\* A backup provider is used only by a request that every primary has failed,
\* whether its slot was picked or handed over.
BackupLast ==
  \A r \in Reader : reader[r].pc \in {"use", "judge"} /\ Owner[reader[r].slot] \in Backup => Primary \subseteq reader[r].failed

\* While providers only ever miss articles, the verification fails only for an
\* article that no provider of the pool has.
FailsOnlyIfMissing ==
  prep = "failed" => \E a \in Article : \A p \in Owners : a \notin Has[p]

\* Once downloads may use the whole pool again, for good, every verification
\* comes to an end.
PreparationEnds ==
  <>[](allowed = N) => (prep \in {"verify", "sample"} ~> prep \in {"prepared", "failed"})
=============================================================================
