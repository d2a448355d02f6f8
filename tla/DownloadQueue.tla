--------------------------- MODULE DownloadQueue ---------------------------
(***************************************************************************)
(* The download pipeline: the rows of the Download table, the BullMQ queue *)
(* "nzb-download", the worker slots that run downloadJobMachine, the HTTP  *)
(* handlers that add, retry, pause, cancel, resume, delete and list        *)
(* downloads, the startup rebuild of the queue and the recovery of         *)
(* interrupted downloads (workers/usenetWorkers.ts,                        *)
(* state-machines/downloadJobMachine.ts, services/downloadService.ts).     *)
(*                                                                         *)
(* The table and the queue are two stores that nothing keeps together: a   *)
(* job is queued, and the row is told its id by a second call.  A call     *)
(* that awaits one of the stores is an action; what a process read before  *)
(* may no longer hold when it writes.                                      *)
(***************************************************************************)
EXTENDS Integers, FiniteSets

CONSTANTS Download, Worker, Handler,
          MaxJobs,      \* jobs that may be queued for one download between two restarts
          MaxCrashes,   \* how often the process may die
          Allow         \* what users and the environment do: a subset of Moves

Moves == {"retry", "stop", "sabResume", "delete", "view", "recover", "recoverByHand",
          "bootTraffic", "overdue", "slowLink", "backoff", "refresh", "noCapacity", "noProvider"}

ASSUME Bounds == MaxJobs \in Nat \ {0} /\ MaxCrashes \in Nat /\ Allow \subseteq Moves

ActiveLike == {"queued", "downloading", "fetching_nzb", "verifying", "waiting_for_provider"}
RowStatus == ActiveLike \union
             {"absent", "prepared", "paused", "available", "failed", "cancelled", "deleted"}
Live == {"waiting", "delayed", "active"}
JobState == Live \union {"none", "over"}   \* over: completed, or removed

NoJob == -1           \* jobId null
Prio == 0             \* the fixed id `streaming-priority-<download>`
AutoId == 1..MaxJobs  \* ids given out by BullMQ; only their equality matters
JobId == {Prio} \union AutoId
Null == "null"        \* no download

VARIABLES
  row,      \* Download table: status, jobId, is nzbDocumentId set, is it younger than the grace period
  job,      \* per download and id: the job's state and whether its data names the NZB document
  worker,   \* per slot: place in the job machine, download, its job, the job it queued itself
  handler,  \* add and retry requests in progress
  view,     \* a GET of the queue in progress: the row and the live job it read
  rec,      \* recoverInterruptedDownloads in progress
  boot,     \* the startup sequence
  crashes

vars == <<row, job, worker, handler, view, rec, boot, crashes>>

Exists(d) == row[d].status \notin {"absent", "deleted"}
IsLive(d, n) == n # NoJob /\ job[d][n].state \in Live
Serving == boot.pc = "serving"
\* The server listens before startup recovery runs.
Open == Serving \/ ("bootTraffic" \in Allow /\ boot.pc # "down")

-----------------------------------------------------------------------------
\* The two stores.

\* safeUpdateDownload: a missing row is not an error.
Update(d, status, n) ==
  row' = IF Exists(d) THEN [row EXCEPT ![d].status = status, ![d].job = n] ELSE row
SetStatus(d, status) == Update(d, status, row[d].job)
SetJob(d, n) == Update(d, row[d].status, n)

\* queueDownloadJob without an id: an id not given out since the queue was emptied.
Queue(d, n, state, doc) ==
  /\ n \in AutoId /\ job[d][n].state = "none"
  /\ job' = [job EXCEPT ![d][n] = [state |-> state, doc |-> doc]]

\* queueDownloadJob with the fixed id.
QueuePrio(d, doc) ==
  job' = IF job[d][Prio].state = "none"
         THEN [job EXCEPT ![d][Prio] = [state |-> "delayed", doc |-> doc]]
         ELSE job   \* BullMQ does nothing if the id exists, whatever its state

\* The bound on ids: an operation that will queue a job begins only if an id
\* is left for it and for those already on their way.
Adding(d) ==
  Cardinality({w \in Worker : worker[w].d = d /\ worker[w].pc \in {"backoff", "backoffAdd", "refreshAdd"}})
  + Cardinality({h \in Handler : handler[h].d = d /\ handler[h].pc \in {"storing", "naming", "adding"}})
  + (IF rec.pc = "add" /\ rec.d = d THEN 1 ELSE 0)
  + (IF Serving THEN 0 ELSE 1)
Used(d) == Cardinality({n \in AutoId : job[d][n].state # "none"})
Spare(d) == Used(d) + Adding(d) < MaxJobs

NoWorker == [pc |-> "idle", d |-> Null, n |-> NoJob, m |-> NoJob]
NoHandler == [pc |-> "idle", d |-> Null, m |-> NoJob, doc |-> FALSE, kind |-> "upload"]
NoView == [pc |-> "idle", d |-> Null, status |-> "absent", job |-> NoJob, live |-> NoJob, state |-> "none"]
NoRec == [pc |-> "idle", todo |-> {}, d |-> Null, doc |-> FALSE, m |-> NoJob]
Init ==
  /\ row = [d \in Download |-> [status |-> "absent", job |-> NoJob, doc |-> FALSE, young |-> FALSE]]
  /\ job = [d \in Download |-> [n \in JobId |-> [state |-> "none", doc |-> FALSE]]]
  /\ worker = [w \in Worker |-> NoWorker]
  /\ handler = [h \in Handler |-> NoHandler]
  /\ view = NoView
  /\ rec = NoRec
  /\ boot = [pc |-> "serving", todo |-> {}, d |-> Null, m |-> NoJob, again |-> FALSE]
  /\ crashes = 0

-----------------------------------------------------------------------------
\* The worker: one slot of startDownloadWorkers and its downloadJobMachine.

Goto(w, pc) == worker' = [worker EXCEPT ![w].pc = pc]
OnlyWorker == UNCHANGED <<handler, view, rec, boot, crashes>>

Take(w, d, n) ==
  /\ Serving /\ worker[w].pc = "idle" /\ job[d][n].state = "waiting"
  /\ job' = [job EXCEPT ![d][n].state = "active"]
  /\ worker' = [worker EXCEPT ![w] = [pc |-> "load", d |-> d, n |-> n, m |-> NoJob]]
  /\ UNCHANGED row /\ OnlyWorker

\* checkDownloadState: does the row belong to another job?
Stale(d, n) == row[d].job \notin {NoJob, n}

\* loadDownload and checkDownloadState
Load(w) ==
  LET d == worker[w].d IN
  /\ worker[w].pc = "load"
  /\ Goto(w, IF ~Exists(d) \/ Stale(d, worker[w].n) \/ row[d].status \in {"cancelled", "paused"}
             THEN "finish" ELSE "capacity")
  /\ UNCHANGED <<row, job>> /\ OnlyWorker

\* checkStreamingPriority, and the way on to ensureNzbDocument
Capacity(w) ==
  /\ worker[w].pc = "capacity"
  /\ \/ Goto(w, IF job[worker[w].d][worker[w].n].doc THEN "plan" ELSE "fetch")
     \/ "noCapacity" \in Allow /\ Goto(w, "prioAdd")
  /\ UNCHANGED <<row, job>> /\ OnlyWorker

\* fetchAndStoreNzbForDownload up to the fetch: findUniqueOrThrow, then the status
Fetch(w) ==
  LET d == worker[w].d IN
  /\ worker[w].pc = "fetch"
  /\ Goto(w, IF Exists(d) THEN "fetching" ELSE "decide")
  /\ SetStatus(d, "fetching_nzb")
  /\ UNCHANGED job /\ OnlyWorker

\* storeNzbForDownload: stored, refused by the NZB policy, or the fetch failed.
Fetched(w) ==
  LET d == worker[w].d IN
  /\ worker[w].pc = "fetching"
  /\ \/ /\ row' = IF Exists(d) THEN [row EXCEPT ![d].doc = TRUE] ELSE row
        /\ Goto(w, "plan")
     \/ \E status \in {"failed", "cancelled"} : SetStatus(d, status) /\ Goto(w, "decide")
     \/ Goto(w, "decide") /\ UNCHANGED row
  /\ UNCHANGED job /\ OnlyWorker

\* loadImportPlan: mounted; or unsupported, or the document is gone.
Plan(w) ==
  /\ worker[w].pc = "plan"
  /\ \E next \in {"mount", "decide"} : Goto(w, next)
  /\ UNCHANGED <<row, job>> /\ OnlyWorker

\* processMounted up to the verification: the capacity is read again, then
\* prepareNzbDocumentForStreaming looks for providers.
Mount(w) ==
  LET d == worker[w].d IN
  /\ worker[w].pc = "mount"
  /\ \/ SetStatus(d, "verifying") /\ Goto(w, "verify")
     \/ "noProvider" \in Allow /\ SetStatus(d, "waiting_for_provider") /\ Goto(w, "finish")
     \/ /\ "noCapacity" \in Allow /\ UNCHANGED row
        /\ Goto(w, IF Exists(d) THEN "prioAdd" ELSE "finish")
  /\ UNCHANGED job /\ OnlyWorker

\* Unless slowLink is allowed, the one database write of an add is done before
\* a verification of the same download over the network ends.
Timely(d) == "slowLink" \in Allow \/ \A h \in Handler : ~(handler[h].d = d /\ handler[h].pc = "linking")

\* Mutant: a refused connection is tried again at once, in the same slot.
Verify_InPlace(w) ==
  LET d == worker[w].d IN
  /\ worker[w].pc = "verify" /\ Timely(d)
  /\ \/ SetStatus(d, "prepared") /\ Goto(w, "import")
     \/ \E next \in {"decide", "mount"} : Goto(w, next) /\ UNCHANGED row
  /\ UNCHANGED job /\ OnlyWorker

\* The verification ends: prepared, one of the two errors handleWorkerError
\* queues again for, or another one.
Verify(w) ==
  LET d == worker[w].d IN
  /\ worker[w].pc = "verify" /\ Timely(d)
  /\ \/ SetStatus(d, "prepared") /\ Goto(w, "import")
     \/ Goto(w, "decide") /\ UNCHANGED row
     \/ "backoff" \in Allow /\ Spare(d) /\ Goto(w, "backoff") /\ UNCHANGED row
     \/ "refresh" \in Allow /\ Spare(d) /\ Goto(w, "refreshAdd") /\ UNCHANGED row
  /\ UNCHANGED job /\ OnlyWorker

\* makeMountedDownloadAvailable throws when the row is gone, and what follows
\* its update of the row may fail too.
Import(w) ==
  LET d == worker[w].d IN
  /\ worker[w].pc = "import"
  /\ \/ Exists(d) /\ SetStatus(d, "available") /\ \E next \in {"finish", "decide"} : Goto(w, next)
     \/ Goto(w, "decide") /\ UNCHANGED row
  /\ UNCHANGED job /\ OnlyWorker

\* handleWorkerError, too many connections: status, delayed job, link.
Backoff(w) ==
  /\ worker[w].pc = "backoff"
  /\ SetStatus(worker[w].d, "waiting_for_provider") /\ Goto(w, "backoffAdd")
  /\ UNCHANGED job /\ OnlyWorker

\* handleWorkerError, either error: the new job carries the old job's data.
Requeue(w, pc, state, next) ==
  LET d == worker[w].d IN
  /\ worker[w].pc = pc
  /\ \E n \in AutoId : /\ Queue(d, n, state, job[d][worker[w].n].doc)
                       /\ worker' = [worker EXCEPT ![w].m = n, ![w].pc = next]
  /\ UNCHANGED row /\ OnlyWorker

BackoffAdd(w) == Requeue(w, "backoffAdd", "delayed", "backoffLink")
RefreshAdd(w) == Requeue(w, "refreshAdd", "waiting", "refreshLink")

\* Mutant: no return after the retry was queued, the failure is decided too.
BackoffLink_FallsThrough(w) ==
  /\ worker[w].pc = "backoffLink"
  /\ SetJob(worker[w].d, worker[w].m) /\ Goto(w, "decide")
  /\ UNCHANGED job /\ OnlyWorker

\* Mutant: the row is not told the id of the retry.
BackoffLink_Forgets(w) ==
  /\ worker[w].pc = "backoffLink"
  /\ Goto(w, "finish")
  /\ UNCHANGED <<row, job>> /\ OnlyWorker

BackoffLink(w) ==
  /\ worker[w].pc = "backoffLink"
  /\ SetJob(worker[w].d, worker[w].m) /\ Goto(w, "finish")
  /\ UNCHANGED job /\ OnlyWorker

RefreshLink(w) ==
  /\ worker[w].pc = "refreshLink"
  /\ Update(worker[w].d, "queued", worker[w].m) /\ Goto(w, "finish")
  /\ UNCHANGED job /\ OnlyWorker

\* requeueForStreamingPriority
PrioAdd(w) ==
  LET d == worker[w].d IN
  /\ worker[w].pc = "prioAdd"
  /\ QueuePrio(d, job[d][worker[w].n].doc) /\ Goto(w, "prioLink")
  /\ UNCHANGED row /\ OnlyWorker

PrioLink(w) ==
  /\ worker[w].pc = "prioLink"
  /\ Update(worker[w].d, "queued", Prio) /\ Goto(w, "finish")
  /\ UNCHANGED job /\ OnlyWorker

\* Mutant: the policy's action is written instead of the status it stands for.
Decide_WritesAction(w) ==
  /\ worker[w].pc = "decide"
  /\ \E status \in {"failed", "remove"} : SetStatus(worker[w].d, status)
  /\ Goto(w, "finish")
  /\ UNCHANGED job /\ OnlyWorker

\* handleQueueDecisionFailure: failed, or cancelled when the policy removes it.
Decide(w) ==
  /\ worker[w].pc = "decide"
  /\ \E status \in {"failed", "cancelled"} : SetStatus(worker[w].d, status)
  /\ Goto(w, "finish")
  /\ UNCHANGED job /\ OnlyWorker

\* The processor returns; BullMQ completes the job.
Finish(w) ==
  LET d == worker[w].d n == worker[w].n IN
  /\ worker[w].pc = "finish"
  /\ job' = [job EXCEPT ![d][n].state = "over"]
  /\ worker' = [worker EXCEPT ![w] = NoWorker]
  /\ UNCHANGED row /\ OnlyWorker

\* The delay of five minutes is over.  Linking takes less than that.
Promote(d, n) ==
  /\ Serving /\ job[d][n].state = "delayed"
  /\ \A w \in Worker : ~(worker[w].d = d /\ worker[w].pc \in {"backoffLink", "prioLink"})
  /\ job' = [job EXCEPT ![d][n].state = "waiting"]
  /\ UNCHANGED <<row, worker, handler, view, rec, boot, crashes>>

-----------------------------------------------------------------------------
\* HTTP requests.  An add is addNzbUpload or addNzbFromPath (kind "upload") or
\* addUrl (kind "url"); retry and resume are enqueueDownload.

HandlerAt(h, pc) == handler[h].pc = pc
Proceed(h, pc) == handler' = [handler EXCEPT ![h].pc = pc]
EndHandler(h) == handler' = [handler EXCEPT ![h] = NoHandler]
OnlyHandler == UNCHANGED <<worker, view, rec, boot, crashes>>

AddCreate(h, d, kind) ==
  /\ Open /\ HandlerAt(h, "idle") /\ row[d].status = "absent" /\ Spare(d)
  /\ row' = [row EXCEPT ![d] = [status |-> IF kind = "url" THEN "fetching_nzb" ELSE "queued",
                                job |-> NoJob, doc |-> FALSE, young |-> TRUE]]
  /\ handler' = [handler EXCEPT ![h] = [NoHandler EXCEPT !.pc = "storing", !.d = d, !.kind = kind]]
  /\ UNCHANGED job /\ OnlyHandler

\* storeNzbForDownload: stored; or refused or failed, and the row says so.
AddStored(h) ==
  LET d == handler[h].d IN
  /\ HandlerAt(h, "storing")
  /\ \/ /\ row' = IF Exists(d) THEN [row EXCEPT ![d].doc = TRUE] ELSE row
        /\ handler' = [handler EXCEPT ![h].doc = TRUE,
                                      ![h].pc = IF handler[h].kind = "url" THEN "naming" ELSE "adding"]
     \/ \E status \in {"failed", "cancelled"} : SetStatus(d, status) /\ EndHandler(h)
  /\ UNCHANGED job /\ OnlyHandler

\* addUrl: back from fetching_nzb to queued; a missing row ends the request.
AddNamed(h) ==
  /\ HandlerAt(h, "naming")
  /\ SetStatus(handler[h].d, "queued")
  /\ IF Exists(handler[h].d) THEN Proceed(h, "adding") ELSE EndHandler(h)
  /\ UNCHANGED job /\ OnlyHandler

\* enqueueDownload reads the row; what it writes does not depend on the status.
Retry(h, d) ==
  /\ "retry" \in Allow /\ Open /\ HandlerAt(h, "idle") /\ Exists(d) /\ Spare(d)
  /\ handler' = [handler EXCEPT ![h] = [NoHandler EXCEPT !.pc = "adding", !.d = d,
                                                         !.doc = row[d].doc, !.kind = "retry"]]
  /\ UNCHANGED <<row, job>> /\ OnlyHandler

HandlerAdd(h) ==
  /\ HandlerAt(h, "adding")
  /\ \E n \in AutoId : /\ Queue(handler[h].d, n, "waiting", handler[h].doc)
                       /\ handler' = [handler EXCEPT ![h].pc = "linking", ![h].m = n]
  /\ UNCHANGED row /\ OnlyHandler

\* An add only writes the job id, a retry the status too.
HandlerLink(h) ==
  LET d == handler[h].d IN
  /\ HandlerAt(h, "linking")
  /\ Update(d, IF handler[h].kind = "retry" THEN "queued" ELSE row[d].status, handler[h].m)
  /\ EndHandler(h)
  /\ UNCHANGED job /\ OnlyHandler

\* setDownloadStatus, with no look at what the download is doing.
SetByUser(d, move, status) ==
  /\ move \in Allow /\ Open /\ Exists(d)
  /\ SetStatus(d, status)
  /\ UNCHANGED <<job, worker, handler, view, rec, boot, crashes>>

Stop(d) == \E status \in {"paused", "cancelled"} : SetByUser(d, "stop", status)
SabResume(d) == SetByUser(d, "sabResume", "queued")
Delete(d) == SetByUser(d, "delete", "deleted")   \* the job stays in the queue

\* The grace period of a row goes by; an add takes less than that.
Age(d) ==
  /\ row[d].young /\ \A h \in Handler : handler[h].d # d
  /\ row' = [row EXCEPT ![d].young = FALSE]
  /\ UNCHANGED <<job, worker, handler, view, rec, boot, crashes>>

-----------------------------------------------------------------------------
\* buildQueue, for one row: the table and the queue are read together in any
\* order, and a row that disagrees with the queue is written.

OnlyView == UNCHANGED <<worker, handler, rec, boot, crashes>>
ListsRow(d) == /\ row[d].status \in ActiveLike \union {"prepared", "paused"}
               /\ ~(row[d].status = "queued" /\ ~row[d].doc /\ row[d].job = NoJob)

ViewRow(d) ==
  /\ "view" \in Allow /\ Open
  /\ \/ view.pc = "idle" /\ ListsRow(d)
        /\ view' = [NoView EXCEPT !.pc = "rowRead", !.d = d, !.status = row[d].status, !.job = row[d].job]
     \/ view.pc = "jobsRead" /\ view.d = d
        /\ view' = IF ListsRow(d) THEN [view EXCEPT !.pc = "write", !.status = row[d].status, !.job = row[d].job]
                   ELSE NoView
  /\ UNCHANGED <<row, job>> /\ OnlyView

\* Active jobs are preferred to waiting ones, waiting ones to delayed ones.
Seen(d, n, state) ==
  \/ n = NoJob /\ state = "none" /\ \A k \in JobId : ~IsLive(d, k)
  \/ /\ n # NoJob /\ job[d][n].state = state /\ state \in Live
     /\ \A k \in JobId : /\ state # "active" => job[d][k].state # "active"
                         /\ state = "delayed" => job[d][k].state # "waiting"

ViewJobs(d) ==
  /\ "view" \in Allow /\ Open
  /\ \/ view.pc = "idle" /\ Exists(d)
     \/ view.pc = "rowRead" /\ view.d = d
  /\ \E n \in JobId \union {NoJob}, state \in JobState :
       /\ Seen(d, n, state)
       /\ view' = IF view.pc = "idle"
                  THEN [NoView EXCEPT !.pc = "jobsRead", !.d = d, !.live = n, !.state = state]
                  ELSE [view EXCEPT !.pc = "write", !.live = n, !.state = state]
  /\ UNCHANGED <<row, job>> /\ OnlyView

\* The status and the job id the row should have had when it was read.
ViewStatus ==
  CASE view.live # NoJob /\ view.status = "paused" -> "paused"
    [] view.live # NoJob /\ view.status # "paused" -> IF view.state = "active" THEN "downloading" ELSE "queued"
    [] view.live = NoJob /\ view.job = NoJob /\ view.status \in ActiveLike -> "queued"
    [] OTHER -> view.status
ViewJob == IF view.live # NoJob THEN view.live ELSE view.job

ViewWrite ==
  /\ view.pc = "write"
  /\ IF <<ViewStatus, ViewJob>> # <<view.status, view.job>> \/ (ViewJob = NoJob /\ ViewStatus = "queued")
     THEN Update(view.d, ViewStatus, ViewJob) ELSE UNCHANGED row
  /\ view' = NoView
  /\ UNCHANGED job /\ OnlyView

-----------------------------------------------------------------------------
\* recoverInterruptedDownloads: works through the rows it read at its start.

OnlyRec == UNCHANGED <<worker, handler, view, boot, crashes>>
RecAt(pc) == rec.pc = pc

RecStart ==
  /\ "recoverByHand" \in Allow /\ Serving /\ RecAt("idle")
  /\ rec' = [NoRec EXCEPT !.pc = "scan"]
  /\ UNCHANGED <<row, job>> /\ OnlyRec

RecScan ==
  /\ RecAt("scan")
  /\ rec' = [NoRec EXCEPT !.pc = "loop",
               !.todo = {[d |-> d, job |-> row[d].job, doc |-> row[d].doc] :
                           d \in {e \in Download : row[e].status \in ActiveLike}}]
  /\ UNCHANGED <<row, job>> /\ OnlyRec

\* The pass ends with its list, or as soon as every slot is busy.
RecEnd ==
  /\ RecAt("loop")
  /\ rec.todo = {} \/ \A w \in Worker : worker[w].pc # "idle"
  /\ rec' = NoRec
  /\ UNCHANGED <<row, job>> /\ OnlyRec

\* existingQueueJobForDownload: the recorded job if it lives, else any that does.
Existing(i, n) == IsLive(i.d, n) /\ (IsLive(i.d, i.job) => n = i.job)

RecLook(i) ==
  /\ RecAt("loop") /\ i \in rec.todo
  /\ \E w \in Worker : worker[w].pc = "idle"
  /\ \/ \E n \in JobId : /\ Existing(i, n)
                         /\ rec' = [rec EXCEPT !.todo = @ \ {i}, !.d = i.d, !.m = n,
                                               !.pc = IF i.job = n THEN "loop" ELSE "sync"]
     \/ /\ \A n \in JobId : ~IsLive(i.d, n)
        /\ row[i.d].young \/ Spare(i.d)
        /\ rec' = [rec EXCEPT !.todo = @ \ {i}, !.d = i.d, !.doc = i.doc,
                              !.pc = IF row[i.d].young THEN "loop" ELSE "add"]
  /\ UNCHANGED <<row, job>> /\ OnlyRec

RecSync ==
  /\ RecAt("sync")
  /\ SetJob(rec.d, rec.m)
  /\ rec' = [rec EXCEPT !.pc = "loop"]
  /\ UNCHANGED job /\ OnlyRec

RecAdd ==
  /\ RecAt("add")
  /\ \E n \in AutoId : /\ Queue(rec.d, n, "waiting", rec.doc)
                       /\ rec' = [rec EXCEPT !.pc = "link", !.m = n]
  /\ UNCHANGED row /\ OnlyRec

RecLink ==
  /\ RecAt("link")
  /\ Update(rec.d, "queued", rec.m)
  /\ rec' = [rec EXCEPT !.pc = "loop"]
  /\ UNCHANGED job /\ OnlyRec

-----------------------------------------------------------------------------
\* Death of the process and startup recovery: recoverStaleActiveDownloadJobs,
\* reconcileDownloadQueueState (a second time if a stale job was found), the
\* workers, recoverInterruptedDownloads.

BootAt(pc) == boot.pc = pc
OnlyBoot == UNCHANGED <<worker, handler, view, rec, crashes>>

Crash ==
  /\ crashes < MaxCrashes
  /\ crashes' = crashes + 1
  /\ worker' = [w \in Worker |-> NoWorker]
  /\ handler' = [h \in Handler |-> NoHandler]
  /\ view' = NoView /\ rec' = NoRec
  /\ boot' = [pc |-> "down", todo |-> {}, d |-> Null, m |-> NoJob, again |-> FALSE]
  /\ UNCHANGED <<row, job>>

Listen ==
  /\ BootAt("down")
  /\ boot' = [boot EXCEPT !.pc = "stale"]
  /\ UNCHANGED <<row, job>> /\ OnlyBoot

\* An active job taken more than ten minutes ago is removed, its row reset.
BootStale(d, n) ==
  /\ "overdue" \in Allow /\ BootAt("stale") /\ job[d][n].state = "active"
  /\ job' = [job EXCEPT ![d][n].state = "over"]
  /\ Update(d, "queued", NoJob)
  /\ boot' = [boot EXCEPT !.again = TRUE]
  /\ OnlyBoot

\* Mutant: the clean-up that replaces a failed obliterate misses active jobs.
Obliterate_KeepsActive ==
  /\ BootAt("stale")
  /\ job' = [d \in Download |-> [n \in JobId |-> IF job[d][n].state = "active" THEN job[d][n]
                                                 ELSE [state |-> "none", doc |-> FALSE]]]
  /\ boot' = [boot EXCEPT !.pc = "scan"]
  /\ UNCHANGED row /\ OnlyBoot

\* obliterate: every job goes, and the ids start again.
Obliterate ==
  /\ BootAt("stale")
  /\ job' = [d \in Download |-> [n \in JobId |-> [state |-> "none", doc |-> FALSE]]]
  /\ boot' = [boot EXCEPT !.pc = "scan"]
  /\ UNCHANGED row /\ OnlyBoot

\* Mutant: downloads that wait for a provider are not rebuilt.
Rebuilt_NotWaiting == ActiveLike \ {"waiting_for_provider"}

\* Mutant: downloads that failed before the restart are tried again.
Rebuilt_WithFailed == ActiveLike \union {"failed"}

Rebuilt == ActiveLike

BootScan ==
  /\ BootAt("scan")
  /\ boot' = [boot EXCEPT !.pc = "loop",
                !.todo = {[d |-> d, doc |-> row[d].doc] : d \in {e \in Download : row[e].status \in Rebuilt}}]
  /\ UNCHANGED <<row, job>> /\ OnlyBoot

\* Mutant: startup waits for the grace period to go by.
BootFail_Waits(i) ==
  /\ BootAt("loop") /\ i \in boot.todo /\ ~i.doc /\ ~row[i.d].young
  /\ boot' = [boot EXCEPT !.todo = @ \ {i}]
  /\ SetStatus(i.d, "failed")
  /\ UNCHANGED job /\ OnlyBoot

\* Without a document: left alone within the grace period, else failed.
BootFail(i) ==
  /\ BootAt("loop") /\ i \in boot.todo /\ ~i.doc
  /\ boot' = [boot EXCEPT !.todo = @ \ {i}]
  /\ IF row[i.d].young THEN UNCHANGED row ELSE SetStatus(i.d, "failed")
  /\ UNCHANGED job /\ OnlyBoot

BootAdd(i) ==
  /\ BootAt("loop") /\ i \in boot.todo /\ i.doc
  /\ \E n \in AutoId : /\ Queue(i.d, n, "waiting", TRUE)
                       /\ boot' = [boot EXCEPT !.pc = "link", !.todo = @ \ {i}, !.d = i.d, !.m = n]
  /\ UNCHANGED row /\ OnlyBoot

BootLink ==
  /\ BootAt("link")
  /\ Update(boot.d, "queued", boot.m)
  /\ boot' = [boot EXCEPT !.pc = "loop"]
  /\ UNCHANGED job /\ OnlyBoot

\* The list is done: a second rebuild, or the workers start.
BootNext ==
  /\ BootAt("loop") /\ boot.todo = {}
  /\ boot' = [boot EXCEPT !.pc = IF boot.again THEN "stale" ELSE "serving", !.again = FALSE, !.d = Null, !.m = NoJob]
  /\ rec' = IF ~boot.again /\ "recover" \in Allow THEN [NoRec EXCEPT !.pc = "scan"] ELSE rec
  /\ UNCHANGED <<row, job, worker, handler, view, crashes>>

-----------------------------------------------------------------------------
Work(w) ==
  \/ Load(w) \/ Capacity(w) \/ Fetch(w) \/ Fetched(w) \/ Plan(w) \/ Mount(w) \/ Verify(w) \/ Import(w)
  \/ Backoff(w) \/ BackoffAdd(w) \/ BackoffLink(w) \/ RefreshAdd(w) \/ RefreshLink(w)
  \/ PrioAdd(w) \/ PrioLink(w) \/ Decide(w) \/ Finish(w)

Serve(h) == AddStored(h) \/ AddNamed(h) \/ HandlerAdd(h) \/ HandlerLink(h)

User ==
  \/ \E h \in Handler, d \in Download : Retry(h, d) \/ \E kind \in {"upload", "url"} : AddCreate(h, d, kind)
  \/ \E d \in Download : Stop(d) \/ SabResume(d) \/ Delete(d) \/ ViewRow(d) \/ ViewJobs(d)
  \/ RecStart

Recover == RecScan \/ RecEnd \/ RecSync \/ RecAdd \/ RecLink \/ \E i \in rec.todo : RecLook(i)

Boot == \/ Listen \/ Obliterate \/ BootScan \/ BootLink \/ BootNext
        \/ \E i \in boot.todo : BootFail(i) \/ BootAdd(i)

Next ==
  \/ \E w \in Worker : Work(w) \/ \E d \in Download, n \in JobId : Take(w, d, n)
  \/ \E d \in Download, n \in JobId : Promote(d, n) \/ BootStale(d, n)
  \/ \E d \in Download : Age(d)
  \/ \E h \in Handler : Serve(h)
  \/ User \/ ViewWrite \/ Recover \/ Crash \/ Boot

Spec == Init /\ [][Next]_vars

\* What has begun goes on: promises settle, BullMQ hands out waiting jobs to
\* idle slots and promotes delayed ones, requests and startup come to an end.
Fairness ==
  /\ \A w \in Worker : WF_vars(Work(w))
  /\ WF_vars(\E w \in Worker, d \in Download, n \in JobId : Take(w, d, n))
  /\ \A d \in Download, n \in JobId : WF_vars(Promote(d, n))
  /\ \A h \in Handler : WF_vars(Serve(h))
  /\ WF_vars(ViewWrite) /\ WF_vars(Recover) /\ WF_vars(Boot)

FairSpec == Spec /\ Fairness
-----------------------------------------------------------------------------
WorkerPc == {"idle", "load", "capacity", "fetch", "fetching", "plan", "mount", "verify", "import",
             "backoff", "backoffAdd", "backoffLink", "refreshAdd", "refreshLink",
             "prioAdd", "prioLink", "decide", "finish"}

RowOK == row \in [Download -> [status : RowStatus, job : JobId \union {NoJob}, doc : BOOLEAN, young : BOOLEAN]]
JobOK == job \in [Download -> [JobId -> [state : JobState, doc : BOOLEAN]]]
WorkerOK ==
  worker \in [Worker -> [pc : WorkerPc, d : Download \union {Null}, n : JobId \union {NoJob}, m : JobId \union {NoJob}]]
HandlerOK ==
  handler \in [Handler -> [pc : {"idle", "storing", "naming", "adding", "linking"}, d : Download \union {Null},
                           m : JobId \union {NoJob}, doc : BOOLEAN, kind : {"upload", "url", "retry"}]]
ViewOK ==
  view \in [pc : {"idle", "rowRead", "jobsRead", "write"}, d : Download \union {Null}, status : RowStatus,
            job : JobId \union {NoJob}, live : JobId \union {NoJob}, state : JobState]
RecOK ==
  rec \in [pc : {"idle", "scan", "loop", "sync", "add", "link"},
           todo : SUBSET [d : Download, job : JobId \union {NoJob}, doc : BOOLEAN],
           d : Download \union {Null}, doc : BOOLEAN, m : JobId \union {NoJob}]
BootOK ==
  boot \in [pc : {"down", "stale", "scan", "loop", "link", "serving"}, todo : SUBSET [d : Download, doc : BOOLEAN],
            d : Download \union {Null}, m : JobId \union {NoJob}, again : BOOLEAN]

\* Every variable keeps its type, and a slot that is not idle has a job.
TypeOK ==
  /\ RowOK /\ JobOK /\ WorkerOK /\ HandlerOK /\ ViewOK /\ RecOK /\ BootOK
  /\ crashes \in 0..MaxCrashes
  /\ \A w \in Worker : worker[w].pc # "idle" => worker[w].d \in Download /\ worker[w].n \in JobId

\* A slot works on its download once it is past its checks and until it is
\* done or has queued the job that takes over.
WorksOn(w, d) ==
  worker[w].d = d /\ worker[w].pc \notin {"idle", "load", "backoffLink", "refreshLink", "prioLink", "finish"}

\* Once the process serves, a row that says a download is under way, with its
\* document stored and no request still adding it, has a job that is live, and
\* its jobId does not name a dead one: startup, the retry after a provider's
\* refusal and the order of job and link lose no download.
Owned(d) == IF row[d].job = NoJob THEN \E n \in JobId : IsLive(d, n) ELSE IsLive(d, row[d].job)
NoOrphan ==
  Serving => \A d \in Download :
    row[d].status \in ActiveLike /\ row[d].doc /\ (\A h \in Handler : handler[h].d # d) => Owned(d)

\* Two slots never work on the same download: checkDownloadState turns the
\* superseded job away.
OneWorkerPerDownload ==
  \A d \in Download, v, w \in Worker : WorksOn(v, d) /\ WorksOn(w, d) => v = w

\* A second job of a download is live only while the slot that queued it as a
\* retry still holds the first: no restart leaves two jobs for one download.
NoSecondJob ==
  Serving => \A d \in Download, m, n \in JobId :
    m # n /\ IsLive(d, m) /\ IsLive(d, n) =>
      \E w \in Worker : worker[w].d = d /\ worker[w].n \in {m, n} /\ worker[w].pc \in {"backoffLink", "refreshLink", "finish"}

\* The queue tells the truth about the workers: while the process serves, a
\* job is active exactly if one slot holds it, whatever users and recovery do.
ActiveIsHeld ==
  Serving => \A d \in Download, n \in JobId :
    /\ job[d][n].state = "active" => \E w \in Worker : worker[w].d = d /\ worker[w].n = n
    /\ \A v, w \in Worker : worker[v].d = d /\ worker[w].d = d /\ worker[v].n = n /\ worker[w].n = n
                            => v = w /\ job[d][n].state = "active"

\* The pipeline by itself, restarts included, never puts a download that was
\* made available or given up back to work.
DecidedStays ==
  [][\A d \in Download : row[d].status \in {"available", "failed"} => row'[d].status \notin ActiveLike]_vars

\* A slot that takes a job is free again some day, whatever the job meets.
SlotsFreed == \A w \in Worker : worker[w].pc # "idle" ~> worker[w].pc = "idle"

\* A download whose document is stored does not stay under way for ever, as
\* long as no queue view is read, whose late write may take its job away.
Settles ==
  [](view = NoView) =>
    \A d \in Download : (row[d].doc /\ row[d].status \in ActiveLike) ~> (row[d].status \notin ActiveLike)

\* Startup recovery comes to its end: the workers start.
BootCompletes == ~Serving ~> Serving
=============================================================================
