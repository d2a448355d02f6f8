---------------------------- MODULE RequestGrab ----------------------------
(***************************************************************************)
(* The life of one movie request: its row in the MediaRequest table, the   *)
(* downloads of the releases found for it, and the callers that search,    *)
(* grab and correct it: users, webhooks, the recovery a worker starts when *)
(* a download fails, and the recovery cycle with its four passes           *)
(* (services/requests/sync/mediaRequestService.ts and service.ts,          *)
(* services/requests/recovery/releaseRecoveryService.ts,                   *)
(* services/requests/pipeline/requestPipelineMachine.ts).                  *)
(*                                                                         *)
(* Nothing serialises the callers.  Each reads the row, awaits a search, a *)
(* fetch or another table, and writes what it concluded from what it read. *)
(* An action is the code up to an await after which what was read is used; *)
(* reads that follow each other are taken together, and a call that fails  *)
(* together with the write its failure leads to.                           *)
(***************************************************************************)
EXTENDS Naturals

CONSTANTS Release,   \* releases the indexers know; a release has one download
          Caller,    \* users, webhooks, workers: calls that may be in flight beside the cycle
          MaxMoves,  \* how often users and webhooks step in, and downloads and imports are taken away
          Allow      \* what users and the environment do: a subset of Moves

Moves == {"decide", "search", "choose", "sync", "delete", "loseImport",
          "error", "hardFail", "timeout", "profile", "deferred", "policy"}

ASSUME Bounds == MaxMoves \in Nat /\ Allow \subseteq Moves
ASSUME Apart == "cycle" \notin Caller /\ "none" \notin Release

Cycle == "cycle"
Proc == Caller \union {Cycle}
None == "none"

Status == {"approved", "grabbed", "available", "release_failed", "no_release_found",
           "import_failed", "blocklisted_release", "rejected_release", "rejected"}
\* absent: no row and no document; deleted: the row is gone, its document is not;
\* stored: queued, its job not yet; failed: failed, cancelled or replaced.
DownloadState == {"absent", "deleted", "stored", "queued", "available", "failed"}
Active == {"stored", "queued"}

Monitored == {"approved", "grabbed", "available", "release_failed", "no_release_found"}
Selectable == {"approved", "grabbed", "release_failed", "no_release_found", "import_failed"}
AutoGrabbed == {"approved", "grabbed", "no_release_found", "release_failed"}

VARIABLES
  row,         \* status, selectedRelease and downloadId of the request
  dl,          \* the download of each release
  imported,    \* the release whose working import the library has
  blocked,     \* the blocklist
  cool,        \* the cooldowns in force: "grab", "wanted"
  recovering,  \* has inFlightRecoveryByRequest an entry?
  moves,       \* how often someone has stepped in
  proc         \* the callers: place, release, the grab's kind and what follows it, what is to be written

vars == <<row, dl, imported, blocked, cool, recovering, moves, proc>>

IdleProc == [pc |-> "idle", r |-> None, best |-> FALSE, cached |-> FALSE, then |-> "end",
             next |-> None, clear |-> FALSE]

Init ==
  /\ row = [status |-> "approved", rel |-> None, link |-> None]
  /\ dl = [r \in Release |-> "absent"]
  /\ imported = None
  /\ blocked = {}
  /\ cool = {}
  /\ recovering = FALSE
  /\ moves = 0
  /\ proc = [p \in Proc |-> IdleProc]

At(p, pc) == proc[p].pc = pc
Become(p, next) == proc' = [proc EXCEPT ![p] = next]
Goto(p, pc) == Become(p, [proc[p] EXCEPT !.pc = pc])
Stay == UNCHANGED <<cool, recovering>>
Only(p, next) == Become(p, next) /\ UNCHANGED <<row, dl, imported, blocked, cool, recovering, moves>>

Move(move) == move \in Allow /\ moves < MaxMoves /\ moves' = moves + 1

SetStatus(status) == row' = [row EXCEPT !.status = status]
Unlinked(status) == row' = [row EXCEPT !.status = status, !.link = None]
Selects(status, rel, link) == row' = [status |-> status, rel |-> rel, link |-> link]

\* Mutant: the link is trusted, its download is not looked for.
Linked_Trusted(link) == IF link = None THEN "absent" ELSE dl[link]

\* The state of the linked download; a link to a deleted row finds nothing.
Linked(link) == IF link = None \/ dl[link] = "deleted" THEN "absent" ELSE dl[link]
HasActive(link) == Linked(link) \in Active
Dead(link) == Linked(link) \in {"absent", "failed"}

\* The downloadId of the working import, null once its download was deleted.
ImportLink == IF dl[imported] = "deleted" THEN None ELSE imported

\* requestStatusForDownloadStatus
StatusFor(state) == IF state = "available" THEN "available" ELSE "grabbed"

-----------------------------------------------------------------------------
\* Grabs.  A grab is called by a caller or by a pass of the cycle; `then` says
\* by whom, `best` whether it searches or was given its release.

Grab(pc, r, best, cached, then) ==
  [IdleProc EXCEPT !.pc = pc, !.r = r, !.best = best, !.cached = cached, !.then = then]
SearchBest(cached, then) == Grab("check", None, TRUE, cached, then)
Stage(pc) == [IdleProc EXCEPT !.pc = pc]

\* Mutant: the active search that follows a cached one is cached as well.
Continue_CachedAgain(p, grabbed) ==
  LET then == proc[p].then IN
  /\ Become(p, CASE then = "cached" /\ ~grabbed -> SearchBest(TRUE, "cached")
                 [] then = "cached" /\ grabbed -> Stage("selected")
                 [] then = "active" -> Stage("selected")
                 [] then = "selected" -> Stage("failed")
                 [] OTHER -> IdleProc)
  /\ cool' = IF then = "active" THEN cool \union {"wanted"} ELSE cool
  /\ recovering' = (recovering /\ then # "recovery")

\* What the caller of a grab does with its result.
Continue(p, grabbed) ==
  LET then == proc[p].then IN
  /\ Become(p, CASE then = "cached" /\ ~grabbed -> SearchBest(FALSE, "active")
                 [] then = "cached" /\ grabbed -> Stage("selected")
                 [] then = "active" -> Stage("selected")
                 [] then = "selected" -> Stage("failed")
                 [] OTHER -> IdleProc)
  /\ cool' = IF then = "active" THEN cool \union {"wanted"} ELSE cool
  /\ recovering' = (recovering /\ then # "recovery")

\* Mutant: no finally, a recovery whose search throws keeps its entry.
Throw_NoFinally(p) ==
  CASE proc[p].then = "recovery" -> SetStatus("no_release_found") /\ Become(p, IdleProc) /\ Stay /\ UNCHANGED blocked
    [] proc[p].then = "webhook" -> Unlinked("approved") /\ Continue(p, FALSE) /\ UNCHANGED blocked
    [] proc[p].then = "selected" -> /\ blocked' = blocked \union ({proc[p].r} \ {None})
                                    /\ Selects("release_failed", None, None)
                                    /\ Become(p, SearchBest(FALSE, "dropped")) /\ Stay
    [] proc[p].then = "dropped" -> Become(p, Stage("failed")) /\ Stay /\ UNCHANGED <<row, blocked>>
    [] OTHER -> Continue(p, FALSE) /\ UNCHANGED <<row, blocked>>

\* What the caller of a grab does when it throws.  The pass over selected
\* releases blocklists its release (a throwing search for a replacement finds
\* it blocklisted) and searches; a throw of that search it passes over.
Throw(p) ==
  CASE proc[p].then = "recovery" -> SetStatus("no_release_found") /\ Continue(p, FALSE) /\ UNCHANGED blocked
    [] proc[p].then = "webhook" -> Unlinked("approved") /\ Continue(p, FALSE) /\ UNCHANGED blocked
    [] proc[p].then = "selected" -> /\ blocked' = blocked \union ({proc[p].r} \ {None})
                                    /\ Selects("release_failed", None, None)
                                    /\ Become(p, SearchBest(FALSE, "dropped")) /\ Stay
    [] proc[p].then = "dropped" -> Become(p, Stage("failed")) /\ Stay /\ UNCHANGED <<row, blocked>>
    [] OTHER -> Continue(p, FALSE) /\ UNCHANGED <<row, blocked>>

\* checkExisting of grabBestForRequest
CheckBest(p) ==
  /\ At(p, "check")
  /\ \/ imported # None /\ Become(p, [proc[p] EXCEPT !.pc = "showImport", !.r = ImportLink]) /\ Stay
     \/ imported = None /\ HasActive(row.link) /\ Continue(p, TRUE)
     \/ imported = None /\ ~HasActive(row.link) /\ "grab" \in cool /\ Continue(p, FALSE)
     \/ imported = None /\ ~HasActive(row.link) /\ "grab" \notin cool /\ Goto(p, "load") /\ Stay
  /\ UNCHANGED <<row, dl, imported, blocked, moves>>

ShowImport(p) ==
  /\ At(p, "showImport")
  /\ row' = [row EXCEPT !.status = "available", !.link = proc[p].r]
  /\ Continue(p, FALSE)
  /\ UNCHANGED <<dl, imported, blocked, moves>>

\* loadCandidates: the search finds some of the releases; the best that is not
\* blocklisted is the only one tried (MOVIE_NZB_FETCH_ATTEMPTS_PER_PASS is 1).
\* A cached search that finds none changes nothing.
Load(p) ==
  /\ At(p, "load")
  /\ \/ \E r \in Release \ blocked : Become(p, [proc[p] EXCEPT !.pc = "try", !.r = r])
                                     /\ Stay /\ UNCHANGED <<row, blocked>>
     \/ proc[p].cached /\ Continue(p, FALSE) /\ UNCHANGED <<row, blocked>>
     \/ ~proc[p].cached /\ Goto(p, "nothing") /\ cool' = cool \union {"grab"}
        /\ UNCHANGED <<row, blocked, recovering>>
     \/ "error" \in Allow /\ Throw(p)
  /\ UNCHANGED <<dl, imported, moves>>

Nothing(p) ==
  /\ At(p, "nothing")
  /\ SetStatus("no_release_found")
  /\ Continue(p, FALSE)
  /\ UNCHANGED <<dl, imported, blocked, moves>>

\* checkExisting of grabReleaseForRequest
CheckRelease(p) ==
  LET r == proc[p].r IN
  /\ At(p, "checkRelease")
  /\ \/ HasActive(row.link) /\ Continue(p, TRUE) /\ UNCHANGED <<row, blocked>>
     \/ /\ ~HasActive(row.link) /\ Stay /\ UNCHANGED <<row, blocked>>
        /\ \/ r \notin blocked /\ Goto(p, "try")
           \/ r \in blocked /\ Become(p, [proc[p] EXCEPT !.pc = "refuse", !.next = "blocklisted_release"])
           \/ "profile" \in Allow /\ r \notin blocked
              /\ Become(p, [proc[p] EXCEPT !.pc = "refuse", !.next = "rejected_release"])
     \/ "error" \in Allow /\ Throw(p)
  /\ UNCHANGED <<dl, imported, moves>>

Refuse(p) ==
  /\ At(p, "refuse")
  /\ row' = [row EXCEPT !.status = proc[p].next, !.rel = proc[p].r]
  /\ Continue(p, FALSE)
  /\ UNCHANGED <<dl, imported, blocked, moves>>

\* tryCandidate: a live download of the release is reused, or else one is added.
Try(p) ==
  LET r == proc[p].r IN
  /\ At(p, "try")
  /\ Only(p, IF dl[r] \in Active \union {"available"}
             THEN [proc[p] EXCEPT !.pc = "link", !.next = StatusFor(dl[r])]
             ELSE [proc[p] EXCEPT !.pc = "add"])

\* The fetch, and addNzbFromPath up to the attachment: a download is made, or
\* one that came up meanwhile is attached; the NZB policy refuses the duplicate
\* of a failed or a deleted one; or the fetch fails for the time being, which
\* a search leaves at that and a chosen release does not survive.
Add(p) ==
  LET r == proc[p].r IN
  /\ At(p, "add")
  /\ \/ /\ dl[r] \in {"absent", "available"} \union Active
        /\ dl' = IF dl[r] = "absent" THEN [dl EXCEPT ![r] = "stored"] ELSE dl
        /\ Become(p, [proc[p] EXCEPT !.pc = "attach", !.next = StatusFor(dl[r])])
        /\ Stay /\ UNCHANGED row
     \/ /\ dl[r] \in {"failed", "deleted"} \/ "hardFail" \in Allow
        /\ Goto(p, "blocklist") /\ Stay /\ UNCHANGED <<row, dl>>
     \/ proc[p].best /\ Continue(p, FALSE) /\ UNCHANGED <<row, dl>>
     \/ /\ ~proc[p].best
        /\ Become(p, [proc[p] EXCEPT !.pc = "giveBack", !.next = "approved"])
        /\ cool' = cool \union {"grab"} /\ UNCHANGED <<row, dl, recovering>>
  /\ UNCHANGED <<imported, blocked, moves>>

\* The release is kept when it was blocklisted, to be searched past.
GiveBack(p) ==
  /\ At(p, "giveBack")
  /\ Selects(proc[p].next, IF proc[p].next = "release_failed" THEN proc[p].r ELSE None, None)
  /\ Continue(p, FALSE)
  /\ UNCHANGED <<dl, imported, blocked, moves>>

\* attachExistingDownloadToRequest, and the job of a download just added.
Attach(p) ==
  LET r == proc[p].r IN
  /\ At(p, "attach")
  /\ row' = [row EXCEPT !.link = r, !.status = IF @ = "available" THEN @ ELSE "grabbed"]
  /\ dl' = IF dl[r] = "stored" THEN [dl EXCEPT ![r] = "queued"] ELSE dl
  /\ Goto(p, "link") /\ Stay
  /\ UNCHANGED <<imported, blocked, moves>>

\* The status written is the one the download had when it was added or found.
Link(p) ==
  /\ At(p, "link")
  /\ Selects(proc[p].next, proc[p].r, proc[p].r)
  /\ Continue(p, TRUE)
  /\ UNCHANGED <<dl, imported, blocked, moves>>

\* maybeBlocklistGrabFailure, and the write it leads to.  A search that was not
\* cached has exhausted its candidates; a chosen release that the NZB policy
\* refused is replaced by a search, one whose fetch threw is not.
Blocklist(p) ==
  LET r == proc[p].r IN
  /\ At(p, "blocklist")
  /\ blocked' = blocked \union {r}
  /\ \/ /\ proc[p].best /\ Goto(p, "exhausted") /\ cool' = cool \union {"grab"}
        /\ UNCHANGED <<row, recovering>>
     \/ ~proc[p].best /\ Selects("release_failed", r, None) /\ Stay
        /\ Become(p, SearchBest(FALSE, proc[p].then))
     \/ /\ ~proc[p].best /\ Become(p, [proc[p] EXCEPT !.pc = "giveBack", !.next = "release_failed"])
        /\ cool' = cool \union {"grab"} /\ UNCHANGED <<row, recovering>>
  /\ UNCHANGED <<dl, imported, moves>>

\* onExhausted of grabBestForRequest
Exhausted(p) ==
  /\ At(p, "exhausted")
  /\ IF proc[p].cached THEN UNCHANGED row ELSE Unlinked("no_release_found")
  /\ Continue(p, FALSE)
  /\ UNCHANGED <<dl, imported, blocked, moves>>

GrabStep(p) ==
  \/ CheckBest(p) \/ ShowImport(p) \/ Load(p) \/ Nothing(p) \/ CheckRelease(p) \/ Refuse(p)
  \/ Try(p) \/ Add(p) \/ GiveBack(p) \/ Attach(p) \/ Link(p) \/ Blocklist(p) \/ Exhausted(p)

-----------------------------------------------------------------------------
\* A download ends.  The worker that fails it asks the policy what to do.

\* handleQueueDecisionFailure
FailDownload(c, r) ==
  /\ At(c, "idle") /\ dl[r] = "queued"
  /\ dl' = [dl EXCEPT ![r] = "failed"]
  /\ \/ "policy" \in Allow /\ Become(c, [IdleProc EXCEPT !.pc = "unlink", !.r = r])
     \/ Become(c, [IdleProc EXCEPT !.pc = "resolve", !.r = r])
  /\ UNCHANGED <<row, imported, blocked, cool, recovering, moves>>

Unlink(c) ==
  /\ At(c, "unlink")
  /\ IF row.link = proc[c].r THEN Unlinked("import_failed") ELSE UNCHANGED row
  /\ Become(c, IdleProc)
  /\ UNCHANGED <<dl, imported, blocked, cool, recovering, moves>>

\* Mutant: without a selected release, nothing stands in for it.
Resolve_NoFallback(c) ==
  /\ At(c, "resolve")
  /\ \/ recovering /\ Become(c, IdleProc) /\ UNCHANGED blocked
     \/ ~recovering /\ Become(c, Stage("release")) /\ blocked' = blocked \union {row.rel}
     \/ ~recovering /\ "policy" \in Allow /\ Become(c, Stage("release")) /\ UNCHANGED blocked
  /\ UNCHANGED <<row, dl, imported, cool, recovering, moves>>

\* recoverFailedDownloadForRequest: the release it blocklists is the one the
\* request has selected by now; the policy may have it search only.
Resolve(c) ==
  LET rel == IF row.rel = None THEN proc[c].r ELSE row.rel IN
  /\ At(c, "resolve")
  /\ \/ recovering /\ Become(c, IdleProc) /\ UNCHANGED blocked
     \/ ~recovering /\ Become(c, Stage("release")) /\ blocked' = blocked \union {rel}
     \/ ~recovering /\ "policy" \in Allow /\ Become(c, Stage("release")) /\ UNCHANGED blocked
  /\ UNCHANGED <<row, dl, imported, cool, recovering, moves>>

\* The link is cut; the reason of the failure decides whether a search follows
\* now or the request is left to the periodic ones.
ReleaseRow(c) ==
  /\ At(c, "release")
  /\ Unlinked("release_failed")
  /\ \/ Become(c, SearchBest(FALSE, "recovery")) /\ recovering' = TRUE /\ UNCHANGED cool
     \/ "deferred" \in Allow /\ Become(c, Stage("defer"))
        /\ cool' = cool \union {"wanted"} /\ UNCHANGED recovering
  /\ UNCHANGED <<dl, imported, blocked, moves>>

Defer(c) ==
  /\ At(c, "defer")
  /\ SetStatus("approved")
  /\ Become(c, IdleProc)
  /\ UNCHANGED <<dl, imported, blocked, cool, recovering, moves>>

\* makeMountedDownloadAvailable, and reconcileRequestStatusAfterImport.
FinishDownload(c, r) ==
  /\ At(c, "idle") /\ dl[r] = "queued"
  /\ dl' = [dl EXCEPT ![r] = "available"]
  /\ imported' = r
  /\ Become(c, [IdleProc EXCEPT !.pc = "imported", !.r = r])
  /\ UNCHANGED <<row, blocked, cool, recovering, moves>>

AfterImport(c) ==
  /\ At(c, "imported")
  /\ row' = [row EXCEPT !.status = "available", !.link = proc[c].r]
  /\ Become(c, IdleProc)
  /\ UNCHANGED <<dl, imported, blocked, cool, recovering, moves>>

WorkerStep(c) == Unlink(c) \/ Resolve(c) \/ ReleaseRow(c) \/ Defer(c) \/ AfterImport(c)

-----------------------------------------------------------------------------
\* Users, the request manager, the library and the clock.

UserStatus ==
  /\ Move("decide")
  /\ \E status \in {"approved", "rejected", "available"} : SetStatus(status)
  /\ UNCHANGED <<dl, imported, blocked, cool, recovering, proc>>

UserGrab(c) ==
  /\ At(c, "idle")
  /\ \/ Move("search") /\ Become(c, SearchBest(FALSE, "end"))
     \/ Move("choose") /\ \E r \in Release : Become(c, Grab("checkRelease", r, FALSE, FALSE, "end"))
  /\ UNCHANGED <<row, dl, imported, blocked, cool, recovering>>

\* upsertRequest for a request that the provider calls approved, by a webhook
\* or a sync.
Sync(c) ==
  LET live == Linked(row.link) # "absent" IN
  /\ Move("sync") /\ At(c, "idle")
  /\ Become(c, [IdleProc EXCEPT !.pc = "upsert", !.next = IF live THEN row.status ELSE "approved",
                                !.clear = row.link # None /\ ~live])
  /\ UNCHANGED <<row, dl, imported, blocked, cool, recovering>>

Write(p) == row' = [row EXCEPT !.status = proc[p].next, !.link = IF proc[p].clear THEN None ELSE @]

\* The update, and shouldAutoGrabSyncedRequest.
Upsert(c) ==
  LET link == IF proc[c].clear THEN None ELSE row.link IN
  /\ At(c, "upsert")
  /\ Write(c)
  /\ Become(c, IF proc[c].next \in AutoGrabbed /\ ~HasActive(link) /\ imported = None
               THEN SearchBest(FALSE, "webhook") ELSE IdleProc)
  /\ UNCHANGED <<dl, imported, blocked, cool, recovering, moves>>

\* deleteDownload: the document of the download stays.
Delete(r) ==
  /\ Move("delete") /\ dl[r] \in {"queued", "available", "failed"}
  /\ dl' = [dl EXCEPT ![r] = "deleted"]
  /\ UNCHANGED <<row, imported, blocked, cool, recovering, proc>>

\* The library no longer has a working import: its symlinks are broken or gone.
LoseImport ==
  /\ Move("loseImport") /\ imported # None
  /\ imported' = None
  /\ UNCHANGED <<row, dl, blocked, cool, recovering, proc>>

\* A cooldown lasts minutes or hours, a cycle seconds: that it ends between two
\* cycles bounds the cases.
Expire(k) ==
  /\ k \in cool /\ At(Cycle, "idle") /\ cool' = cool \ {k}
  /\ UNCHANGED <<row, dl, imported, blocked, recovering, moves, proc>>

-----------------------------------------------------------------------------
\* The recovery cycle: four passes over the requests, for this request.

CycleAt(pc) == At(Cycle, pc)
Enter(pc) == Only(Cycle, Stage(pc))
CycleWrite == Write(Cycle) /\ UNCHANGED <<dl, imported, blocked, cool, recovering, moves>>

\* effectiveRequestStatus
Effective(status, state) ==
  CASE state = "available" -> "available"
    [] state = "failed" -> IF status = "no_release_found" THEN status ELSE "approved"
    [] OTHER -> IF status = "grabbed" /\ state = "absent" THEN "approved" ELSE status

\* The timer starts the cycle: reconcileRequestLinkStates reads the row and its
\* download, then writes.
Reconcile ==
  LET next == Effective(row.status, Linked(row.link)) IN
  /\ CycleAt("idle")
  /\ IF (row.link = None /\ row.status # "grabbed") \/ (next = row.status /\ ~Dead(row.link))
     THEN Enter("monitored")
     ELSE Only(Cycle, [Stage("correct") EXCEPT !.next = next, !.clear = Dead(row.link)])

\* Mutant: the reconciliation sets the status and keeps the dead link.
Correct_KeepsLink ==
  /\ CycleAt("correct")
  /\ SetStatus(proc[Cycle].next)
  /\ Become(Cycle, Stage("monitored"))
  /\ UNCHANGED <<dl, imported, blocked, cool, recovering, moves>>

Correct ==
  /\ CycleAt("correct")
  /\ CycleWrite
  /\ Become(Cycle, Stage("monitored"))

\* Mutant: the download of the request is asked before the library.
Desired_DownloadFirst ==
  CASE HasActive(row.link) -> <<"grabbed", FALSE>>
    [] Linked(row.link) = "available" -> <<"available", FALSE>>
    [] Linked(row.link) = "failed" \/ (Linked(row.link) = "absent" /\ row.status = "grabbed")
         -> <<"approved", TRUE>>
    [] OTHER -> <<row.status, FALSE>>

\* desiredMovieRequestStatus: a status and whether the link is cleared.
Desired ==
  CASE imported # None -> <<"available", FALSE>>
    [] imported = None /\ HasActive(row.link) -> <<"grabbed", FALSE>>
    [] imported = None /\ Linked(row.link) = "available" -> <<"available", FALSE>>
    [] imported = None /\ (Linked(row.link) = "failed" \/ (Linked(row.link) = "absent" /\ row.status = "grabbed"))
         -> <<"approved", TRUE>>
    [] OTHER -> <<row.status, FALSE>>

\* The request is searched for, unless it is settled or cooling down.
Wanted(unsettled) ==
  IF unsettled /\ "wanted" \notin cool THEN SearchBest(TRUE, "cached") ELSE Stage("selected")

\* ensureMonitoredRequests, while the queue is below its seed target.
Monitor ==
  LET unsettled == imported = None /\ Dead(row.link) IN
  /\ CycleAt("monitored")
  /\ IF row.status \notin Monitored THEN Enter("selected")
     ELSE IF Desired = <<row.status, FALSE>> THEN Only(Cycle, Wanted(unsettled))
     ELSE Only(Cycle, [Stage("rewrite") EXCEPT !.next = Desired[1], !.clear = Desired[2], !.best = unsettled])

Rewrite ==
  /\ CycleAt("rewrite")
  /\ CycleWrite
  /\ Become(Cycle, Wanted(proc[Cycle].best))

\* withSoftTimeout: the pass goes on, and the grab goes on without it.
SoftTimeout(c) ==
  /\ "timeout" \in Allow /\ At(c, "idle") /\ proc[Cycle].then \in {"cached", "active"}
  /\ LET first == proc[Cycle].then = "cached" IN
     /\ proc' = [proc EXCEPT ![c] = [proc[Cycle] EXCEPT !.then = "end"],
                             ![Cycle] = IF first THEN SearchBest(FALSE, "active") ELSE Stage("selected")]
     /\ cool' = IF first THEN cool ELSE cool \union {"wanted"}
  /\ UNCHANGED <<row, dl, imported, blocked, recovering, moves>>

\* recoverSelectedReleaseDownloads
Selected ==
  /\ CycleAt("selected")
  /\ IF row.link # None \/ row.rel = None \/ row.status \notin Selectable THEN Enter("failed")
     ELSE IF imported # None THEN Only(Cycle, Grab("showImport", ImportLink, FALSE, FALSE, "selected"))
     ELSE Only(Cycle, Grab("checkRelease", row.rel, FALSE, FALSE, "selected"))

\* recoverFailedRequestDownloads
Failed ==
  /\ CycleAt("failed")
  /\ IF row.link # None /\ row.status # "available" /\ Dead(row.link)
     THEN /\ blocked' = IF Linked(row.link) = "failed" THEN blocked \union ({row.rel} \ {None}) ELSE blocked
          /\ Become(Cycle, Stage("failLink"))
          /\ UNCHANGED <<row, dl, imported, cool, recovering, moves>>
     ELSE Enter("idle")

FailLink ==
  /\ CycleAt("failLink")
  /\ Unlinked("release_failed")
  /\ Become(Cycle, SearchBest(FALSE, "last"))
  /\ UNCHANGED <<dl, imported, blocked, cool, recovering, moves>>

Pass == Reconcile \/ Correct \/ Monitor \/ Rewrite \/ Selected \/ Failed \/ FailLink

CallerStep(c) == GrabStep(c) \/ WorkerStep(c) \/ Upsert(c)
CycleStep == GrabStep(Cycle) \/ Pass
EndDownload(r) == \E c \in Caller : FailDownload(c, r) \/ FinishDownload(c, r)

Next ==
  \/ CycleStep
  \/ \E c \in Caller : CallerStep(c) \/ UserGrab(c) \/ Sync(c) \/ SoftTimeout(c)
  \/ \E r \in Release : EndDownload(r) \/ Delete(r)
  \/ UserStatus \/ LoseImport
  \/ \E k \in cool : Expire(k)

Spec == Init /\ [][Next]_vars

\* Calls go on, the cycle is started again by its timer, cooldowns end, and
\* workers end what is queued (DownloadQueue: Settles).
Fairness ==
  /\ WF_vars(CycleStep)
  /\ \A c \in Caller : WF_vars(CallerStep(c))
  /\ \A r \in Release : SF_vars(EndDownload(r))
  /\ \A k \in {"grab", "wanted"} : SF_vars(Expire(k))

FairSpec == Spec /\ Fairness

-----------------------------------------------------------------------------
Pc == {"idle", "check", "showImport", "load", "nothing", "checkRelease", "refuse", "try", "add", "giveBack", "attach",
       "link", "blocklist", "exhausted", "unlink", "resolve", "release", "defer", "imported", "upsert", "correct",
       "monitored", "rewrite", "selected", "failed", "failLink"}
Then == {"end", "recovery", "webhook", "cached", "active", "selected", "dropped", "last"}
ProcState == [pc : Pc, r : Release \union {None}, best : BOOLEAN, cached : BOOLEAN, then : Then,
              next : Status \union {None}, clear : BOOLEAN]

TypeOK ==
  /\ row \in [status : Status, rel : Release \union {None}, link : Release \union {None}]
  /\ proc \in [Proc -> ProcState]
  /\ dl \in [Release -> DownloadState]
  /\ imported \in Release \union {None}
  /\ blocked \subseteq Release
  /\ cool \subseteq {"grab", "wanted"}
  /\ recovering \in BOOLEAN
  /\ moves \in 0..MaxMoves

\* The entry that turns recoveries away belongs to one that is in progress.
NoLeakedRecovery ==
  recovering => \E c \in Caller : proc[c].then = "recovery"

\* Every call ends, and every cycle.
CallsEnd == \A p \in Proc : ~At(p, "idle") ~> At(p, "idle")

\* A link to a download that failed or is gone does not stay.
DeadLink == row.link # None /\ Dead(row.link)
LinkHealed == DeadLink ~> ~DeadLink

\* A request does not stay grabbed with nothing being downloaded for it.
FalselyGrabbed == row.status = "grabbed" /\ ~HasActive(row.link)
GrabbedHealed == FalselyGrabbed ~> ~FalselyGrabbed

\* What the library has, the request shows.
ImportShown ==
  (imported # None /\ row.status \in Monitored) ~> (row.status \notin Monitored \ {"available"} \/ imported = None)
\* A request whose recovery was deferred is searched for again, once the
\* cooldown is over.
SearchedAgain ==
  \A c \in Caller : At(c, "defer") ~> (imported # None \/ \E p \in Proc : At(p, "load"))
=============================================================================
