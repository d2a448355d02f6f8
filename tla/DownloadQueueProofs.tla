------------------------ MODULE DownloadQueueProofs ------------------------
(***************************************************************************)
(* For every set of downloads, slots and handlers and every bound: the     *)
(* type invariant of DownloadQueue and ActiveIsHeld, whatever users do;    *)
(* NoSecondJob and OneWorkerPerDownload (Unhurried), DecidedStays (Calm)   *)
(* and NoOrphan (Direct), where the hypothesis names the moves allowed.    *)
(* What TLC finds about the other moves is in README.md.                   *)
(***************************************************************************)
EXTENDS DownloadQueue, TLAPS

\* The updates the actions are made of stay inside the types.
LEMMA TypeUpdate ==
  ASSUME RowOK, NEW d, NEW status, NEW n, Update(d, status, n),
         d \in Download => status \in RowStatus /\ n \in JobId \union {NoJob}
  PROVE  RowOK'
BY DEF RowOK, Update

LEMMA TypeSetStatus ==
  ASSUME RowOK, NEW d, NEW status \in RowStatus, SetStatus(d, status)
  PROVE  RowOK'
<1>1. d \in Download => row[d].job \in JobId \union {NoJob}
  BY DEF RowOK
<1> QED BY <1>1, TypeUpdate DEF SetStatus

LEMMA TypeSetJob ==
  ASSUME RowOK, NEW d, NEW n \in JobId \union {NoJob}, SetJob(d, n)
  PROVE  RowOK'
<1>1. d \in Download => row[d].status \in RowStatus
  BY DEF RowOK
<1> QED BY <1>1, TypeUpdate DEF SetJob

LEMMA TypeStored ==
  ASSUME RowOK, NEW d, row' = IF Exists(d) THEN [row EXCEPT ![d].doc = TRUE] ELSE row
  PROVE  RowOK'
BY DEF RowOK

LEMMA TypeState ==
  ASSUME JobOK, NEW d \in Download, NEW n \in JobId, NEW state \in JobState,
         job' = [job EXCEPT ![d][n].state = state]
  PROVE  JobOK'
<1> DEFINE one == [job[d] EXCEPT ![n].state = state]
<1>1. one \in [JobId -> [state : JobState, doc : BOOLEAN]]
  BY DEF JobOK
<1>2. job' = [job EXCEPT ![d] = one]
  BY DEF JobOK
<1> HIDE DEF one
<1> QED BY <1>1, <1>2 DEF JobOK

LEMMA TypeQueue ==
  ASSUME JobOK, NEW d, NEW n, NEW state \in JobState, NEW doc,
         d \in Download => doc \in BOOLEAN, Queue(d, n, state, doc)
  PROVE  JobOK'
<1>1. n \in JobId
  BY DEF Queue, JobId
<1> QED BY <1>1 DEF JobOK, Queue

LEMMA TypeGoto ==
  ASSUME TypeOK, NEW w \in Worker, NEW pc \in WorkerPc, worker[w].pc # "idle", Goto(w, pc)
  PROVE  /\ WorkerOK'
         /\ \A v \in Worker : worker'[v].pc # "idle" => worker'[v].d \in Download /\ worker'[v].n \in JobId
BY DEF TypeOK, WorkerOK, Goto

LEMMA TypeInit == Init => TypeOK
<1> SUFFICES ASSUME Init PROVE TypeOK
  OBVIOUS
<1> USE DEF Init
<1>1. RowOK /\ JobOK
  BY DEF RowOK, JobOK, RowStatus, JobState, NoJob, JobId
<1>2. WorkerOK /\ HandlerOK
  BY DEF WorkerOK, HandlerOK, NoWorker, NoHandler, WorkerPc
<1>3. ViewOK /\ RecOK /\ BootOK
  BY DEF ViewOK, RecOK, BootOK, NoView, NoRec, RowStatus, JobState
<1> QED BY <1>1, <1>2, <1>3, Bounds DEF TypeOK, NoWorker

\* One step per action of a slot: the row, the queue and the slot itself.
LEMMA TypeWork ==
  ASSUME TypeOK, NEW w \in Worker, Work(w)
  PROVE  TypeOK'
<1> DEFINE d == worker[w].d
<1>0. SUFFICES ASSUME worker[w].pc # "idle"
               PROVE  TypeOK'
  BY DEF Work, Load, Capacity, Fetch, Fetched, Plan, Mount, Verify, Import, Backoff, BackoffAdd, BackoffLink,
         RefreshAdd, RefreshLink, Requeue, PrioAdd, PrioLink, Decide, Finish
<1>1. d \in Download /\ worker[w].n \in JobId /\ worker[w].m \in JobId \union {NoJob}
  BY <1>0 DEF TypeOK, WorkerOK
<1>2. job[d][worker[w].n].doc \in BOOLEAN
  BY <1>1 DEF TypeOK, JobOK
<1>3. Exists(d) \in BOOLEAN
  BY DEF Exists
<1>t. RowOK /\ JobOK
  BY DEF TypeOK
<1>4. ASSUME RowOK', JobOK', OnlyWorker, NEW pc \in WorkerPc, Goto(w, pc)
      PROVE  TypeOK'
  BY <1>0, <1>4, TypeGoto DEF TypeOK, OnlyWorker, HandlerOK, ViewOK, RecOK, BootOK
<1>5. ASSUME UNCHANGED row PROVE RowOK'
  BY <1>5 DEF TypeOK, RowOK
<1>6. ASSUME UNCHANGED job PROVE JobOK'
  BY <1>6 DEF TypeOK, JobOK
<1>p. /\ {"idle", "load", "capacity", "fetch", "fetching", "plan", "mount", "verify", "import", "backoff",
          "backoffAdd", "backoffLink", "refreshAdd", "refreshLink", "prioAdd", "prioLink", "decide",
          "finish"} \subseteq WorkerPc
      /\ {"failed", "cancelled", "fetching_nzb", "verifying", "waiting_for_provider", "prepared",
          "available", "queued"} \subseteq RowStatus
      /\ {"waiting", "delayed", "active", "over"} \subseteq JobState
      /\ Prio \in JobId
  BY DEF WorkerPc, RowStatus, ActiveLike, JobState, Live, JobId
<1>10. CASE Load(w) \/ Capacity(w) \/ Plan(w)
  BY <1>10, <1>4, <1>5, <1>6, <1>p DEF Load, Capacity, Plan
<1>11. CASE Fetch(w)
  <2>1. RowOK'
    BY <1>11, <1>p, <1>t, TypeSetStatus DEF Fetch
  <2> QED BY <1>11, <2>1, <1>4, <1>6, <1>p DEF Fetch
<1>12. CASE Fetched(w)
  <2>1. ASSUME row' = IF Exists(d) THEN [row EXCEPT ![d].doc = TRUE] ELSE row
        PROVE  RowOK'
    BY <2>1, <1>t, TypeStored
  <2>2. ASSUME NEW status \in {"failed", "cancelled"}, SetStatus(d, status)
        PROVE  RowOK'
    BY <2>2, <1>p, <1>t, TypeSetStatus
  <2>3. RowOK'
    BY <1>12, <2>1, <2>2, <1>5 DEF Fetched
  <2> QED BY <1>12, <2>3, <1>4, <1>6, <1>p DEF Fetched
<1>13. CASE Mount(w)
  <2>1. RowOK'
    BY <1>13, <1>5, <1>p, <1>t, TypeSetStatus DEF Mount
  <2> QED BY <1>13, <2>1, <1>4, <1>6, <1>p DEF Mount
<1>14. CASE Verify(w)
  <2>1. RowOK'
    BY <1>14, <1>5, <1>p, <1>t, TypeSetStatus DEF Verify
  <2> QED BY <1>14, <2>1, <1>4, <1>6, <1>p DEF Verify
<1>15. CASE Import(w)
  <2>1. RowOK'
    BY <1>15, <1>5, <1>p, <1>t, TypeSetStatus DEF Import
  <2> QED BY <1>15, <2>1, <1>4, <1>6, <1>p DEF Import
<1>16. CASE Backoff(w)
  <2>1. RowOK'
    BY <1>16, <1>p, <1>t, TypeSetStatus DEF Backoff
  <2> QED BY <1>16, <2>1, <1>4, <1>6, <1>p DEF Backoff
<1>17. ASSUME NEW pc, NEW state \in JobState, NEW next \in WorkerPc, Requeue(w, pc, state, next)
       PROVE  TypeOK'
  <2>1. PICK n \in AutoId : /\ Queue(d, n, state, job[d][worker[w].n].doc)
                            /\ worker' = [worker EXCEPT ![w].m = n, ![w].pc = next]
    BY <1>17 DEF Requeue
  <2>2. JobOK'
    BY <2>1, <1>2, <1>t, TypeQueue
  <2>3. /\ WorkerOK'
        /\ \A v \in Worker : worker'[v].pc # "idle" => worker'[v].d \in Download /\ worker'[v].n \in JobId
    BY <2>1, <1>0 DEF TypeOK, WorkerOK, JobId
  <2>4. UNCHANGED row /\ OnlyWorker
    BY <1>17 DEF Requeue
  <2> QED BY <2>2, <2>3, <2>4, <1>5 DEF OnlyWorker, TypeOK, HandlerOK, ViewOK, RecOK, BootOK
<1>18. CASE BackoffAdd(w) \/ RefreshAdd(w)
  BY <1>18, <1>17, <1>p DEF BackoffAdd, RefreshAdd
<1>19. CASE BackoffLink(w)
  <2>1. RowOK'
    BY <1>19, <1>1, <1>t, TypeSetJob DEF BackoffLink
  <2> QED BY <1>19, <2>1, <1>4, <1>6, <1>p DEF BackoffLink
<1>20. CASE RefreshLink(w)
  <2>1. RowOK'
    BY <1>20, <1>1, <1>p, <1>t, TypeUpdate DEF RefreshLink
  <2> QED BY <1>20, <2>1, <1>4, <1>6, <1>p DEF RefreshLink
<1>21. CASE PrioAdd(w)
  <2>1. QueuePrio(d, job[d][worker[w].n].doc)
    BY <1>21 DEF PrioAdd
  <2>2. JobOK'
    BY <2>1, <1>2, <1>p, <1>t DEF QueuePrio, JobOK
  <2> QED BY <1>21, <2>2, <1>4, <1>5, <1>p DEF PrioAdd
<1>22. CASE PrioLink(w)
  <2>1. RowOK'
    BY <1>22, <1>p, <1>t, TypeUpdate DEF PrioLink
  <2> QED BY <1>22, <2>1, <1>4, <1>6, <1>p DEF PrioLink
<1>23. CASE Decide(w)
  <2>1. RowOK'
    BY <1>23, <1>p, <1>t, TypeSetStatus DEF Decide
  <2> QED BY <1>23, <2>1, <1>4, <1>6, <1>p DEF Decide
<1>24. CASE Finish(w)
  <2>1. JobOK'
    BY <1>24, <1>1, <1>p, <1>t, TypeState DEF Finish
  <2>2. /\ WorkerOK'
        /\ \A v \in Worker : worker'[v].pc # "idle" => worker'[v].d \in Download /\ worker'[v].n \in JobId
    BY <1>24, <1>p DEF Finish, NoWorker, TypeOK, WorkerOK
  <2> QED BY <1>24, <2>1, <2>2, <1>5 DEF Finish, OnlyWorker, TypeOK, HandlerOK, ViewOK, RecOK, BootOK
<1> QED BY <1>10, <1>11, <1>12, <1>13, <1>14, <1>15, <1>16, <1>18, <1>19, <1>20, <1>21, <1>22, <1>23, <1>24 DEF Work

\* What every action that leaves the slots alone has to show.
LEMMA TypeRest ==
  ASSUME TypeOK, RowOK', JobOK', HandlerOK', ViewOK', RecOK', BootOK', UNCHANGED <<worker, crashes>>
  PROVE  TypeOK'
BY DEF TypeOK, WorkerOK

LEMMA TypeSame ==
  ASSUME TypeOK
  PROVE  /\ UNCHANGED row => RowOK'
         /\ UNCHANGED job => JobOK'
         /\ UNCHANGED handler => HandlerOK'
         /\ UNCHANGED view => ViewOK'
         /\ UNCHANGED rec => RecOK'
         /\ UNCHANGED boot => BootOK'
BY DEF TypeOK, RowOK, JobOK, HandlerOK, ViewOK, RecOK, BootOK

\* A request in progress, and one field of its record at a time.
HandlerState == [pc : {"idle", "storing", "naming", "adding", "linking"}, d : Download \union {Null},
                 m : JobId \union {NoJob}, doc : BOOLEAN, kind : {"upload", "url", "retry"}]

LEMMA HandlerUpdate ==
  ASSUME HandlerOK, NEW h \in Handler, NEW pc \in {"idle", "storing", "naming", "adding", "linking"}
  PROVE  /\ handler' = [handler EXCEPT ![h].doc = TRUE, ![h].pc = pc] => HandlerOK'
         /\ \A n \in JobId : handler' = [handler EXCEPT ![h].pc = pc, ![h].m = n] => HandlerOK'
<1>1. handler \in [Handler -> HandlerState]
  BY DEF HandlerOK, HandlerState
<1>2. HandlerOK' <=> handler' \in [Handler -> HandlerState]
  BY DEF HandlerOK, HandlerState
<1> DEFINE one == [[handler[h] EXCEPT !.doc = TRUE] EXCEPT !.pc = pc]
           two(n) == [[handler[h] EXCEPT !.pc = pc] EXCEPT !.m = n]
<1>3. handler[h] \in HandlerState
  BY <1>1
<1>4. one \in HandlerState
  BY <1>3 DEF HandlerState
<1>5. ASSUME NEW n \in JobId
      PROVE  two(n) \in HandlerState
  BY <1>3 DEF HandlerState
<1>6. ASSUME handler' = [handler EXCEPT ![h].doc = TRUE, ![h].pc = pc]
      PROVE  handler' = [handler EXCEPT ![h] = one]
  BY <1>1, <1>6
<1>7. ASSUME NEW n \in JobId, handler' = [handler EXCEPT ![h].pc = pc, ![h].m = n]
      PROVE  handler' = [handler EXCEPT ![h] = two(n)]
  BY <1>1, <1>7
<1> HIDE DEF one, two, HandlerState
<1>8. ASSUME NEW x \in HandlerState, handler' = [handler EXCEPT ![h] = x]
      PROVE  handler' \in [Handler -> HandlerState]
  BY <1>1, <1>8
<1> QED BY <1>2, <1>4, <1>5, <1>6, <1>7, <1>8

LEMMA TypeHandler ==
  ASSUME HandlerOK, NEW h \in Handler
  PROVE  /\ \A pc \in {"idle", "storing", "naming", "adding", "linking"} : Proceed(h, pc) => HandlerOK'
         /\ EndHandler(h) => HandlerOK'
<1>1. NoHandler \in [pc : {"idle", "storing", "naming", "adding", "linking"}, d : Download \union {Null},
                     m : JobId \union {NoJob}, doc : BOOLEAN, kind : {"upload", "url", "retry"}]
  BY DEF NoHandler
<1> QED BY <1>1 DEF HandlerOK, Proceed, EndHandler

LEMMA TypeServe ==
  ASSUME TypeOK, NEW h \in Handler, Serve(h)
  PROVE  TypeOK'
<1> DEFINE d == handler[h].d
<1>t. RowOK /\ JobOK /\ HandlerOK
  BY DEF TypeOK
<1>1. ASSUME RowOK', JobOK', HandlerOK', OnlyHandler
      PROVE  TypeOK'
  BY <1>1, TypeRest, TypeSame DEF OnlyHandler
<1>2. handler[h].m \in JobId \union {NoJob} /\ handler[h].doc \in BOOLEAN
  BY <1>t DEF HandlerOK
<1>3. {"failed", "cancelled", "queued"} \subseteq RowStatus
  BY DEF RowStatus, ActiveLike
<1>4. CASE AddStored(h)
  <2>1. CASE row' = (IF Exists(d) THEN [row EXCEPT ![d].doc = TRUE] ELSE row)
             /\ handler' = [handler EXCEPT ![h].doc = TRUE,
                                           ![h].pc = IF handler[h].kind = "url" THEN "naming" ELSE "adding"]
    <3>1. RowOK'
      BY <2>1, <1>t, TypeStored
    <3>2. HandlerOK'
      <4> DEFINE pc == IF handler[h].kind = "url" THEN "naming" ELSE "adding"
      <4>1. pc \in {"idle", "storing", "naming", "adding", "linking"}
        OBVIOUS
      <4>2. handler' = [handler EXCEPT ![h].doc = TRUE, ![h].pc = pc]
        BY <2>1
      <4> HIDE DEF pc
      <4> QED BY <4>1, <4>2, <1>t, HandlerUpdate
    <3> QED BY <1>4, <3>1, <3>2, <1>1, TypeSame DEF AddStored
  <2>2. ASSUME NEW status \in {"failed", "cancelled"}, SetStatus(d, status), EndHandler(h)
        PROVE  TypeOK'
    <3>1. RowOK'
      BY <2>2, <1>3, <1>t, TypeSetStatus
    <3> QED BY <1>4, <2>2, <3>1, <1>1, <1>t, TypeHandler, TypeSame DEF AddStored
  <2> QED BY <1>4, <2>1, <2>2 DEF AddStored
<1>5. CASE AddNamed(h)
  <2>1. RowOK'
    BY <1>5, <1>3, <1>t, TypeSetStatus DEF AddNamed
  <2>2. HandlerOK'
    BY <1>5, <1>t, TypeHandler DEF AddNamed
  <2> QED BY <1>5, <2>1, <2>2, <1>1, TypeSame DEF AddNamed
<1>6. CASE HandlerAdd(h)
  <2>1. PICK n \in AutoId : /\ Queue(d, n, "waiting", handler[h].doc)
                            /\ handler' = [handler EXCEPT ![h].pc = "linking", ![h].m = n]
    BY <1>6 DEF HandlerAdd
  <2>2. JobOK'
    BY <2>1, <1>2, <1>t, TypeQueue DEF JobState, Live
  <2>3. HandlerOK'
    <3>1. n \in JobId
      BY DEF JobId
    <3> QED BY <2>1, <3>1, <1>t, HandlerUpdate
  <2>4. UNCHANGED row /\ OnlyHandler
    BY <1>6 DEF HandlerAdd
  <2> QED BY <2>2, <2>3, <2>4, <1>1, TypeSame
<1>7. CASE HandlerLink(h)
  <2>1. d \in Download => row[d].status \in RowStatus
    BY <1>t DEF RowOK
  <2>2. RowOK'
    BY <1>7, <2>1, <1>2, <1>3, <1>t, TypeUpdate DEF HandlerLink
  <2> QED BY <1>7, <2>2, <1>1, <1>t, TypeHandler, TypeSame DEF HandlerLink
<1> QED BY <1>4, <1>5, <1>6, <1>7 DEF Serve

LEMMA TypeUser ==
  ASSUME TypeOK, User
  PROVE  TypeOK'
<1>t. RowOK /\ JobOK /\ HandlerOK /\ ViewOK /\ RecOK
  BY DEF TypeOK
<1>1. ASSUME NEW h \in Handler, NEW d \in Download, Retry(h, d)
      PROVE  TypeOK'
  <2>1. row[d].doc \in BOOLEAN
    BY <1>t DEF RowOK
  <2>2. HandlerOK'
    BY <1>1, <2>1, <1>t DEF Retry, HandlerOK, NoHandler
  <2> QED BY <1>1, <2>2, TypeRest, TypeSame DEF Retry, OnlyHandler
<1>2. ASSUME NEW h \in Handler, NEW d \in Download, NEW kind \in {"upload", "url"}, AddCreate(h, d, kind)
      PROVE  TypeOK'
  <2>1. RowOK'
    BY <1>2, <1>t DEF AddCreate, RowOK, RowStatus, ActiveLike
  <2>2. HandlerOK'
    BY <1>2, <1>t DEF AddCreate, HandlerOK, NoHandler
  <2> QED BY <1>2, <2>1, <2>2, TypeRest, TypeSame DEF AddCreate, OnlyHandler
<1>3. ASSUME NEW d \in Download, NEW move, NEW status \in RowStatus, SetByUser(d, move, status)
      PROVE  TypeOK'
  <2>1. RowOK'
    BY <1>3, <1>t, TypeSetStatus DEF SetByUser
  <2> QED BY <1>3, <2>1, TypeRest, TypeSame DEF SetByUser
<1>4. ASSUME NEW d \in Download, Stop(d) \/ SabResume(d) \/ Delete(d)
      PROVE  TypeOK'
  <2>1. {"paused", "cancelled", "queued", "deleted"} \subseteq RowStatus
    BY DEF RowStatus, ActiveLike
  <2> QED BY <1>3, <1>4, <2>1 DEF Stop, SabResume, Delete
<1>5. ASSUME NEW d \in Download, ViewRow(d)
      PROVE  TypeOK'
  <2>1. row[d].status \in RowStatus /\ row[d].job \in JobId \union {NoJob}
    BY <1>t DEF RowOK
  <2>2. NoView \in [pc : {"idle", "rowRead", "jobsRead", "write"}, d : Download \union {Null}, status : RowStatus,
                    job : JobId \union {NoJob}, live : JobId \union {NoJob}, state : JobState]
    BY DEF NoView, RowStatus, JobState
  <2>3. ViewOK'
    BY <1>5, <2>1, <2>2, <1>t DEF ViewRow, ViewOK
  <2> QED BY <1>5, <2>3, TypeRest, TypeSame DEF ViewRow, OnlyView
<1>6. ASSUME NEW d \in Download, ViewJobs(d)
      PROVE  TypeOK'
  <2>1. PICK n \in JobId \union {NoJob}, state \in JobState :
          view' = IF view.pc = "idle"
                  THEN [NoView EXCEPT !.pc = "jobsRead", !.d = d, !.live = n, !.state = state]
                  ELSE [view EXCEPT !.pc = "write", !.live = n, !.state = state]
    BY <1>6 DEF ViewJobs
  <2>2. ViewOK'
    <3>1. "absent" \in RowStatus /\ "none" \in JobState
      BY DEF RowStatus, JobState
    <3>2. CASE view.pc = "idle"
      BY <2>1, <3>1, <3>2 DEF ViewOK, NoView
    <3>3. CASE view.pc # "idle"
      BY <2>1, <3>3, <1>t DEF ViewOK
    <3> QED BY <3>2, <3>3
  <2> QED BY <1>6, <2>2, TypeRest, TypeSame DEF ViewJobs, OnlyView
<1>7. ASSUME RecStart
      PROVE  TypeOK'
  <2>1. RecOK'
    BY <1>7 DEF RecStart, RecOK, NoRec
  <2> QED BY <1>7, <2>1, TypeRest, TypeSame DEF RecStart, OnlyRec
<1> QED BY <1>1, <1>2, <1>4, <1>5, <1>6, <1>7 DEF User

LEMMA TypeViewWrite ==
  ASSUME TypeOK, ViewWrite
  PROVE  TypeOK'
<1>1. ViewStatus \in RowStatus /\ ViewJob \in JobId \union {NoJob}
  BY DEF ViewStatus, ViewJob, TypeOK, ViewOK, RowStatus, ActiveLike
<1>2. RowOK'
  BY <1>1, TypeUpdate, TypeSame DEF ViewWrite, TypeOK
<1>3. ViewOK'
  BY DEF ViewWrite, ViewOK, NoView, RowStatus, JobState
<1> QED BY <1>2, <1>3, TypeRest, TypeSame DEF ViewWrite, OnlyView

LEMMA TypeRecover ==
  ASSUME TypeOK, Recover
  PROVE  TypeOK'
<1>t. RowOK /\ JobOK /\ RecOK
  BY DEF TypeOK
<1>0. ASSUME RowOK', JobOK', RecOK', OnlyRec
      PROVE  TypeOK'
  BY <1>0, TypeRest, TypeSame DEF OnlyRec
<1>q. "queued" \in RowStatus
  BY DEF RowStatus, ActiveLike
<1>1. CASE RecScan
  <2>1. {[d |-> d, job |-> row[d].job, doc |-> row[d].doc] : d \in {e \in Download : row[e].status \in ActiveLike}}
          \subseteq [d : Download, job : JobId \union {NoJob}, doc : BOOLEAN]
    BY <1>t DEF RowOK
  <2>2. RecOK'
    BY <1>1, <2>1 DEF RecScan, RecOK, NoRec
  <2> QED BY <1>1, <2>2, <1>0, TypeSame DEF RecScan
<1>2. CASE RecEnd
  <2>1. RecOK'
    BY <1>2 DEF RecEnd, RecOK, NoRec
  <2> QED BY <1>2, <2>1, <1>0, TypeSame DEF RecEnd
<1>3. CASE RecSync
  <2>1. RowOK'
    BY <1>3, <1>t, TypeSetJob DEF RecSync, RecOK
  <2>2. RecOK'
    BY <1>3, <1>t DEF RecSync, RecOK
  <2> QED BY <1>3, <2>1, <2>2, <1>0, TypeSame DEF RecSync
<1>4. CASE RecAdd
  <2>1. PICK n \in AutoId : /\ Queue(rec.d, n, "waiting", rec.doc)
                            /\ rec' = [rec EXCEPT !.pc = "link", !.m = n]
    BY <1>4 DEF RecAdd
  <2>2. JobOK'
    BY <2>1, <1>t, TypeQueue DEF JobState, Live, RecOK
  <2>3. RecOK'
    BY <2>1, <1>t DEF RecOK, JobId
  <2>4. UNCHANGED row /\ OnlyRec
    BY <1>4 DEF RecAdd
  <2> QED BY <2>2, <2>3, <2>4, <1>0, TypeSame
<1>5. CASE RecLink
  <2>1. RowOK'
    BY <1>5, <1>q, <1>t, TypeUpdate DEF RecLink, RecOK
  <2>2. RecOK'
    BY <1>5, <1>t DEF RecLink, RecOK
  <2> QED BY <1>5, <2>1, <2>2, <1>0, TypeSame DEF RecLink
<1>6. ASSUME NEW i \in rec.todo, RecLook(i)
      PROVE  TypeOK'
  <2>1. i.d \in Download /\ i.doc \in BOOLEAN
    BY <1>t DEF RecOK
  <2>2. UNCHANGED <<row, job>> /\ OnlyRec
    BY <1>6 DEF RecLook
  <2>3. ASSUME NEW n \in JobId, NEW pc \in {"loop", "sync"},
               rec' = [rec EXCEPT !.todo = @ \ {i}, !.d = i.d, !.m = n, !.pc = pc]
        PROVE  RecOK'
    BY <2>3, <2>1, <1>t DEF RecOK
  <2>4. ASSUME NEW pc \in {"loop", "add"},
               rec' = [rec EXCEPT !.todo = @ \ {i}, !.d = i.d, !.doc = i.doc, !.pc = pc]
        PROVE  RecOK'
    BY <2>4, <2>1, <1>t DEF RecOK
  <2>5. RecOK'
    BY <1>6, <2>3, <2>4 DEF RecLook
  <2> QED BY <2>2, <2>5, <1>0, TypeSame
<1> QED BY <1>1, <1>2, <1>3, <1>4, <1>5, <1>6 DEF Recover

LEMMA TypeBoot ==
  ASSUME TypeOK, Boot
  PROVE  TypeOK'
<1>t. RowOK /\ JobOK /\ BootOK
  BY DEF TypeOK
<1>0. ASSUME RowOK', JobOK', BootOK', OnlyBoot
      PROVE  TypeOK'
  BY <1>0, TypeRest, TypeSame DEF OnlyBoot
<1>q. {"queued", "failed"} \subseteq RowStatus
  BY DEF RowStatus, ActiveLike
<1>1. CASE Listen
  <2>1. BootOK'
    BY <1>1, <1>t DEF Listen, BootOK
  <2> QED BY <1>1, <2>1, <1>0, TypeSame DEF Listen
<1>2. CASE Obliterate
  <2>1. BootOK'
    BY <1>2, <1>t DEF Obliterate, BootOK
  <2>2. JobOK'
    BY <1>2 DEF Obliterate, JobOK, JobState
  <2> QED BY <1>2, <2>1, <2>2, <1>0, TypeSame DEF Obliterate
<1>3. CASE BootScan
  <2>1. {[d |-> d, doc |-> row[d].doc] : d \in {e \in Download : row[e].status \in Rebuilt}}
          \subseteq [d : Download, doc : BOOLEAN]
    BY <1>t DEF RowOK
  <2>2. BootOK'
    BY <1>3, <2>1, <1>t DEF BootScan, BootOK
  <2> QED BY <1>3, <2>2, <1>0, TypeSame DEF BootScan
<1>4. CASE BootLink
  <2>1. RowOK'
    BY <1>4, <1>q, <1>t, TypeUpdate DEF BootLink, BootOK
  <2>2. BootOK'
    BY <1>4, <1>t DEF BootLink, BootOK
  <2> QED BY <1>4, <2>1, <2>2, <1>0, TypeSame DEF BootLink
<1>5. CASE BootNext
  <2>1. BootOK'
    BY <1>5, <1>t DEF BootNext, BootOK
  <2>2. RecOK'
    BY <1>5, TypeSame DEF BootNext, RecOK, NoRec, TypeOK
  <2> QED BY <1>5, <2>1, <2>2, TypeRest, TypeSame DEF BootNext
<1>6. ASSUME NEW i \in boot.todo, BootFail(i)
      PROVE  TypeOK'
  <2>1. RowOK'
    BY <1>6, <1>q, <1>t, TypeSetStatus, TypeSame DEF BootFail
  <2>2. BootOK'
    BY <1>6, <1>t DEF BootFail, BootOK
  <2> QED BY <1>6, <2>1, <2>2, <1>0, TypeSame DEF BootFail
<1>7. ASSUME NEW i \in boot.todo, BootAdd(i)
      PROVE  TypeOK'
  <2>0. i.d \in Download
    BY <1>t DEF BootOK
  <2>1. PICK n \in AutoId : /\ Queue(i.d, n, "waiting", TRUE)
                            /\ boot' = [boot EXCEPT !.pc = "link", !.todo = @ \ {i}, !.d = i.d, !.m = n]
    BY <1>7 DEF BootAdd
  <2>2. JobOK'
    BY <2>1, <1>t, TypeQueue DEF JobState, Live
  <2>3. BootOK'
    BY <2>0, <2>1, <1>t DEF BootOK, JobId
  <2>4. UNCHANGED row /\ OnlyBoot
    BY <1>7 DEF BootAdd
  <2> QED BY <2>2, <2>3, <2>4, <1>0, TypeSame
<1> QED BY <1>1, <1>2, <1>3, <1>4, <1>5, <1>6, <1>7 DEF Boot

LEMMA TypeCrash ==
  ASSUME TypeOK, Crash
  PROVE  TypeOK'
<1>1. WorkerOK' /\ \A w \in Worker : worker'[w].pc = "idle"
  BY DEF Crash, WorkerOK, NoWorker, WorkerPc
<1>2. HandlerOK'
  BY DEF Crash, HandlerOK, NoHandler
<1>3. ViewOK' /\ RecOK' /\ BootOK'
  BY DEF Crash, ViewOK, RecOK, BootOK, NoView, NoRec, RowStatus, JobState
<1>4. crashes' \in 0..MaxCrashes
  BY Bounds DEF Crash, TypeOK
<1> QED BY <1>1, <1>2, <1>3, <1>4, TypeSame DEF Crash, TypeOK

LEMMA TypeNext ==
  ASSUME TypeOK, [Next]_vars
  PROVE  TypeOK'
<1>t. RowOK /\ JobOK /\ BootOK
  BY DEF TypeOK
<1>s. {"waiting", "active", "over"} \subseteq JobState
  BY DEF JobState, Live
<1>1. ASSUME NEW w \in Worker, NEW d \in Download, NEW n \in JobId, Take(w, d, n)
      PROVE  TypeOK'
  <2>1. JobOK'
    BY <1>1, <1>s, <1>t, TypeState DEF Take
  <2>2. /\ WorkerOK'
        /\ \A v \in Worker : worker'[v].pc # "idle" => worker'[v].d \in Download /\ worker'[v].n \in JobId
    BY <1>1 DEF Take, TypeOK, WorkerOK, WorkerPc
  <2> QED BY <1>1, <2>1, <2>2, TypeSame DEF Take, OnlyWorker, TypeOK
<1>2. ASSUME NEW d \in Download, NEW n \in JobId, Promote(d, n)
      PROVE  TypeOK'
  <2>1. JobOK'
    BY <1>2, <1>s, <1>t, TypeState DEF Promote
  <2> QED BY <1>2, <2>1, TypeRest, TypeSame DEF Promote
<1>3. ASSUME NEW d \in Download, NEW n \in JobId, BootStale(d, n)
      PROVE  TypeOK'
  <2>1. JobOK'
    BY <1>3, <1>s, <1>t, TypeState DEF BootStale
  <2>2. RowOK'
    BY <1>3, <1>t, TypeUpdate DEF BootStale, RowStatus, ActiveLike
  <2>3. BootOK'
    BY <1>3, <1>t DEF BootStale, BootOK
  <2> QED BY <1>3, <2>1, <2>2, <2>3, TypeRest, TypeSame DEF BootStale, OnlyBoot
<1>4. ASSUME NEW d \in Download, Age(d)
      PROVE  TypeOK'
  <2>1. RowOK'
    BY <1>4, <1>t DEF Age, RowOK
  <2> QED BY <1>4, <2>1, TypeRest, TypeSame DEF Age
<1>5. CASE UNCHANGED vars
  BY <1>5, TypeRest, TypeSame DEF vars
<1> QED BY <1>1, <1>2, <1>3, <1>4, <1>5, TypeWork, TypeServe, TypeUser, TypeViewWrite, TypeRecover, TypeBoot,
           TypeCrash DEF Next

\* Rows, jobs, slots, requests, the view, recovery and startup keep their
\* types, and a busy slot always has a download and a job: a step of the job
\* machine never acts on a job it has not been given.
THEOREM TypeCorrect == Spec => []TypeOK
<1>1. TypeOK /\ [Next]_vars => TypeOK'
  BY TypeNext
<1> QED BY TypeInit, <1>1, PTL DEF Spec
-----------------------------------------------------------------------------
\* ActiveIsHeld is not inductive: while the process starts, jobs may be active
\* without a slot, and the queue is emptied before the slots take work again.

BootIdle == ~Serving => \A w \in Worker : worker[w].pc = "idle"
BootEmpty ==
  boot.pc \in {"scan", "loop", "link"} => \A d \in Download, n \in JobId : job[d][n].state # "active"
IdleFree == \A w \in Worker : worker[w].pc = "idle" => worker[w].n = NoJob
HeldInv == TypeOK /\ BootIdle /\ BootEmpty /\ IdleFree /\ ActiveIsHeld

\* No job begins or ceases to be active, and no slot takes or leaves a job.
SameHold ==
  /\ \A d \in Download, n \in JobId : job'[d][n].state = "active" <=> job[d][n].state = "active"
  /\ \A w \in Worker : /\ worker'[w].d = worker[w].d /\ worker'[w].n = worker[w].n
                       /\ worker'[w].pc = "idle" <=> worker[w].pc = "idle"

LEMMA HeldSame ==
  ASSUME HeldInv, TypeOK', SameHold, boot'.pc = boot.pc
  PROVE  HeldInv'
BY DEF HeldInv, BootIdle, BootEmpty, IdleFree, ActiveIsHeld, Serving, SameHold

LEMMA QueueSame ==
  ASSUME TypeOK, NEW d, NEW n, NEW state \in {"waiting", "delayed"}, NEW doc,
         Queue(d, n, state, doc)
  PROVE  \A e \in Download, k \in JobId : job'[e][k].state = "active" <=> job[e][k].state = "active"
<1>1. n \in JobId
  BY DEF Queue, JobId
<1> QED BY <1>1 DEF Queue, TypeOK, JobOK

LEMMA HeldWork ==
  ASSUME HeldInv, NEW w \in Worker, Work(w)
  PROVE  HeldInv'
<1> DEFINE d == worker[w].d
           n == worker[w].n
<1>t. TypeOK /\ WorkerOK /\ JobOK /\ TypeOK'
  BY TypeWork DEF HeldInv, TypeOK
<1>0. SUFFICES ASSUME worker[w].pc # "idle"
               PROVE  HeldInv'
  BY DEF Work, Load, Capacity, Fetch, Fetched, Plan, Mount, Verify, Import, Backoff, BackoffAdd, BackoffLink,
         RefreshAdd, RefreshLink, Requeue, PrioAdd, PrioLink, Decide, Finish
<1>1. d \in Download /\ n \in JobId
  BY <1>0, <1>t DEF TypeOK
<1>2. ASSUME UNCHANGED job, OnlyWorker, NEW pc, pc # "idle", Goto(w, pc)
      PROVE  HeldInv'
  <2>1. \A v \in Worker : /\ worker'[v].d = worker[v].d /\ worker'[v].n = worker[v].n
                          /\ worker'[v].pc = "idle" <=> worker[v].pc = "idle"
    BY <1>2, <1>0, <1>t DEF Goto, WorkerOK
  <2>2. SameHold
    BY <1>2, <2>1 DEF SameHold
  <2> QED BY <1>2, <2>2, <1>t, HeldSame DEF OnlyWorker
<1>3. CASE \/ Load(w) \/ Capacity(w) \/ Fetch(w) \/ Fetched(w) \/ Plan(w) \/ Mount(w) \/ Verify(w) \/ Import(w)
           \/ Backoff(w) \/ BackoffLink(w) \/ RefreshLink(w) \/ PrioLink(w) \/ Decide(w)
  BY <1>3, <1>2 DEF Load, Capacity, Fetch, Fetched, Plan, Mount, Verify, Import, Backoff, BackoffLink,
     RefreshLink, PrioLink, Decide
<1>4. ASSUME NEW pc, NEW state \in {"waiting", "delayed"}, NEW next, next # "idle", Requeue(w, pc, state, next)
      PROVE  HeldInv'
  <2>1. PICK k \in AutoId : /\ Queue(d, k, state, job[d][n].doc)
                            /\ worker' = [worker EXCEPT ![w].m = k, ![w].pc = next]
    BY <1>4 DEF Requeue
  <2>2. OnlyWorker
    BY <1>4 DEF Requeue
  <2>3. \A e \in Download, i \in JobId : job'[e][i].state = "active" <=> job[e][i].state = "active"
    BY <2>1, <1>1, <1>t, QueueSame
  <2>4. \A v \in Worker : /\ worker'[v].d = worker[v].d /\ worker'[v].n = worker[v].n
                          /\ worker'[v].pc = "idle" <=> worker[v].pc = "idle"
    BY <2>1, <1>4, <1>0, <1>t DEF WorkerOK
  <2> QED BY <2>2, <2>3, <2>4, <1>t, HeldSame DEF SameHold, OnlyWorker
<1>5. CASE BackoffAdd(w) \/ RefreshAdd(w)
  BY <1>5, <1>4 DEF BackoffAdd, RefreshAdd
<1>6. CASE PrioAdd(w)
  <2>1. QueuePrio(d, job[d][n].doc) /\ Goto(w, "prioLink") /\ OnlyWorker
    BY <1>6 DEF PrioAdd
  <2>2. \A e \in Download, i \in JobId : job'[e][i].state = "active" <=> job[e][i].state = "active"
    BY <2>1, <1>1, <1>t DEF QueuePrio, JobOK, JobId
  <2>3. \A v \in Worker : /\ worker'[v].d = worker[v].d /\ worker'[v].n = worker[v].n
                          /\ worker'[v].pc = "idle" <=> worker[v].pc = "idle"
    BY <2>1, <1>0, <1>t DEF Goto, WorkerOK
  <2> QED BY <2>1, <2>2, <2>3, <1>t, HeldSame DEF SameHold, OnlyWorker
<1>7. CASE Finish(w)
  <2>1. Serving /\ Serving'
    BY <1>7, <1>0 DEF HeldInv, BootIdle, Finish, OnlyWorker, Serving
  <2>2. /\ worker'[w] = NoWorker
        /\ \A v \in Worker \ {w} : worker'[v] = worker[v]
    BY <1>7, <1>t DEF Finish, WorkerOK
  <2>3. /\ job'[d][n].state = "over"
        /\ \A e \in Download, k \in JobId : <<e, k>> # <<d, n>> => job'[e][k] = job[e][k]
    BY <1>7, <1>1, <1>t DEF Finish, JobOK
  <2>4. BootIdle' /\ BootEmpty'
    BY <2>1 DEF BootIdle, BootEmpty, Serving
  <2>5. IdleFree'
    BY <2>2 DEF HeldInv, IdleFree, NoWorker
  <2>6. ASSUME NEW e \in Download, NEW k \in JobId, job'[e][k].state = "active"
        PROVE  \E v \in Worker : worker'[v].d = e /\ worker'[v].n = k
    <3>1. <<e, k>> # <<d, n>> /\ job[e][k].state = "active"
      BY <2>3, <2>6
    <3>2. PICK v \in Worker : worker[v].d = e /\ worker[v].n = k
      BY <3>1, <2>1 DEF HeldInv, ActiveIsHeld
    <3>3. v # w
      BY <3>1, <3>2
    <3> QED BY <3>2, <3>3, <2>2
  <2>7. ASSUME NEW e \in Download, NEW k \in JobId, NEW u \in Worker, NEW v \in Worker,
               worker'[u].d = e, worker'[v].d = e, worker'[u].n = k, worker'[v].n = k
        PROVE  u = v /\ job'[e][k].state = "active"
    <3>1. u # w /\ v # w
      BY <2>2, <2>7 DEF NoWorker, NoJob, JobId, AutoId, Prio
    <3>2. u = v /\ job[e][k].state = "active"
      BY <3>1, <2>1, <2>2, <2>7 DEF HeldInv, ActiveIsHeld
    <3>3. <<e, k>> # <<d, n>>
      BY <3>1, <2>1, <2>2, <2>7, <1>1 DEF HeldInv, ActiveIsHeld
    <3> QED BY <3>2, <3>3, <2>3
  <2>8. ActiveIsHeld'
    BY <2>6, <2>7 DEF ActiveIsHeld
  <2> QED BY <2>4, <2>5, <2>8, <1>t DEF HeldInv
<1> QED BY <1>3, <1>5, <1>6, <1>7 DEF Work

LEMMA HeldTake ==
  ASSUME HeldInv, NEW w \in Worker, NEW d \in Download, NEW n \in JobId, Take(w, d, n), TypeOK'
  PROVE  HeldInv'
<1>t. WorkerOK /\ JobOK
  BY DEF HeldInv, TypeOK
<1>1. Serving /\ Serving' /\ worker[w].pc = "idle" /\ job[d][n].state = "waiting"
  BY DEF Take, OnlyWorker, Serving
<1>2. /\ worker'[w].d = d /\ worker'[w].n = n /\ worker'[w].pc = "load"
      /\ \A v \in Worker \ {w} : worker'[v] = worker[v]
  BY <1>t DEF Take, WorkerOK
<1>3. /\ job'[d][n].state = "active"
      /\ \A e \in Download, k \in JobId : <<e, k>> # <<d, n>> => job'[e][k] = job[e][k]
  BY <1>t DEF Take, JobOK
<1>4. \A v \in Worker : ~(worker[v].d = d /\ worker[v].n = n)
  BY <1>1 DEF HeldInv, ActiveIsHeld
<1>5. BootIdle' /\ BootEmpty'
  BY <1>1 DEF BootIdle, BootEmpty, Serving
<1>6. IdleFree'
  BY <1>2 DEF HeldInv, IdleFree
<1>7. ASSUME NEW e \in Download, NEW k \in JobId, job'[e][k].state = "active"
      PROVE  \E v \in Worker : worker'[v].d = e /\ worker'[v].n = k
  <2>1. CASE <<e, k>> = <<d, n>>
    BY <2>1, <1>2
  <2>2. CASE <<e, k>> # <<d, n>>
    <3>1. PICK v \in Worker : worker[v].d = e /\ worker[v].n = k
      BY <2>2, <1>1, <1>3, <1>7 DEF HeldInv, ActiveIsHeld
    <3>2. v # w
      BY <3>1, <1>1 DEF HeldInv, IdleFree, NoJob, JobId, AutoId, Prio
    <3> QED BY <3>1, <3>2, <1>2
  <2> QED BY <2>1, <2>2
<1>8. ASSUME NEW e \in Download, NEW k \in JobId, NEW u \in Worker, NEW v \in Worker,
             worker'[u].d = e, worker'[v].d = e, worker'[u].n = k, worker'[v].n = k
      PROVE  u = v /\ job'[e][k].state = "active"
  <2>1. CASE u = w \/ v = w
    BY <2>1, <1>2, <1>3, <1>4, <1>8
  <2>2. CASE u # w /\ v # w
    BY <2>2, <1>1, <1>2, <1>3, <1>8 DEF HeldInv, ActiveIsHeld
  <2> QED BY <2>1, <2>2
<1>9. ActiveIsHeld'
  BY <1>7, <1>8 DEF ActiveIsHeld
<1> QED BY <1>5, <1>6, <1>9 DEF HeldInv

LEMMA HeldServe ==
  ASSUME HeldInv, NEW h \in Handler, Serve(h), TypeOK'
  PROVE  HeldInv'
<1>1. OnlyHandler
  BY DEF Serve, AddStored, AddNamed, HandlerAdd, HandlerLink
<1>2. \A e \in Download, k \in JobId : job'[e][k].state = "active" <=> job[e][k].state = "active"
  <2>1. CASE HandlerAdd(h)
    <3>1. PICK n \in AutoId : Queue(handler[h].d, n, "waiting", handler[h].doc)
      BY <2>1 DEF HandlerAdd
    <3> QED BY <3>1, QueueSame DEF HeldInv
  <2>2. CASE ~HandlerAdd(h)
    BY <2>2 DEF Serve, AddStored, AddNamed, HandlerLink
  <2> QED BY <2>1, <2>2
<1> QED BY <1>1, <1>2, HeldSame DEF SameHold, OnlyHandler

LEMMA HeldRecover ==
  ASSUME HeldInv, Recover, TypeOK'
  PROVE  HeldInv'
<1>1. OnlyRec
  BY DEF Recover, RecScan, RecEnd, RecSync, RecAdd, RecLink, RecLook
<1>2. \A e \in Download, k \in JobId : job'[e][k].state = "active" <=> job[e][k].state = "active"
  <2>1. CASE RecAdd
    <3>1. PICK n \in AutoId : Queue(rec.d, n, "waiting", rec.doc)
      BY <2>1 DEF RecAdd
    <3> QED BY <3>1, QueueSame DEF HeldInv
  <2>2. CASE ~RecAdd
    BY <2>2 DEF Recover, RecScan, RecEnd, RecSync, RecLink, RecLook
  <2> QED BY <2>1, <2>2
<1> QED BY <1>1, <1>2, HeldSame DEF SameHold, OnlyRec

LEMMA HeldUser ==
  ASSUME HeldInv, User \/ ViewWrite \/ \E d \in Download : Age(d), TypeOK'
  PROVE  HeldInv'
<1>1. UNCHANGED <<job, worker, boot>>
  BY DEF User, Retry, AddCreate, Stop, SabResume, Delete, SetByUser, ViewRow, ViewJobs, RecStart, ViewWrite, Age,
         OnlyHandler, OnlyView, OnlyRec
<1> QED BY <1>1, HeldSame DEF SameHold

\* While the process starts no slot holds a job.
LEMMA HeldDown ==
  ASSUME HeldInv, TypeOK', ~Serving', \A w \in Worker : worker'[w].pc = "idle" /\ worker'[w].n = NoJob, BootEmpty'
  PROVE  HeldInv'
BY DEF HeldInv, BootIdle, IdleFree, ActiveIsHeld

LEMMA HeldBoot ==
  ASSUME HeldInv, TypeOK',
         Boot \/ Crash \/ \E d \in Download, n \in JobId : BootStale(d, n)
  PROVE  HeldInv'
<1>t. TypeOK /\ JobOK /\ BootOK
  BY DEF HeldInv, TypeOK
<1>1. ASSUME UNCHANGED worker, ~Serving
      PROVE  \A w \in Worker : worker'[w].pc = "idle" /\ worker'[w].n = NoJob
  BY <1>1 DEF HeldInv, BootIdle, IdleFree
<1>2. CASE Crash
  BY <1>2, HeldDown DEF Crash, NoWorker, Serving, BootEmpty
<1>3. CASE Listen \/ Obliterate \/ BootScan
  <2>1. ~Serving /\ ~Serving' /\ UNCHANGED worker
    BY <1>3, <1>t DEF Listen, Obliterate, BootScan, BootAt, Serving, OnlyBoot, BootOK
  <2>2. BootEmpty'
    BY <1>3, <1>t DEF Listen, Obliterate, BootScan, BootAt, BootEmpty, BootOK, HeldInv
  <2> QED BY <2>1, <2>2, <1>1, HeldDown
<1>4. CASE BootLink \/ \E i \in boot.todo : BootFail(i)
  <2>1. ~Serving /\ ~Serving' /\ UNCHANGED worker
    BY <1>4, <1>t DEF BootLink, BootFail, BootAt, Serving, OnlyBoot, BootOK
  <2>2. BootEmpty'
    BY <1>4, <1>t DEF BootLink, BootFail, BootAt, BootEmpty, BootOK, HeldInv
  <2> QED BY <2>1, <2>2, <1>1, HeldDown
<1>5. ASSUME NEW i \in boot.todo, BootAdd(i)
      PROVE  HeldInv'
  <2>1. ~Serving /\ ~Serving' /\ UNCHANGED worker
    BY <1>5, <1>t DEF BootAdd, BootAt, Serving, OnlyBoot, BootOK
  <2>2. PICK n \in AutoId : Queue(i.d, n, "waiting", TRUE)
    BY <1>5 DEF BootAdd
  <2>3. BootEmpty'
    BY <1>5, <2>2, <1>t, QueueSame DEF BootEmpty, HeldInv, BootAdd, BootAt
  <2> QED BY <2>1, <2>3, <1>1, HeldDown
<1>6. CASE BootNext
  <2>1. boot.pc = "loop" /\ ~Serving /\ UNCHANGED <<job, worker>>
    BY <1>6 DEF BootNext, BootAt, Serving
  <2>2. \A d \in Download, n \in JobId : job'[d][n].state # "active"
    BY <2>1 DEF HeldInv, BootEmpty
  <2>3. \A w \in Worker : worker'[w].pc = "idle" /\ worker'[w].n = NoJob
    BY <2>1, <1>1
  <2>4. ActiveIsHeld'
    BY <2>2, <2>3 DEF ActiveIsHeld, NoJob, JobId, AutoId, Prio
  <2> QED BY <2>2, <2>3, <2>4 DEF HeldInv, BootIdle, BootEmpty, IdleFree
<1>7. ASSUME NEW d \in Download, NEW n \in JobId, BootStale(d, n)
      PROVE  HeldInv'
  <2>1. boot.pc = "stale" /\ boot'.pc = "stale" /\ UNCHANGED worker
    BY <1>7, <1>t DEF BootStale, BootAt, OnlyBoot, BootOK
  <2> QED BY <2>1, <1>1, HeldDown DEF Serving, BootEmpty
<1> QED BY <1>2, <1>3, <1>4, <1>5, <1>6, <1>7 DEF Boot

LEMMA HeldNext ==
  ASSUME HeldInv, [Next]_vars
  PROVE  HeldInv'
<1>t. TypeOK /\ TypeOK'
  BY TypeNext DEF HeldInv
<1>1. ASSUME NEW d \in Download, NEW n \in JobId, Promote(d, n)
      PROVE  HeldInv'
  <2>1. \A e \in Download, k \in JobId : job'[e][k].state = "active" <=> job[e][k].state = "active"
    BY <1>1, <1>t DEF Promote, TypeOK, JobOK
  <2> QED BY <1>1, <2>1, <1>t, HeldSame DEF Promote, SameHold
<1>2. CASE UNCHANGED vars
  BY <1>2, <1>t, HeldSame DEF vars, SameHold
<1> QED BY <1>1, <1>2, <1>t, HeldWork, HeldTake, HeldServe, HeldRecover, HeldUser, HeldBoot DEF Next

LEMMA HeldInit == Init => HeldInv
<1> SUFFICES ASSUME Init PROVE HeldInv
  OBVIOUS
<1>1. \A w \in Worker : worker[w] = NoWorker
  BY DEF Init
<1>2. \A d \in Download, n \in JobId : job[d][n].state = "none"
  BY DEF Init
<1>3. BootIdle /\ BootEmpty /\ IdleFree
  BY <1>1, <1>2 DEF BootIdle, BootEmpty, IdleFree, NoWorker
<1>4. ActiveIsHeld
  BY <1>1, <1>2 DEF ActiveIsHeld, NoWorker, NoJob, JobId, AutoId, Prio
<1> QED BY <1>3, <1>4, TypeInit DEF HeldInv

\* Whatever users, recovery and restarts do, and however many slots there are:
\* while the process serves, a job is active in the queue exactly if one slot
\* holds it.  No slot is handed a job another one has, and no active job is
\* left behind without a slot.
THEOREM ActiveIsHeldHolds == Spec => []ActiveIsHeld
<1>1. HeldInv /\ [Next]_vars => HeldInv'
  BY HeldNext
<1>2. HeldInv => ActiveIsHeld
  BY DEF HeldInv
<1> QED BY HeldInit, <1>1, <1>2, PTL DEF Spec
-----------------------------------------------------------------------------
\* One job for one download: what a job can be queued beside.

NoLive(d) == \A n \in JobId : ~IsLive(d, n)
OneLive(d) == \A m, n \in JobId : IsLive(d, m) /\ IsLive(d, n) => m = n
Requeued == {"backoffLink", "refreshLink", "finish"}
Busy(h, d) == handler[h].pc # "idle" /\ handler[h].d = d

\* A row nobody created has no job, and no request works on it.
Blank == \A d \in Download : row[d].status = "absent" => NoLive(d) /\ \A h \in Handler : ~Busy(h, d)

\* An add has its download to itself, and queues the first job of it.
Adds ==
  \A h \in Handler :
    handler[h].pc # "idle" =>
      /\ handler[h].d \in Download /\ row[handler[h].d].young
      /\ \A g \in Handler : Busy(g, handler[h].d) => g = h
      /\ handler[h].pc # "linking" => NoLive(handler[h].d)

\* Startup queues one job for each row it found, after all jobs went.
Starting ==
  /\ ~Serving => rec.pc = "idle" /\ \A h \in Handler : handler[h].pc = "idle"
  /\ boot.pc = "scan" => \A d \in Download : NoLive(d)
  /\ boot.pc \in {"loop", "link"} =>
       /\ \A d \in Download : OneLive(d)
       /\ \A i \in boot.todo : NoLive(i.d) /\ row[i.d].status # "absent" /\ \A j \in boot.todo : j.d = i.d => j = i

\* Recovery has found a row without a job that no add is at work on.
Recovering ==
  /\ rec.pc # "idle" => \A i \in rec.todo : row[i.d].status # "absent"
  /\ rec.pc = "add" => /\ rec.d \in Download /\ row[rec.d].status # "absent" /\ NoLive(rec.d)
                       /\ \A h \in Handler : ~Busy(h, rec.d)

NoPrio == \A w \in Worker : worker[w].pc \notin {"prioAdd", "prioLink"}
Viewing == view.pc \in {"rowRead", "write"} => view.status # "absent"

OneInv == HeldInv /\ Blank /\ Adds /\ Starting /\ Recovering /\ NoPrio /\ Viewing /\ NoSecondJob

\* Neither retries nor a requeue for streaming, and no requests while the
\* process starts: the moves that queue a job beside one there is.
Unhurried == Allow \intersect {"retry", "noCapacity", "bootTraffic"} = {}

\* A step that queues nothing, and what it may do to rows, requests and slots.
RowKept ==
  \A d \in Download : /\ row'[d].status = "absent" => row[d].status = "absent"
                      /\ row[d].young /\ (\E h \in Handler : Busy(h, d)) => row'[d].young
LiveKept == \A d \in Download, n \in JobId : IsLive(d, n)' => IsLive(d, n)
HandlersKept ==
  \A h \in Handler : handler'[h].pc # "idle" =>
    /\ handler[h].pc # "idle" /\ handler'[h].d = handler[h].d
    /\ handler[h].pc = "linking" => handler'[h].pc = "linking"
WitnessKept ==
  \A w \in Worker, d \in Download, n \in JobId : worker[w].d = d /\ worker[w].n = n /\ worker[w].pc \in Requeued =>
    (worker'[w].d = d /\ worker'[w].n = n /\ worker'[w].pc \in Requeued) \/ ~IsLive(d, n)'

LEMMA KeptUpdate ==
  ASSUME RowOK, NEW d, NEW status, NEW n, Update(d, status, n), Exists(d) => status # "absent"
  PROVE  RowKept
BY DEF RowOK, Update, RowKept, Exists

LEMMA KeptStatus ==
  ASSUME RowOK, NEW d, NEW status, SetStatus(d, status), status # "absent"
  PROVE  RowKept
BY KeptUpdate DEF SetStatus

LEMMA KeptJob ==
  ASSUME RowOK, NEW d, NEW n, SetJob(d, n)
  PROVE  RowKept
BY KeptUpdate DEF SetJob, Exists

LEMMA KeptStored ==
  ASSUME RowOK, NEW d, row' = IF Exists(d) THEN [row EXCEPT ![d].doc = TRUE] ELSE row
  PROVE  RowKept
BY DEF RowOK, RowKept

LEMMA KeptSame ==
  /\ UNCHANGED row => RowKept
  /\ UNCHANGED job => LiveKept
  /\ UNCHANGED handler => HandlersKept
  /\ UNCHANGED worker => WitnessKept
BY DEF RowKept, LiveKept, HandlersKept, WitnessKept, IsLive

LEMMA RecoveringKept ==
  ASSUME OneInv, TypeOK, RowKept, LiveKept, HandlersKept, UNCHANGED rec
  PROVE  Recovering'
<1>1. \A i \in rec.todo : i.d \in Download
  BY DEF TypeOK, RecOK
<1>2. ASSUME NEW d \in Download, NoLive(d) PROVE NoLive(d)'
  BY <1>2 DEF NoLive, LiveKept
<1>3. ASSUME NEW d \in Download, \A h \in Handler : ~Busy(h, d) PROVE \A h \in Handler : ~Busy(h, d)'
  BY <1>3 DEF Busy, HandlersKept
<1> QED BY <1>1, <1>2, <1>3 DEF OneInv, Recovering, RowKept

LEMMA OneKept ==
  ASSUME OneInv, HeldInv', RowKept, LiveKept, HandlersKept, WitnessKept, UNCHANGED boot,
         Recovering', ~Serving => rec'.pc = "idle", NoPrio', Viewing'
  PROVE  OneInv'
<1>1. ASSUME NEW d \in Download, NoLive(d) PROVE NoLive(d)'
  BY <1>1 DEF NoLive, LiveKept
<1>2. Blank'
  BY <1>1 DEF OneInv, Blank, RowKept, HandlersKept, Busy
<1>3. Adds'
  <2> SUFFICES ASSUME NEW h \in Handler, handler'[h].pc # "idle"
               PROVE  /\ handler'[h].d \in Download /\ row'[handler'[h].d].young
                      /\ \A g \in Handler : Busy(g, handler[h].d)' => g = h
                      /\ handler'[h].pc # "linking" => NoLive(handler[h].d)'
    BY DEF Adds, HandlersKept, Busy, NoLive, IsLive
  <2>1. /\ handler[h].pc # "idle" /\ handler'[h].d = handler[h].d /\ Busy(h, handler[h].d)
        /\ handler[h].pc = "linking" => handler'[h].pc = "linking"
    BY DEF HandlersKept, Busy
  <2>2. /\ handler[h].d \in Download /\ row[handler[h].d].young
        /\ \A g \in Handler : Busy(g, handler[h].d) => g = h
        /\ handler[h].pc # "linking" => NoLive(handler[h].d)
    BY <2>1 DEF OneInv, Adds
  <2>3. \A g \in Handler : Busy(g, handler[h].d)' => Busy(g, handler[h].d)
    BY DEF HandlersKept, Busy
  <2> QED BY <2>1, <2>2, <2>3, <1>1 DEF RowKept
<1>4. Starting'
  <2>1. TypeOK
    BY DEF OneInv, HeldInv
  <2>2. boot' = boot /\ Starting
    BY DEF OneInv
  <2>3. ~Serving' => rec'.pc = "idle" /\ \A h \in Handler : handler'[h].pc = "idle"
    BY <2>2 DEF Starting, HandlersKept, Serving
  <2>4. boot'.pc = "scan" => \A d \in Download : NoLive(d)'
    BY <2>2, <1>1 DEF Starting
  <2>5. ASSUME boot'.pc \in {"loop", "link"}
        PROVE  /\ \A d \in Download : OneLive(d)'
               /\ \A i \in boot.todo : NoLive(i.d)' /\ row'[i.d].status # "absent" /\ \A j \in boot.todo : j.d = i.d => j = i
    <3>1. \A i \in boot.todo : i.d \in Download
      BY <2>1 DEF TypeOK, BootOK
    <3>2. \A d \in Download : OneLive(d)'
      BY <2>2, <2>5 DEF Starting, OneLive, LiveKept
    <3> QED BY <2>2, <2>5, <3>1, <3>2, <1>1 DEF Starting, RowKept
  <2>6. boot'.pc \in {"loop", "link"} =>
          /\ \A d \in Download : OneLive(d)'
          /\ \A i \in boot'.todo :
               NoLive(i.d)' /\ row'[i.d].status # "absent" /\ \A j \in boot'.todo : j.d = i.d => j = i
    BY <2>2, <2>5
  <2> QED BY <2>3, <2>4, <2>6 DEF Starting
<1>5. NoSecondJob'
  <2> SUFFICES ASSUME Serving', NEW d \in Download, NEW m \in JobId, NEW n \in JobId, m # n,
                      IsLive(d, m)', IsLive(d, n)'
               PROVE  \E w \in Worker : worker'[w].d = d /\ worker'[w].n \in {m, n} /\ worker'[w].pc \in Requeued
    BY DEF NoSecondJob, Requeued
  <2>1. Serving /\ IsLive(d, m) /\ IsLive(d, n)
    BY DEF Serving, LiveKept
  <2>2. PICK w \in Worker : worker[w].d = d /\ worker[w].n \in {m, n} /\ worker[w].pc \in Requeued
    BY <2>1 DEF OneInv, NoSecondJob, Requeued
  <2>3. PICK k \in {m, n} : worker[w].n = k /\ IsLive(d, k)'
    BY <2>2
  <2> QED BY <2>2, <2>3 DEF WitnessKept
<1> QED BY <1>2, <1>3, <1>4, <1>5 DEF OneInv

LEMMA GotoIs ==
  ASSUME WorkerOK, NEW w \in Worker, NEW pc, Goto(w, pc)
  PROVE  \A v \in Worker : /\ worker'[v].d = worker[v].d /\ worker'[v].n = worker[v].n /\ worker'[v].m = worker[v].m
                           /\ worker'[v].pc = IF v = w THEN pc ELSE worker[v].pc
BY DEF WorkerOK, Goto

\* A slot that is not idle holds a live job while the process serves.
LEMMA HolderLive ==
  ASSUME HeldInv, NEW w \in Worker, worker[w].pc # "idle"
  PROVE  /\ Serving /\ worker[w].d \in Download /\ worker[w].n \in JobId
         /\ job[worker[w].d][worker[w].n].state = "active" /\ IsLive(worker[w].d, worker[w].n)
         /\ \A v \in Worker : worker[v].d = worker[w].d /\ worker[v].n = worker[w].n => v = w
<1>1. Serving /\ worker[w].d \in Download /\ worker[w].n \in JobId
  BY DEF HeldInv, BootIdle, TypeOK
<1>2. /\ job[worker[w].d][worker[w].n].state = "active"
      /\ \A v \in Worker : worker[v].d = worker[w].d /\ worker[v].n = worker[w].n => v = w
  BY <1>1 DEF HeldInv, ActiveIsHeld
<1> QED BY <1>1, <1>2 DEF IsLive, Live, NoJob, JobId, AutoId, Prio

LEMMA QueueLive ==
  ASSUME JobOK, NEW d \in Download, NEW n, NEW state \in {"waiting", "delayed"}, NEW doc, Queue(d, n, state, doc)
  PROVE  /\ n \in JobId /\ n # NoJob /\ ~IsLive(d, n) /\ job'[d][n].state = state
         /\ \A e \in Download, k \in JobId : IsLive(e, k)' <=> IsLive(e, k) \/ (e = d /\ k = n)
         /\ \A e \in Download, k \in JobId : <<e, k>> # <<d, n>> => job'[e][k] = job[e][k]
<1>1. n \in JobId /\ n # NoJob /\ job[d][n].state = "none"
  BY DEF Queue, JobId, AutoId, NoJob
<1>2. job' = [job EXCEPT ![d][n] = [state |-> state, doc |-> doc]]
  BY DEF Queue
<1>3. /\ job'[d][n] = [state |-> state, doc |-> doc]
      /\ \A e \in Download, k \in JobId : <<e, k>> # <<d, n>> => job'[e][k] = job[e][k]
  BY <1>1, <1>2 DEF JobOK
<1>4. job'[d][n].state \in Live
  BY <1>3 DEF Live
<1>5. ~IsLive(d, n)
  BY <1>1 DEF IsLive, Live
<1>6. ASSUME NEW e \in Download, NEW k \in JobId
      PROVE  IsLive(e, k)' <=> IsLive(e, k) \/ (e = d /\ k = n)
  BY <1>1, <1>3, <1>4 DEF IsLive
<1> QED BY <1>1, <1>3, <1>5, <1>6

\* The steps of a slot that queue nothing.
LEMMA OneGoto ==
  ASSUME OneInv, HeldInv', NEW w \in Worker, NEW pc \in WorkerPc \ {"prioAdd", "prioLink"}, Goto(w, pc),
         worker[w].pc \in Requeued => pc \in Requeued, RowKept, UNCHANGED job, OnlyWorker
  PROVE  OneInv'
<1>1. WorkerOK /\ TypeOK
  BY DEF OneInv, HeldInv, TypeOK
<1>2. \A v \in Worker : /\ worker'[v].d = worker[v].d /\ worker'[v].n = worker[v].n
                        /\ worker'[v].pc = IF v = w THEN pc ELSE worker[v].pc
  BY <1>1, GotoIs
<1>3. WitnessKept
  BY <1>2 DEF WitnessKept
<1>4. NoPrio'
  BY <1>2 DEF OneInv, NoPrio
<1>5. LiveKept /\ HandlersKept /\ UNCHANGED <<boot, rec, view>>
  BY KeptSame DEF OnlyWorker
<1>6. Recovering' /\ Viewing' /\ (~Serving => rec'.pc = "idle")
  BY <1>1, <1>5, RecoveringKept DEF OneInv, Viewing, Starting
<1> QED BY <1>3, <1>4, <1>5, <1>6, OneKept

LEMMA OneRequeue ==
  ASSUME OneInv, HeldInv', NEW w \in Worker, NEW state \in {"waiting", "delayed"}, NEW pc \in {"backoffAdd", "refreshAdd"},
         NEW next \in {"backoffLink", "refreshLink"}, Requeue(w, pc, state, next)
  PROVE  OneInv'
<1> DEFINE d == worker[w].d
<1>1. TypeOK /\ HeldInv /\ WorkerOK /\ JobOK /\ NoSecondJob /\ worker[w].pc = pc
  BY DEF OneInv, HeldInv, TypeOK, Requeue
<1>2. PICK e \in Download, i \in JobId : worker[w].d = e /\ worker[w].n = i
  BY <1>1, HolderLive
<1>3. /\ Serving /\ IsLive(e, i)
      /\ \A v \in Worker : worker[v].d = e /\ worker[v].n = i => v = w
  BY <1>1, <1>2, HolderLive
<1>4. PICK n \in AutoId : /\ Queue(e, n, state, job[d][worker[w].n].doc)
                          /\ worker' = [worker EXCEPT ![w].m = n, ![w].pc = next]
  BY <1>2 DEF Requeue
<1>5. /\ n \in JobId /\ ~IsLive(e, n)
      /\ \A f \in Download, k \in JobId : IsLive(f, k)' <=> IsLive(f, k) \/ (f = e /\ k = n)
  BY <1>1, <1>4, QueueLive
<1>6. /\ worker'[w].d = e /\ worker'[w].n = i /\ worker'[w].pc = next
      /\ \A v \in Worker \ {w} : worker'[v] = worker[v]
  BY <1>1, <1>2, <1>4 DEF WorkerOK
<1>7. UNCHANGED <<row, handler, view, rec, boot>>
  BY DEF Requeue, OnlyWorker
<1>8. Serving' /\ boot.pc = "serving"
  BY <1>3, <1>7 DEF Serving
<1>9. ~NoLive(e)
  BY <1>3 DEF NoLive
<1>10. Blank'
  <2> SUFFICES ASSUME NEW f \in Download, row'[f].status = "absent"
               PROVE  NoLive(f)' /\ \A h \in Handler : ~Busy(h, f)'
    BY DEF Blank
  <2>1. NoLive(f) /\ \A h \in Handler : ~Busy(h, f)
    BY <1>7 DEF OneInv, Blank
  <2>2. f # e
    BY <1>9, <2>1
  <2> QED BY <1>5, <1>7, <2>1, <2>2 DEF NoLive, Busy
<1>11. Adds'
  <2> SUFFICES ASSUME NEW h \in Handler, handler[h].pc # "idle"
               PROVE  /\ handler[h].d \in Download /\ row[handler[h].d].young
                      /\ \A g \in Handler : Busy(g, handler[h].d) => g = h
                      /\ handler[h].pc # "linking" => \A k \in JobId : ~IsLive(handler[h].d, k)'
    BY <1>7 DEF Adds, Busy, NoLive, IsLive
  <2>1. /\ handler[h].d \in Download /\ row[handler[h].d].young
        /\ \A g \in Handler : Busy(g, handler[h].d) => g = h
        /\ handler[h].pc # "linking" => NoLive(handler[h].d)
    BY DEF OneInv, Adds
  <2>2. PICK f \in Download : f = handler[h].d
    BY <2>1
  <2>3. handler[h].pc # "linking" => \A k \in JobId : ~IsLive(f, k)'
    BY <1>5, <1>9, <2>1, <2>2 DEF NoLive
  <2>4. handler'[h].d = f
    BY <1>7, <2>2
  <2> QED BY <2>1, <2>2, <2>3, <2>4
<1>12. Recovering'
  <2>1. Recovering /\ rec' = rec /\ row' = row /\ handler' = handler
    BY <1>7 DEF OneInv
  <2>2. CASE rec.pc # "add"
    BY <2>1, <2>2 DEF Recovering
  <2>3. CASE rec.pc = "add"
    <3>1. PICK f \in Download : f = rec.d
      BY <2>1, <2>3 DEF Recovering
    <3>2. NoLive(f)'
      BY <1>5, <1>9, <2>1, <2>3, <3>1 DEF Recovering, NoLive
    <3>3. \A k \in JobId : ~(k # NoJob /\ job'[rec'.d][k].state \in Live)
      BY <2>1, <3>1, <3>2 DEF NoLive, IsLive
    <3> QED BY <2>1, <2>3, <3>3 DEF Recovering, NoLive, IsLive, Busy
  <2> QED BY <2>2, <2>3
<1>13. Starting' /\ NoPrio' /\ Viewing'
  BY <1>6, <1>7, <1>8 DEF OneInv, Starting, NoPrio, Viewing
<1>14. NoSecondJob'
  <2> SUFFICES ASSUME NEW f \in Download, NEW j \in JobId, NEW k \in JobId, j # k, IsLive(f, j)', IsLive(f, k)'
               PROVE  \E v \in Worker : worker'[v].d = f /\ worker'[v].n \in {j, k} /\ worker'[v].pc \in Requeued
    BY DEF NoSecondJob, Requeued
  <2>1. worker'[w].pc \in Requeued /\ worker[w].pc \notin Requeued
    BY <1>1, <1>6 DEF Requeued
  <2>2. ASSUME NEW x \in JobId, NEW y \in JobId, x # y, IsLive(f, x), IsLive(f, y)
        PROVE  \E v \in Worker \ {w} : worker'[v].d = f /\ worker'[v].n \in {x, y} /\ worker'[v].pc \in Requeued
    <3>1. PICK v \in Worker : worker[v].d = f /\ worker[v].n \in {x, y} /\ worker[v].pc \in Requeued
      BY <1>1, <1>3, <2>2 DEF NoSecondJob, Requeued
    <3> QED BY <1>6, <2>1, <3>1
  <2>3. ASSUME f = e, NEW x \in JobId, IsLive(e, x), x # n
        PROVE  \E v \in Worker : worker'[v].d = f /\ worker'[v].n = x /\ worker'[v].pc \in Requeued
    <3>1. CASE x = i
      BY <1>6, <2>1, <2>3, <3>1
    <3>2. CASE x # i
      <4>1. PICK v \in Worker \ {w} : worker'[v].d = f /\ worker'[v].n \in {x, i} /\ worker'[v].pc \in Requeued
        BY <1>3, <2>2, <2>3, <3>2
      <4>2. worker'[v].n # i
        BY <1>3, <1>6, <2>3, <4>1
      <4> QED BY <4>1, <4>2
    <3> QED BY <3>1, <3>2
  <2>4. CASE IsLive(f, j) /\ IsLive(f, k)
    BY <2>2, <2>4
  <2>5. CASE f = e /\ (j = n \/ k = n)
    BY <1>5, <2>3, <2>5
  <2> QED BY <1>5, <2>4, <2>5
<1> QED BY <1>10, <1>11, <1>12, <1>13, <1>14 DEF OneInv

LEMMA OneWork ==
  ASSUME OneInv, HeldInv', Unhurried, NEW w \in Worker, Work(w)
  PROVE  OneInv'
<1> DEFINE d == worker[w].d
<1>1. TypeOK /\ RowOK /\ WorkerOK /\ JobOK /\ HeldInv /\ "noCapacity" \notin Allow
      /\ worker[w].pc \notin {"prioAdd", "prioLink"}
  BY DEF OneInv, HeldInv, TypeOK, NoPrio, Unhurried
<1>2. {"load", "capacity", "fetch", "fetching", "plan", "mount", "verify", "import", "backoff", "backoffAdd",
       "refreshAdd", "decide", "finish"} \subseteq WorkerPc \ {"prioAdd", "prioLink"}
  BY DEF WorkerPc
<1>3. CASE Load(w) \/ Capacity(w) \/ Plan(w)
  <2>1. PICK pc \in WorkerPc \ {"prioAdd", "prioLink"} : Goto(w, pc)
    BY <1>1, <1>2, <1>3 DEF Load, Capacity, Plan
  <2>2. worker[w].pc \notin Requeued /\ RowKept /\ UNCHANGED job /\ OnlyWorker
    BY <1>3, KeptSame DEF Load, Capacity, Plan, Requeued
  <2> QED BY <2>1, <2>2, OneGoto
<1>4. CASE Fetch(w) \/ Fetched(w) \/ Mount(w) \/ Verify(w) \/ Import(w) \/ Backoff(w) \/ Decide(w)
  <2>1. PICK pc \in WorkerPc \ {"prioAdd", "prioLink"} : Goto(w, pc)
    BY <1>1, <1>2, <1>4 DEF Fetch, Fetched, Mount, Verify, Import, Backoff, Decide
  <2>2. \/ UNCHANGED row
        \/ row' = IF Exists(d) THEN [row EXCEPT ![d].doc = TRUE] ELSE row
        \/ \E status \in RowStatus \ {"absent"} : SetStatus(d, status)
    <3>1. {"fetching_nzb", "failed", "cancelled", "verifying", "waiting_for_provider", "prepared", "available"}
          \subseteq RowStatus \ {"absent"}
      BY DEF RowStatus, ActiveLike
    <3> QED BY <1>4, <3>1 DEF Fetch, Fetched, Mount, Verify, Import, Backoff, Decide
  <2>3. RowKept
    BY <1>1, <2>2, KeptSame, KeptStored, KeptStatus
  <2>4. (worker[w].pc \in Requeued => pc \in Requeued) /\ UNCHANGED job /\ OnlyWorker
    BY <1>4 DEF Fetch, Fetched, Mount, Verify, Import, Backoff, Decide, Requeued
  <2> QED BY <2>1, <2>3, <2>4, OneGoto
<1>5. CASE BackoffLink(w) \/ RefreshLink(w)
  <2>1. Goto(w, "finish") /\ UNCHANGED job /\ OnlyWorker /\ "finish" \in Requeued
    BY <1>5 DEF BackoffLink, RefreshLink, Requeued
  <2>2. RowKept
    BY <1>1, <1>5, KeptJob, KeptUpdate DEF BackoffLink, RefreshLink
  <2> QED BY <1>2, <2>1, <2>2, OneGoto
<1>6. CASE BackoffAdd(w) \/ RefreshAdd(w)
  BY <1>6, OneRequeue DEF BackoffAdd, RefreshAdd
<1>7. CASE Finish(w)
  <2>1. PICK e \in Download, i \in JobId : worker[w].d = e /\ worker[w].n = i /\ worker[w].pc = "finish"
    BY <1>1, <1>7, HolderLive DEF Finish
  <2>2. /\ job'[e][i].state = "over"
        /\ \A f \in Download, k \in JobId : <<f, k>> # <<e, i>> => job'[f][k] = job[f][k]
    BY <1>1, <1>7, <2>1 DEF Finish, JobOK
  <2>3. worker'[w] = NoWorker /\ \A v \in Worker \ {w} : worker'[v] = worker[v]
    BY <1>1, <1>7 DEF Finish, WorkerOK
  <2>4. LiveKept /\ ~IsLive(e, i)'
    BY <2>2 DEF LiveKept, IsLive, Live
  <2>5. WitnessKept
    BY <2>1, <2>3, <2>4 DEF WitnessKept
  <2>6. NoPrio'
    BY <2>3 DEF OneInv, NoPrio, NoWorker
  <2>7. RowKept /\ HandlersKept /\ UNCHANGED <<boot, rec, view>>
    BY <1>7, KeptSame DEF Finish, OnlyWorker
  <2>8. Recovering' /\ Viewing' /\ (~Serving => rec'.pc = "idle")
    BY <1>1, <2>4, <2>7, RecoveringKept DEF OneInv, Viewing, Starting
  <2> QED BY <2>4, <2>5, <2>6, <2>7, <2>8, OneKept
<1>8. ~PrioAdd(w) /\ ~PrioLink(w)
  BY <1>1 DEF PrioAdd, PrioLink
<1> QED BY <1>3, <1>4, <1>5, <1>6, <1>7, <1>8 DEF Work

LEMMA OneInit == Init => OneInv
<1> SUFFICES ASSUME Init PROVE OneInv
  OBVIOUS
<1>1. \A w \in Worker : worker[w] = NoWorker
  BY DEF Init
<1>2. \A d \in Download, n \in JobId : ~IsLive(d, n)
  BY DEF Init, IsLive, Live
<1>3. \A h \in Handler : handler[h] = NoHandler
  BY DEF Init
<1>4. boot.pc = "serving" /\ rec = NoRec /\ view = NoView
  BY DEF Init
<1>5. HeldInv
  BY HeldInit
<1>6. Blank /\ Adds
  BY <1>2, <1>3 DEF Blank, Adds, NoLive, Busy, NoHandler
<1>7. Starting /\ Recovering /\ Viewing
  BY <1>4 DEF Starting, Recovering, Viewing, Serving, NoRec, NoView
<1>8. NoPrio /\ NoSecondJob
  BY <1>1, <1>2 DEF NoPrio, NoSecondJob, NoWorker
<1> QED BY <1>5, <1>6, <1>7, <1>8 DEF OneInv

LEMMA OneTake ==
  ASSUME OneInv, HeldInv', NEW w \in Worker, NEW e \in Download, NEW i \in JobId, Take(w, e, i)
  PROVE  OneInv'
<1>1. TypeOK /\ WorkerOK /\ JobOK
  BY DEF OneInv, HeldInv, TypeOK
<1>2. /\ worker[w].pc = "idle" /\ worker'[w].pc = "load"
      /\ \A v \in Worker \ {w} : worker'[v] = worker[v]
  BY <1>1 DEF Take, WorkerOK
<1>3. /\ job[e][i].state = "waiting"
      /\ \A f \in Download, k \in JobId : <<f, k>> # <<e, i>> => job'[f][k] = job[f][k]
  BY <1>1 DEF Take, JobOK
<1>4. LiveKept
  BY <1>3 DEF LiveKept, IsLive, Live
<1>5. WitnessKept
  BY <1>2 DEF WitnessKept, Requeued
<1>6. NoPrio'
  BY <1>2 DEF OneInv, NoPrio
<1>7. RowKept /\ HandlersKept /\ UNCHANGED <<boot, rec, view>>
  BY KeptSame DEF Take, OnlyWorker
<1>8. Recovering' /\ Viewing' /\ (~Serving => rec'.pc = "idle")
  BY <1>1, <1>4, <1>7, RecoveringKept DEF OneInv, Viewing, Starting
<1> QED BY <1>4, <1>5, <1>6, <1>7, <1>8, OneKept

LEMMA OnePromote ==
  ASSUME OneInv, HeldInv', NEW e \in Download, NEW i \in JobId, Promote(e, i)
  PROVE  OneInv'
<1>1. TypeOK /\ JobOK
  BY DEF OneInv, HeldInv, TypeOK
<1>2. /\ job[e][i].state = "delayed"
      /\ \A f \in Download, k \in JobId : <<f, k>> # <<e, i>> => job'[f][k] = job[f][k]
  BY <1>1 DEF Promote, JobOK
<1>3. LiveKept
  BY <1>2 DEF LiveKept, IsLive, Live
<1>4. RowKept /\ HandlersKept /\ WitnessKept /\ UNCHANGED <<boot, rec, view, worker>>
  BY KeptSame DEF Promote
<1>5. Recovering' /\ Viewing' /\ NoPrio' /\ (~Serving => rec'.pc = "idle")
  BY <1>1, <1>3, <1>4, RecoveringKept DEF OneInv, Viewing, Starting, NoPrio
<1> QED BY <1>3, <1>4, <1>5, OneKept

\* The steps that change neither the queue nor the slots nor the requests.
LEMMA OneRow ==
  ASSUME OneInv, HeldInv', RowKept, UNCHANGED <<job, worker, handler, rec, boot>>, Viewing'
  PROVE  OneInv'
<1>1. TypeOK
  BY DEF OneInv, HeldInv
<1>2. LiveKept /\ HandlersKept /\ WitnessKept
  BY KeptSame
<1>3. Recovering' /\ NoPrio' /\ (~Serving => rec'.pc = "idle")
  BY <1>1, <1>2, RecoveringKept DEF OneInv, NoPrio, Starting
<1> QED BY <1>2, <1>3, OneKept

LEMMA OneAge ==
  ASSUME OneInv, HeldInv', NEW e \in Download, Age(e)
  PROVE  OneInv'
<1>1. RowOK
  BY DEF OneInv, HeldInv, TypeOK
<1>2. RowKept
  BY <1>1 DEF Age, RowOK, RowKept, Busy
<1>3. Viewing'
  BY DEF Age, OneInv, Viewing
<1> QED BY <1>2, <1>3, OneRow DEF Age

LEMMA OneViewWrite ==
  ASSUME OneInv, HeldInv', ViewWrite
  PROVE  OneInv'
<1>1. RowOK /\ view.status # "absent"
  BY DEF OneInv, HeldInv, TypeOK, Viewing, ViewWrite
<1>2. ViewStatus # "absent"
  BY <1>1 DEF ViewStatus
<1>3. RowKept
  BY <1>1, <1>2, KeptSame, KeptUpdate DEF ViewWrite
<1>4. Viewing'
  BY DEF ViewWrite, Viewing, NoView
<1> QED BY <1>3, <1>4, OneRow DEF ViewWrite, OnlyView

LEMMA OneServe ==
  ASSUME OneInv, HeldInv', NEW h \in Handler, Serve(h)
  PROVE  OneInv'
<1>1. TypeOK /\ RowOK /\ HandlerOK /\ JobOK
  BY DEF OneInv, HeldInv, TypeOK
<1>2. UNCHANGED <<worker, view, rec, boot>>
  BY DEF Serve, AddStored, AddNamed, HandlerAdd, HandlerLink, OnlyHandler
<1>3. NoPrio' /\ Viewing' /\ WitnessKept /\ (~Serving => rec'.pc = "idle")
  BY <1>2, KeptSame DEF OneInv, NoPrio, Viewing, Starting
<1>4. ASSUME RowKept, HandlersKept, UNCHANGED job
      PROVE  OneInv'
  <2>1. LiveKept
    BY <1>4, KeptSame
  <2> QED BY <1>1, <1>2, <1>3, <1>4, <2>1, RecoveringKept, OneKept
<1>5. CASE AddStored(h)
  <2>1. RowKept
    BY <1>1, <1>5, KeptStored, KeptStatus DEF AddStored
  <2>2. HandlersKept
    BY <1>1, <1>5 DEF AddStored, HandlersKept, HandlerOK, HandlerAt, EndHandler, NoHandler
  <2> QED BY <1>4, <1>5, <2>1, <2>2 DEF AddStored
<1>6. CASE AddNamed(h)
  <2>1. RowKept
    BY <1>1, <1>6, KeptStatus DEF AddNamed
  <2>2. HandlersKept
    BY <1>1, <1>6 DEF AddNamed, HandlersKept, HandlerOK, HandlerAt, EndHandler, NoHandler, Proceed
  <2> QED BY <1>4, <1>6, <2>1, <2>2 DEF AddNamed
<1>7. CASE HandlerLink(h)
  <2>1. Exists(handler[h].d) => row[handler[h].d].status # "absent"
    BY DEF Exists
  <2>2. RowKept
    BY <1>1, <1>7, <2>1, KeptUpdate DEF HandlerLink
  <2>3. HandlersKept
    BY <1>1, <1>7 DEF HandlerLink, HandlersKept, HandlerOK, HandlerAt, EndHandler, NoHandler
  <2> QED BY <1>4, <1>7, <2>2, <2>3 DEF HandlerLink
<1>8. CASE HandlerAdd(h)
  <2>1. handler[h].pc = "adding" /\ UNCHANGED row
    BY <1>8 DEF HandlerAdd, HandlerAt
  <2>2. PICK e \in Download : e = handler[h].d
    BY <2>1 DEF OneInv, Adds
  <2>3. PICK n \in AutoId : /\ Queue(e, n, "waiting", handler[h].doc)
                            /\ handler' = [handler EXCEPT ![h].pc = "linking", ![h].m = n]
    BY <1>8, <2>2 DEF HandlerAdd
  <2>4. /\ row[e].young /\ NoLive(e) /\ Busy(h, e)
        /\ \A g \in Handler : Busy(g, e) => g = h
    BY <2>1, <2>2 DEF OneInv, Adds, Busy
  <2>5. /\ n \in JobId
        /\ \A f \in Download, k \in JobId : IsLive(f, k)' <=> IsLive(f, k) \/ (f = e /\ k = n)
    BY <1>1, <2>3, QueueLive
  <2>6. /\ handler'[h].d = e /\ handler'[h].pc = "linking"
        /\ \A g \in Handler \ {h} : handler'[g] = handler[g]
    BY <1>1, <2>2, <2>3 DEF HandlerOK
  <2>7. \A g \in Handler, f \in Download : Busy(g, f)' <=> Busy(g, f)
    BY <2>1, <2>2, <2>6 DEF Busy
  <2>8. Serving /\ Serving'
    BY <1>2, <2>1 DEF OneInv, Starting, Serving
  <2>9. \A f \in Download \ {e} : NoLive(f) => NoLive(f)'
    BY <2>5 DEF NoLive
  <2>10. Blank'
    <3>1. \A f \in Download : row[f].status = "absent" => f # e
      BY <2>4 DEF OneInv, Blank
    <3> QED BY <2>1, <2>7, <2>9, <3>1 DEF OneInv, Blank
  <2>11. Adds'
    <3> SUFFICES ASSUME NEW g \in Handler, handler'[g].pc # "idle"
                 PROVE  /\ handler'[g].d \in Download /\ row'[handler'[g].d].young
                        /\ \A x \in Handler : handler'[x].pc # "idle" /\ handler'[x].d = handler'[g].d => x = g
                        /\ handler'[g].pc # "linking" => \A k \in JobId : ~(k # NoJob /\ job'[handler'[g].d][k].state \in Live)
      BY DEF Adds, Busy, NoLive, IsLive
    <3>1. CASE g = h
      BY <2>1, <2>4, <2>6, <2>7, <3>1 DEF Busy
    <3>2. CASE g # h
      <4>1. PICK f \in Download : /\ f = handler[g].d /\ row[f].young /\ \A x \in Handler : Busy(x, f) => x = g
                                  /\ handler[g].pc # "linking" => NoLive(f)
        BY <2>6, <3>2 DEF OneInv, Adds
      <4>2. f # e
        BY <2>4, <3>2, <4>1
      <4>3. handler'[g].d = f /\ (handler'[g].pc # "linking" => NoLive(f)')
        BY <2>6, <2>9, <3>2, <4>1, <4>2
      <4>4. \A x \in Handler : Busy(x, f)' => x = g
        BY <2>7, <4>1
      <4> QED BY <2>1, <4>1, <4>3, <4>4 DEF Busy, NoLive, IsLive
    <3> QED BY <3>1, <3>2
  <2>12. Recovering'
    <3>1. Recovering /\ rec' = rec /\ row' = row
      BY <1>2, <2>1 DEF OneInv
    <3>2. CASE rec.pc # "add"
      BY <3>1, <3>2 DEF Recovering
    <3>3. CASE rec.pc = "add"
      <4>1. PICK f \in Download : f = rec.d /\ NoLive(f) /\ \A g \in Handler : ~Busy(g, f)
        BY <3>1, <3>3 DEF Recovering
      <4>2. NoLive(f)' /\ \A g \in Handler : ~Busy(g, f)'
        BY <2>4, <2>7, <2>9, <4>1
      <4> QED BY <3>1, <3>3, <4>1, <4>2 DEF Recovering, NoLive, IsLive, Busy
    <3> QED BY <3>2, <3>3
  <2>13. Starting'
    BY <1>2, <2>8 DEF Starting, Serving
  <2>14. NoSecondJob'
    <3> SUFFICES ASSUME NEW f \in Download, NEW j \in JobId, NEW k \in JobId, j # k, IsLive(f, j)', IsLive(f, k)'
                 PROVE  \E v \in Worker : worker[v].d = f /\ worker[v].n \in {j, k} /\ worker[v].pc \in Requeued
      BY <1>2 DEF NoSecondJob, Requeued
    <3>1. IsLive(f, j) /\ IsLive(f, k)
      BY <2>4, <2>5 DEF NoLive
    <3> QED BY <2>8, <3>1 DEF OneInv, NoSecondJob, Requeued
  <2> QED BY <1>3, <2>10, <2>11, <2>12, <2>13, <2>14 DEF OneInv
<1> QED BY <1>5, <1>6, <1>7, <1>8 DEF Serve

LEMMA OneCreate ==
  ASSUME OneInv, HeldInv', Unhurried, NEW h \in Handler, NEW e \in Download, NEW kind, AddCreate(h, e, kind)
  PROVE  OneInv'
<1>1. TypeOK /\ RowOK /\ HandlerOK
  BY DEF OneInv, HeldInv, TypeOK
<1>2. UNCHANGED <<job, worker, view, rec, boot>>
  BY DEF AddCreate, OnlyHandler
<1>3. Serving /\ Serving'
  BY <1>2 DEF AddCreate, Open, Unhurried, Serving
<1>4. /\ row'[e].status # "absent" /\ row'[e].young /\ row[e].status = "absent"
      /\ \A f \in Download \ {e} : row'[f] = row[f]
  BY <1>1 DEF AddCreate, RowOK
<1>5. /\ handler[h].pc = "idle" /\ handler'[h].pc = "storing" /\ handler'[h].d = e
      /\ \A g \in Handler \ {h} : handler'[g] = handler[g]
  BY <1>1 DEF AddCreate, HandlerAt, HandlerOK, NoHandler
<1>6. NoLive(e) /\ \A g \in Handler : ~Busy(g, e)
  BY <1>4 DEF OneInv, Blank
<1>7. \A f \in Download, k \in JobId : IsLive(f, k)' <=> IsLive(f, k)
  BY <1>2 DEF IsLive
<1>8. \A g \in Handler, f \in Download : Busy(g, f)' <=> Busy(g, f) \/ (g = h /\ f = e)
  BY <1>5 DEF Busy
<1>9. Blank'
  BY <1>4, <1>7, <1>8 DEF OneInv, Blank, NoLive
<1>10. Adds'
  <2> SUFFICES ASSUME NEW g \in Handler, handler'[g].pc # "idle"
               PROVE  /\ handler'[g].d \in Download /\ row'[handler'[g].d].young
                      /\ \A x \in Handler : handler'[x].pc # "idle" /\ handler'[x].d = handler'[g].d => x = g
                      /\ handler'[g].pc # "linking" => \A k \in JobId : ~(k # NoJob /\ job'[handler'[g].d][k].state \in Live)
    BY DEF Adds, Busy, NoLive, IsLive
  <2>1. CASE g = h
    <3>1. NoLive(e)' /\ \A x \in Handler : Busy(x, e)' => x = h
      BY <1>6, <1>7, <1>8 DEF NoLive
    <3> QED BY <1>4, <1>5, <2>1, <3>1 DEF NoLive, IsLive, Busy
  <2>2. CASE g # h
    <3>1. PICK f \in Download : /\ f = handler[g].d /\ row[f].young /\ \A x \in Handler : Busy(x, f) => x = g
                                /\ handler[g].pc # "linking" => NoLive(f)
      BY <1>5, <2>2 DEF OneInv, Adds
    <3>2. f # e
      BY <1>5, <1>6, <2>2, <3>1 DEF Busy
    <3>3. \A x \in Handler : Busy(x, f)' => x = g
      BY <1>8, <3>1, <3>2
    <3>4. handler'[g].pc # "linking" => NoLive(f)'
      BY <1>5, <1>7, <2>2, <3>1 DEF NoLive
    <3> QED BY <1>4, <1>5, <2>2, <3>1, <3>2, <3>3, <3>4 DEF NoLive, IsLive, Busy
  <2> QED BY <2>1, <2>2
<1>11. Recovering'
  <2>1. Recovering /\ rec' = rec /\ \A i \in rec.todo : i.d \in Download
    BY <1>1, <1>2 DEF OneInv, TypeOK, RecOK
  <2>2. rec.pc # "idle" => \A i \in rec.todo : row'[i.d].status # "absent"
    BY <1>4, <2>1 DEF Recovering
  <2>3. CASE rec.pc # "add"
    BY <2>1, <2>2, <2>3 DEF Recovering
  <2>4. CASE rec.pc = "add"
    <3>1. PICK f \in Download : f = rec.d /\ row[f].status # "absent" /\ NoLive(f) /\ \A g \in Handler : ~Busy(g, f)
      BY <2>1, <2>4 DEF Recovering
    <3>2. f # e /\ row'[f].status # "absent" /\ NoLive(f)' /\ \A g \in Handler : ~Busy(g, f)'
      BY <1>4, <1>7, <1>8, <3>1 DEF NoLive
    <3> QED BY <2>1, <2>2, <2>4, <3>1, <3>2 DEF Recovering, NoLive, IsLive, Busy
  <2> QED BY <2>3, <2>4
<1>12. Starting' /\ NoPrio' /\ Viewing'
  BY <1>2, <1>3 DEF OneInv, Starting, Serving, NoPrio, Viewing
<1>13. NoSecondJob'
  BY <1>2, <1>3, <1>7 DEF OneInv, NoSecondJob
<1> QED BY <1>9, <1>10, <1>11, <1>12, <1>13 DEF OneInv

\* The steps of recovery that queue nothing.
LEMMA OneRec ==
  ASSUME OneInv, HeldInv', RowKept, UNCHANGED job, OnlyRec, Serving, Recovering'
  PROVE  OneInv'
<1>1. LiveKept /\ HandlersKept /\ WitnessKept /\ UNCHANGED boot
  BY KeptSame DEF OnlyRec
<1>2. NoPrio' /\ Viewing'
  BY DEF OneInv, NoPrio, Viewing, OnlyRec
<1> QED BY <1>1, <1>2, OneKept

LEMMA OneUser ==
  ASSUME OneInv, HeldInv', Unhurried, User
  PROVE  OneInv'
<1>1. TypeOK /\ RowOK /\ ViewOK
  BY DEF OneInv, HeldInv, TypeOK
<1>2. ASSUME NEW d \in Download, Stop(d) \/ SabResume(d) \/ Delete(d)
      PROVE  OneInv'
  <2>1. PICK move, status : SetByUser(d, move, status) /\ status # "absent"
    BY <1>2 DEF Stop, SabResume, Delete
  <2>2. RowKept /\ UNCHANGED <<job, worker, handler, view, rec, boot>>
    BY <1>1, <2>1, KeptStatus DEF SetByUser
  <2>3. Viewing'
    BY <2>2 DEF OneInv, Viewing
  <2> QED BY <2>2, <2>3, OneRow
<1>3. ASSUME NEW d \in Download, ViewRow(d)
      PROVE  OneInv'
  <2>1. ListsRow(d) => row[d].status # "absent"
    BY DEF ListsRow, ActiveLike
  <2>2. CASE view.pc = "idle"
    <3>1. view'.status = row[d].status /\ ListsRow(d)
      BY <1>3, <2>2 DEF ViewRow, NoView
    <3> QED BY <1>3, <2>1, <3>1, KeptSame, OneRow DEF ViewRow, OnlyView, Viewing
  <2>3. CASE view.pc # "idle" /\ ListsRow(d)
    <3>1. view' = [view EXCEPT !.pc = "write", !.status = row[d].status, !.job = row[d].job]
      BY <1>3, <2>3 DEF ViewRow
    <3>2. view'.status = row[d].status
      BY <1>1, <3>1 DEF ViewOK
    <3> QED BY <1>3, <2>1, <2>3, <3>2, KeptSame, OneRow DEF ViewRow, OnlyView, Viewing
  <2>4. CASE view.pc # "idle" /\ ~ListsRow(d)
    <3>1. view' = NoView
      BY <1>3, <2>4 DEF ViewRow
    <3> QED BY <1>3, <3>1, KeptSame, OneRow DEF ViewRow, OnlyView, Viewing, NoView
  <2> QED BY <2>2, <2>3, <2>4
<1>4. ASSUME NEW d \in Download, ViewJobs(d)
      PROVE  OneInv'
  <2>1. PICK n, state :
          view' = IF view.pc = "idle"
                  THEN [NoView EXCEPT !.pc = "jobsRead", !.d = d, !.live = n, !.state = state]
                  ELSE [view EXCEPT !.pc = "write", !.live = n, !.state = state]
    BY <1>4 DEF ViewJobs
  <2>2. view.pc = "idle" \/ view.pc = "rowRead"
    BY <1>4 DEF ViewJobs
  <2>3. Viewing
    BY DEF OneInv
  <2>4. Viewing'
    BY <1>1, <2>1, <2>2, <2>3 DEF Viewing, ViewOK, NoView
  <2> QED BY <1>4, <2>4, KeptSame, OneRow DEF ViewJobs, OnlyView
<1>5. CASE RecStart
  <2>1. Recovering'
    BY <1>5 DEF RecStart, Recovering, NoRec
  <2> QED BY <1>5, <2>1, KeptSame, OneRec DEF RecStart
<1>6. ASSUME NEW h \in Handler, NEW d \in Download PROVE ~Retry(h, d)
  BY DEF Retry, Unhurried
<1> QED BY <1>2, <1>3, <1>4, <1>5, <1>6, OneCreate DEF User

LEMMA OneRecover ==
  ASSUME OneInv, HeldInv', Recover
  PROVE  OneInv'
<1>1. TypeOK /\ RowOK /\ RecOK /\ JobOK /\ Recovering /\ \A i \in rec.todo : i.d \in Download
  BY DEF OneInv, HeldInv, TypeOK, RecOK
<1>2. Serving /\ rec.pc # "idle"
  BY DEF OneInv, Starting, Recover, RecScan, RecEnd, RecSync, RecAdd, RecLink, RecLook, RecAt
<1>3. CASE RecScan
  <2>1. Recovering'
    BY <1>3 DEF RecScan, Recovering, NoRec, ActiveLike
  <2> QED BY <1>2, <1>3, <2>1, KeptSame, OneRec DEF RecScan
<1>4. CASE RecEnd
  <2>1. Recovering'
    BY <1>4 DEF RecEnd, Recovering, NoRec
  <2> QED BY <1>2, <1>4, <2>1, KeptSame, OneRec DEF RecEnd
<1>5. CASE RecSync \/ RecLink
  <2>1. RowKept /\ UNCHANGED job /\ OnlyRec
    BY <1>1, <1>5, KeptJob, KeptUpdate DEF RecSync, RecLink
  <2>2. rec'.pc = "loop" /\ rec'.todo = rec.todo
    BY <1>1, <1>5 DEF RecSync, RecLink, RecOK
  <2>3. Recovering'
    BY <1>1, <1>2, <2>1, <2>2 DEF Recovering, RowKept
  <2> QED BY <1>2, <2>1, <2>3, OneRec
<1>6. ASSUME NEW i \in rec.todo, RecLook(i)
      PROVE  OneInv'
  <2>1. UNCHANGED <<row, job>> /\ OnlyRec /\ i.d \in Download
    BY <1>1, <1>6 DEF RecLook
  <2>2. CASE \E n \in JobId : Existing(i, n)
    <3>1. PICK n : rec' = [rec EXCEPT !.todo = @ \ {i}, !.d = i.d, !.m = n, !.pc = IF i.job = n THEN "loop" ELSE "sync"]
      BY <1>6, <2>2 DEF RecLook, Existing
    <3>2. rec'.pc \in {"loop", "sync"} /\ rec'.todo \subseteq rec.todo
      BY <1>1, <3>1 DEF RecOK
    <3>3. Recovering'
      BY <1>1, <1>2, <2>1, <3>2 DEF Recovering
    <3> QED BY <1>2, <2>1, <3>3, KeptSame, OneRec
  <2>3. CASE \A n \in JobId : ~Existing(i, n)
    <3> DEFINE pc == IF row[i.d].young THEN "loop" ELSE "add"
    <3>1. rec' = [rec EXCEPT !.todo = @ \ {i}, !.d = i.d, !.doc = i.doc, !.pc = pc] /\ NoLive(i.d)
      BY <1>6, <2>3 DEF RecLook, NoLive
    <3>2. pc \in {"loop", "add"} /\ (pc = "add" => ~row[i.d].young)
      OBVIOUS
    <3> HIDE DEF pc
    <3>3. /\ rec'.todo \subseteq rec.todo /\ rec'.pc \in {"loop", "add"}
          /\ rec'.pc = "add" => rec'.d = i.d /\ NoLive(i.d) /\ ~row[i.d].young
      BY <1>1, <3>1, <3>2 DEF RecOK
    <3>4. ~row[i.d].young => \A h \in Handler : ~Busy(h, i.d)
      BY DEF OneInv, Adds, Busy
    <3>5. row[i.d].status # "absent"
      BY <1>1, <1>2 DEF Recovering
    <3>6. Recovering'
      BY <1>1, <1>2, <2>1, <3>3, <3>4, <3>5 DEF Recovering, NoLive, IsLive, Busy, OnlyRec
    <3> QED BY <1>2, <2>1, <3>6, KeptSame, OneRec
  <2> QED BY <2>2, <2>3
<1>7. CASE RecAdd
  <2>1. UNCHANGED row /\ UNCHANGED <<worker, handler, view, boot>> /\ rec.pc = "add"
    BY <1>7 DEF RecAdd, OnlyRec, RecAt
  <2>2. PICK e \in Download : e = rec.d /\ row[e].status # "absent" /\ NoLive(e) /\ \A h \in Handler : ~Busy(h, e)
    BY <1>1, <2>1 DEF Recovering
  <2>3. PICK n \in AutoId : Queue(e, n, "waiting", rec.doc) /\ rec' = [rec EXCEPT !.pc = "link", !.m = n]
    BY <1>7, <2>2 DEF RecAdd
  <2>4. /\ n \in JobId
        /\ \A f \in Download, k \in JobId : IsLive(f, k)' <=> IsLive(f, k) \/ (f = e /\ k = n)
    BY <1>1, <2>3, QueueLive
  <2>5. \A f \in Download \ {e} : NoLive(f) => NoLive(f)'
    BY <2>4 DEF NoLive
  <2>6. Blank'
    BY <2>1, <2>2, <2>5 DEF OneInv, Blank, Busy
  <2>7. Adds'
    <3> SUFFICES ASSUME NEW g \in Handler, handler[g].pc # "idle"
                 PROVE  /\ handler[g].d \in Download /\ row[handler[g].d].young
                        /\ \A x \in Handler : Busy(x, handler[g].d) => x = g
                        /\ handler'[g].pc # "linking" => \A k \in JobId : ~(k # NoJob /\ job'[handler'[g].d][k].state \in Live)
      BY <2>1 DEF Adds, Busy, NoLive, IsLive
    <3>1. PICK f \in Download : /\ f = handler[g].d /\ row[f].young /\ \A x \in Handler : Busy(x, f) => x = g
                                /\ handler[g].pc # "linking" => NoLive(f)
      BY DEF OneInv, Adds
    <3>2. f # e
      BY <2>2, <3>1 DEF Busy
    <3>3. handler[g].pc # "linking" => NoLive(f)'
      BY <2>5, <3>1, <3>2
    <3> QED BY <2>1, <3>1, <3>3 DEF NoLive, IsLive
  <2>8. Recovering'
    <3>1. rec'.pc = "link" /\ rec'.todo = rec.todo
      BY <1>1, <2>3 DEF RecOK
    <3> QED BY <1>1, <1>2, <2>1, <3>1 DEF Recovering
  <2>9. Starting' /\ NoPrio' /\ Viewing'
    BY <1>2, <2>1 DEF OneInv, Starting, Serving, NoPrio, Viewing
  <2>10. NoSecondJob'
    <3> SUFFICES ASSUME NEW f \in Download, NEW j \in JobId, NEW k \in JobId, j # k, IsLive(f, j)', IsLive(f, k)'
                 PROVE  \E v \in Worker : worker[v].d = f /\ worker[v].n \in {j, k} /\ worker[v].pc \in Requeued
      BY <2>1 DEF NoSecondJob, Requeued
    <3>1. IsLive(f, j) /\ IsLive(f, k)
      BY <2>2, <2>4 DEF NoLive
    <3> QED BY <1>2, <3>1 DEF OneInv, NoSecondJob, Requeued
  <2> QED BY <2>6, <2>7, <2>8, <2>9, <2>10 DEF OneInv
<1> QED BY <1>3, <1>4, <1>5, <1>6, <1>7 DEF Recover

\* What a step that ends with the process still starting has to show.
Rebuilds ==
  /\ boot.pc = "scan" => \A d \in Download : NoLive(d)
  /\ boot.pc \in {"loop", "link"} =>
       /\ \A d \in Download : OneLive(d)
       /\ \A i \in boot.todo : NoLive(i.d) /\ row[i.d].status # "absent" /\ \A j \in boot.todo : j.d = i.d => j = i

LEMMA OneDown ==
  ASSUME HeldInv', ~Serving', rec'.pc = "idle", \A h \in Handler : handler'[h].pc = "idle", Viewing',
         \A d \in Download : row'[d].status = "absent" => NoLive(d)', Rebuilds'
  PROVE  OneInv'
<1>1. Blank' /\ Adds'
  BY DEF Blank, Adds, Busy
<1>2. Starting' /\ Recovering'
  BY DEF Starting, Recovering, Rebuilds
<1>3. NoPrio' /\ NoSecondJob'
  BY DEF NoPrio, NoSecondJob, HeldInv, BootIdle
<1> QED BY <1>1, <1>2, <1>3 DEF OneInv

LEMMA OneBoot ==
  ASSUME OneInv, HeldInv', Boot \/ Crash \/ \E d \in Download, n \in JobId : BootStale(d, n)
  PROVE  OneInv'
<1>1. TypeOK /\ RowOK /\ JobOK /\ BootOK /\ \A i \in boot.todo : i.d \in Download
  BY DEF OneInv, HeldInv, TypeOK, BootOK
<1>2. \A d \in Download : row[d].status = "absent" => NoLive(d)
  BY DEF OneInv, Blank
<1>3. CASE Crash
  <2>1. /\ ~Serving' /\ rec'.pc = "idle" /\ \A h \in Handler : handler'[h].pc = "idle"
        /\ UNCHANGED <<row, job>> /\ boot'.pc = "down"
    BY <1>3 DEF Crash, Serving, NoRec, NoHandler
  <2>2. Viewing' /\ Rebuilds'
    BY <1>3, <2>1 DEF Crash, Viewing, NoView, Rebuilds
  <2> QED BY <1>2, <2>1, <2>2, OneDown DEF NoLive, IsLive
<1>4. ASSUME ~Serving, ~Serving', UNCHANGED <<handler, rec, view>>, RowKept, LiveKept, Rebuilds'
      PROVE  OneInv'
  <2>1. rec'.pc = "idle" /\ \A h \in Handler : handler'[h].pc = "idle"
    BY <1>4 DEF OneInv, Starting
  <2>2. Viewing'
    BY <1>4 DEF OneInv, Viewing
  <2>3. \A d \in Download : row'[d].status = "absent" => NoLive(d)'
    BY <1>2, <1>4 DEF RowKept, LiveKept, NoLive
  <2> QED BY <1>4, <2>1, <2>2, <2>3, OneDown
<1>5. CASE Listen \/ \E d \in Download, n \in JobId : BootStale(d, n)
  <2>1. ~Serving /\ ~Serving' /\ UNCHANGED <<handler, rec, view>> /\ boot'.pc = "stale"
    BY <1>1, <1>5 DEF Listen, BootStale, BootAt, Serving, OnlyBoot, BootOK
  <2>2. RowKept
    BY <1>1, <1>5, KeptUpdate, KeptSame DEF Listen, BootStale
  <2>3. LiveKept
    <3>1. CASE Listen
      BY <3>1, KeptSame DEF Listen
    <3>2. ASSUME NEW e \in Download, NEW k \in JobId, BootStale(e, k)
          PROVE  LiveKept
      <4>1. /\ job'[e][k].state = "over"
            /\ \A f \in Download, n \in JobId : <<f, n>> # <<e, k>> => job'[f][n] = job[f][n]
        BY <1>1, <3>2 DEF BootStale, JobOK
      <4> QED BY <4>1 DEF LiveKept, IsLive, Live
    <3> QED BY <1>5, <3>1, <3>2
  <2>4. Rebuilds'
    BY <2>1 DEF Rebuilds
  <2> QED BY <1>4, <2>1, <2>2, <2>3, <2>4
<1>6. CASE Obliterate
  <2>1. ~Serving /\ ~Serving' /\ UNCHANGED <<handler, rec, view>> /\ boot'.pc = "scan"
    BY <1>1, <1>6 DEF Obliterate, BootAt, Serving, OnlyBoot, BootOK
  <2>2. \A d \in Download : NoLive(d)'
    BY <1>6 DEF Obliterate, NoLive, IsLive, Live
  <2>3. RowKept /\ LiveKept /\ Rebuilds'
    BY <1>6, <2>1, <2>2, KeptSame DEF Obliterate, LiveKept, NoLive, Rebuilds
  <2> QED BY <1>4, <2>1, <2>3
<1>7. CASE BootScan
  <2>1. /\ ~Serving /\ ~Serving' /\ UNCHANGED <<row, job, handler, rec, view>> /\ boot'.pc = "loop"
        /\ boot'.todo = {[d |-> d, doc |-> row[d].doc] : d \in {e \in Download : row[e].status \in ActiveLike}}
    BY <1>1, <1>7 DEF BootScan, BootAt, Serving, OnlyBoot, BootOK, Rebuilt
  <2>2. \A d \in Download : NoLive(d)'
    BY <1>7, <2>1 DEF OneInv, Starting, BootScan, BootAt, NoLive, IsLive
  <2>3. \A i \in boot'.todo : i.d \in Download /\ row'[i.d].status # "absent" /\ \A j \in boot'.todo : j.d = i.d => j = i
    BY <2>1 DEF ActiveLike
  <2>4. ASSUME NEW i \in boot'.todo PROVE \A n \in JobId : ~(n # NoJob /\ job'[i.d][n].state \in Live)
    BY <2>2, <2>3 DEF NoLive, IsLive
  <2>5. \A d \in Download : OneLive(d)'
    BY <2>2 DEF NoLive, OneLive
  <2>6. Rebuilds'
    BY <2>1, <2>3, <2>4, <2>5 DEF Rebuilds, NoLive, IsLive
  <2> QED BY <1>4, <2>1, <2>6, KeptSame
<1>8. CASE boot.pc \in {"loop", "link"}
  <2>1. /\ ~Serving /\ \A d \in Download : OneLive(d)
        /\ \A i \in boot.todo : NoLive(i.d) /\ row[i.d].status # "absent" /\ \A j \in boot.todo : j.d = i.d => j = i
    BY <1>8 DEF OneInv, Starting, Serving
  <2>2. ASSUME RowKept, UNCHANGED <<job, handler, rec, view>>, boot'.pc \in {"loop", "link"}, boot'.todo \subseteq boot.todo
        PROVE  OneInv'
    <3>1. \A d \in Download : OneLive(d)'
      BY <2>1, <2>2 DEF OneLive, IsLive
    <3>2. \A i \in boot'.todo : row'[i.d].status # "absent" /\ \A j \in boot'.todo : j.d = i.d => j = i
      BY <1>1, <2>1, <2>2 DEF RowKept
    <3>3. \A i \in boot'.todo, n \in JobId : ~(n # NoJob /\ job'[i.d][n].state \in Live)
      BY <2>1, <2>2 DEF NoLive, IsLive
    <3>4. Rebuilds' /\ ~Serving'
      BY <2>2, <3>1, <3>2, <3>3 DEF Rebuilds, NoLive, IsLive, Serving
    <3> QED BY <1>4, <2>1, <2>2, <3>4, KeptSame
  <2>3. ASSUME NEW i \in boot.todo, BootFail(i)
        PROVE  OneInv'
    <3>1. RowKept
      BY <1>1, <2>3, KeptSame, KeptStatus DEF BootFail
    <3>2. UNCHANGED <<job, handler, rec, view>> /\ boot'.pc \in {"loop", "link"} /\ boot'.todo \subseteq boot.todo
      BY <1>1, <1>8, <2>3 DEF BootFail, OnlyBoot, BootOK
    <3> QED BY <2>2, <3>1, <3>2
  <2>4. CASE BootLink
    <3>1. RowKept
      BY <1>1, <2>4, KeptUpdate DEF BootLink
    <3>2. UNCHANGED <<job, handler, rec, view>> /\ boot'.pc \in {"loop", "link"} /\ boot'.todo \subseteq boot.todo
      BY <1>1, <1>8, <2>4 DEF BootLink, OnlyBoot, BootOK
    <3> QED BY <2>2, <3>1, <3>2
  <2>5. ASSUME NEW i \in boot.todo, BootAdd(i)
        PROVE  OneInv'
    <3>1. PICK e \in Download : e = i.d /\ NoLive(e) /\ row[e].status # "absent" /\ \A j \in boot.todo : j.d = e => j = i
      BY <1>1, <2>1
    <3>2. PICK n \in AutoId : /\ Queue(e, n, "waiting", TRUE)
                              /\ boot' = [boot EXCEPT !.pc = "link", !.todo = @ \ {i}, !.d = i.d, !.m = n]
      BY <2>5, <3>1 DEF BootAdd
    <3>3. /\ n \in JobId
          /\ \A f \in Download, k \in JobId : IsLive(f, k)' <=> IsLive(f, k) \/ (f = e /\ k = n)
      BY <1>1, <3>2, QueueLive
    <3>4. boot'.pc = "link" /\ boot'.todo = boot.todo \ {i} /\ UNCHANGED <<row, handler, rec, view>> /\ ~Serving'
      BY <1>1, <2>5, <3>2 DEF BootAdd, OnlyBoot, BootOK, Serving
    <3>5. \A f \in Download : OneLive(f)'
      BY <2>1, <3>1, <3>3 DEF OneLive, NoLive
    <3>6. \A f \in Download \ {e} : NoLive(f) => NoLive(f)'
      BY <3>3 DEF NoLive
    <3>7. \A j \in boot'.todo : j \in boot.todo /\ j.d \in Download \ {e} /\ row'[j.d].status # "absent"
      BY <1>1, <2>1, <3>1, <3>4
    <3>8. ASSUME NEW j \in boot'.todo
          PROVE  \A k \in JobId : ~(k # NoJob /\ job'[j.d][k].state \in Live)
      <4>1. PICK f \in Download \ {e} : f = j.d
        BY <3>7
      <4>2. NoLive(f)'
        BY <2>1, <3>6, <3>7, <4>1
      <4> QED BY <4>1, <4>2 DEF NoLive, IsLive
    <3>9. Rebuilds'
      BY <2>1, <3>4, <3>5, <3>7, <3>8 DEF Rebuilds, NoLive, IsLive
    <3>10. rec'.pc = "idle" /\ (\A h \in Handler : handler'[h].pc = "idle") /\ Viewing'
      BY <2>1, <3>4 DEF OneInv, Starting, Viewing
    <3>11. \A d \in Download : row'[d].status = "absent" => NoLive(d)'
      BY <1>2, <3>1, <3>4, <3>6
    <3> QED BY <3>4, <3>9, <3>10, <3>11, OneDown
  <2>6. CASE BootNext /\ boot.again
    <3>1. ~Serving' /\ boot'.pc = "stale" /\ UNCHANGED <<row, job, handler, rec, view>>
      BY <1>1, <2>6 DEF BootNext, BootOK, Serving
    <3>2. Rebuilds'
      BY <3>1 DEF Rebuilds
    <3> QED BY <1>4, <2>1, <3>1, <3>2, KeptSame
  <2>7. CASE BootNext /\ ~boot.again
    <3>1. Serving' /\ boot'.pc = "serving" /\ UNCHANGED <<row, job, worker, handler, view>>
      BY <1>1, <2>7 DEF BootNext, BootOK, Serving
    <3>2. \A h \in Handler : handler'[h].pc = "idle"
      BY <2>1, <3>1 DEF OneInv, Starting
    <3>3. Adds' /\ Starting' /\ Viewing' /\ NoPrio'
      BY <3>1, <3>2 DEF Adds, Starting, OneInv, Viewing, NoPrio, Serving
    <3>4. Blank'
      BY <3>1 DEF OneInv, Blank, NoLive, IsLive, Busy
    <3>5. Recovering'
      <4>1. rec.pc = "idle"
        BY <2>1 DEF OneInv, Starting
      <4>2. rec' = [NoRec EXCEPT !.pc = "scan"] \/ rec' = rec
        BY <2>7 DEF BootNext
      <4> QED BY <4>1, <4>2 DEF Recovering, NoRec
    <3>6. NoSecondJob'
      BY <2>1, <3>1 DEF NoSecondJob, OneLive, IsLive
    <3> QED BY <3>3, <3>4, <3>5, <3>6 DEF OneInv
  <2>8. ~Listen /\ ~Obliterate /\ ~BootScan /\ ~\E d \in Download, n \in JobId : BootStale(d, n)
    BY <1>8 DEF Listen, Obliterate, BootScan, BootStale, BootAt
  <2> QED BY <1>3, <2>3, <2>4, <2>5, <2>6, <2>7, <2>8 DEF Boot
<1>9. BootLink \/ BootNext \/ (\E i \in boot.todo : BootFail(i) \/ BootAdd(i)) => boot.pc \in {"loop", "link"}
  BY DEF BootLink, BootNext, BootFail, BootAdd, BootAt
<1> QED BY <1>3, <1>5, <1>6, <1>7, <1>8, <1>9 DEF Boot

LEMMA OneNext ==
  ASSUME OneInv, Unhurried, [Next]_vars
  PROVE  OneInv'
<1>1. HeldInv'
  BY HeldNext DEF OneInv
<1>2. CASE UNCHANGED vars
  <2>1. Viewing'
    BY <1>2 DEF vars, OneInv, Viewing
  <2> QED BY <1>1, <1>2, <2>1, KeptSame, OneRow DEF vars
<1> QED BY <1>1, <1>2, OneWork, OneTake, OnePromote, OneAge, OneServe, OneUser, OneViewWrite, OneRecover, OneBoot DEF Next

\* Two slots that hold a download hold two live jobs of it, one of which is
\* done or has been queued again.
LEMMA OneWorker == OneInv => OneWorkerPerDownload
<1> SUFFICES ASSUME OneInv, NEW d \in Download, NEW v \in Worker, NEW w \in Worker, WorksOn(v, d), WorksOn(w, d), v # w
             PROVE  FALSE
  BY DEF OneWorkerPerDownload
<1>1. HeldInv /\ worker[v].pc # "idle" /\ worker[w].pc # "idle" /\ worker[v].d = d /\ worker[w].d = d
  BY DEF OneInv, WorksOn
<1>2. PICK m \in JobId, n \in JobId : m = worker[v].n /\ n = worker[w].n
  BY <1>1, HolderLive
<1>3. /\ Serving /\ IsLive(d, m) /\ IsLive(d, n) /\ m # n
      /\ \A u \in Worker : worker[u].d = d => (worker[u].n = m => u = v) /\ (worker[u].n = n => u = w)
  BY <1>1, <1>2, HolderLive
<1>4. PICK u \in Worker : worker[u].d = d /\ worker[u].n \in {m, n} /\ worker[u].pc \in Requeued
  BY <1>3 DEF OneInv, NoSecondJob, Requeued
<1>5. u = v \/ u = w
  BY <1>3, <1>4
<1> QED BY <1>4, <1>5 DEF WorksOn, Requeued

\* As long as nobody retries a download, no job is put off for want of
\* streaming capacity and no request comes before startup recovery is done: a
\* second job of a download is live only while the slot that queued it still
\* holds the first, whatever restarts, recovery and late queue views do.
THEOREM NoSecondJobHolds ==
  ASSUME Unhurried
  PROVE  Spec => []NoSecondJob
<1>1. OneInv /\ [Next]_vars => OneInv'
  BY OneNext
<1>2. OneInv => NoSecondJob
  BY DEF OneInv
<1> QED BY OneInit, <1>1, <1>2, PTL DEF Spec

\* Under the same hypothesis two slots never work on one download, though the
\* queue may hold two jobs for it.
THEOREM OneWorkerPerDownloadHolds ==
  ASSUME Unhurried
  PROVE  Spec => []OneWorkerPerDownload
<1>1. OneInv /\ [Next]_vars => OneInv'
  BY OneNext
<1> QED BY OneInit, <1>1, OneWorker, PTL DEF Spec

-----------------------------------------------------------------------------
\* The pipeline by itself: users who stop or delete, providers who refuse, a
\* job overdue after a restart.

Plain == Allow \subseteq {"stop", "delete", "backoff", "overdue", "slowLink", "noProvider"}

\* No other writer of the table is at work.
Confined ==
  /\ \A w \in Worker : worker[w].pc \notin {"refreshAdd", "refreshLink"}
  /\ \A h \in Handler : handler[h].kind # "retry"
  /\ rec.pc = "idle" /\ view.pc = "idle"

\* The retry a slot has queued and not yet linked stays put.
Waits ==
  \A w \in Worker : worker[w].pc = "backoffLink" =>
    worker[w].m \in JobId /\ job[worker[w].d][worker[w].m].state = "delayed"

LEMMA PlainUnhurried == Plain => Unhurried
BY DEF Plain, Unhurried

\* What is read and what is requeued for other reasons does not happen.
LEMMA PlainSteps ==
  ASSUME Plain, Confined, Next
  PROVE  \/ \E w \in Worker : Work(w) /\ ~RefreshAdd(w) /\ ~RefreshLink(w)
         \/ \E w \in Worker, d \in Download, n \in JobId : Take(w, d, n)
         \/ \E d \in Download, n \in JobId : Promote(d, n) \/ BootStale(d, n)
         \/ \E d \in Download : Age(d)
         \/ \E h \in Handler : Serve(h)
         \/ \E h \in Handler, d \in Download, kind \in {"upload", "url"} : AddCreate(h, d, kind)
         \/ \E d \in Download : Stop(d) \/ Delete(d)
         \/ Crash \/ Boot
<1>1. ASSUME NEW w \in Worker PROVE ~RefreshAdd(w) /\ ~RefreshLink(w)
  BY DEF Confined, RefreshAdd, RefreshLink, Requeue
<1>2. ~Recover /\ ~ViewWrite
  BY DEF Confined, Recover, RecScan, RecEnd, RecSync, RecAdd, RecLink, RecLook, RecAt, ViewWrite
<1>3. ASSUME User
      PROVE  \/ \E h \in Handler, d \in Download, kind \in {"upload", "url"} : AddCreate(h, d, kind)
             \/ \E d \in Download : Stop(d) \/ Delete(d)
  BY <1>3 DEF Plain, User, Retry, SabResume, SetByUser, ViewRow, ViewJobs, RecStart
<1> QED BY <1>1, <1>2, <1>3 DEF Next

LEMMA ConfinedNext ==
  ASSUME TypeOK, Plain, Confined, [Next]_vars
  PROVE  Confined'
<1>1. WorkerOK /\ HandlerOK
  BY DEF TypeOK
<1>2. ASSUME NEW w \in Worker, Work(w)
      PROVE  Confined'
  <2>1. worker[w].pc \notin {"refreshAdd", "refreshLink"} /\ "refresh" \notin Allow
    BY DEF Plain, Confined
  <2>2. worker'[w].pc \notin {"refreshAdd", "refreshLink"} /\ \A v \in Worker \ {w} : worker'[v] = worker[v]
    <3>1. CASE \/ Load(w) \/ Capacity(w) \/ Fetch(w) \/ Fetched(w) \/ Plan(w) \/ Mount(w) \/ Verify(w) \/ Import(w)
               \/ Backoff(w) \/ BackoffLink(w) \/ PrioAdd(w) \/ PrioLink(w) \/ Decide(w)
      <4>1. \E pc : pc \notin {"refreshAdd", "refreshLink"} /\ Goto(w, pc)
        BY <2>1, <3>1 DEF Load, Capacity, Fetch, Fetched, Plan, Mount, Verify, Import, Backoff, BackoffLink, PrioAdd,
           PrioLink, Decide
      <4> QED BY <1>1, <4>1 DEF Goto, WorkerOK
    <3>2. CASE BackoffAdd(w)
      <4>1. PICK n : worker' = [worker EXCEPT ![w].m = n, ![w].pc = "backoffLink"]
        BY <3>2 DEF BackoffAdd, Requeue
      <4> QED BY <1>1, <4>1 DEF WorkerOK
    <3>3. CASE Finish(w)
      BY <1>1, <3>3 DEF Finish, WorkerOK, NoWorker
    <3>4. ~RefreshAdd(w) /\ ~RefreshLink(w)
      BY <2>1 DEF RefreshAdd, RefreshLink, Requeue
    <3> QED BY <1>2, <3>1, <3>2, <3>3, <3>4 DEF Work
  <2>3. OnlyWorker
    BY <1>2 DEF Work, Load, Capacity, Fetch, Fetched, Plan, Mount, Verify, Import, Backoff, BackoffAdd, BackoffLink,
       RefreshAdd, RefreshLink, Requeue, PrioAdd, PrioLink, Decide, Finish
  <2> QED BY <2>2, <2>3 DEF Confined, OnlyWorker
<1>3. ASSUME NEW w \in Worker, NEW d \in Download, NEW n \in JobId, Take(w, d, n)
      PROVE  Confined'
  BY <1>1, <1>3 DEF Take, OnlyWorker, WorkerOK, Confined
<1>4. ASSUME NEW h \in Handler, Serve(h)
      PROVE  Confined'
  <2>1. \A g \in Handler : handler'[g].kind = handler[g].kind \/ handler'[g].kind = "upload"
    BY <1>1, <1>4 DEF Serve, AddStored, AddNamed, HandlerAdd, HandlerLink, Proceed, EndHandler, NoHandler, HandlerOK
  <2>2. UNCHANGED <<worker, rec, view>>
    BY <1>4 DEF Serve, AddStored, AddNamed, HandlerAdd, HandlerLink, OnlyHandler
  <2> QED BY <2>1, <2>2 DEF Confined
<1>5. ASSUME NEW h \in Handler, NEW d \in Download, NEW kind \in {"upload", "url"}, AddCreate(h, d, kind)
      PROVE  Confined'
  <2>1. \A g \in Handler : handler'[g].kind = handler[g].kind \/ handler'[g].kind = kind
    BY <1>1, <1>5 DEF AddCreate, NoHandler, HandlerOK
  <2> QED BY <1>5, <2>1 DEF AddCreate, OnlyHandler, Confined
<1>6. ASSUME UNCHANGED <<worker, handler, rec, view>>
      PROVE  Confined'
  BY <1>6 DEF Confined
<1>7. ASSUME NEW d \in Download, NEW n \in JobId, Promote(d, n) \/ BootStale(d, n) \/ Age(d) \/ Stop(d) \/ Delete(d)
      PROVE  Confined'
  BY <1>6, <1>7 DEF Promote, BootStale, Age, Stop, Delete, SetByUser, OnlyBoot
<1>8. CASE Crash
  BY <1>8 DEF Crash, Confined, NoWorker, NoHandler, NoRec, NoView
<1>9. CASE Boot
  <2>1. UNCHANGED <<worker, handler, view>>
    BY <1>9 DEF Boot, Listen, Obliterate, BootScan, BootLink, BootNext, BootFail, BootAdd, OnlyBoot
  <2>2. rec' = rec
    BY <1>9 DEF Boot, Listen, Obliterate, BootScan, BootLink, BootNext, BootFail, BootAdd, OnlyBoot, Plain
  <2> QED BY <1>6, <2>1, <2>2
<1>10. CASE UNCHANGED vars
  BY <1>6, <1>10 DEF vars
<1>11. ASSUME NEW d \in Download, Age(d) \/ Stop(d) \/ Delete(d)
       PROVE  Confined'
  BY <1>6, <1>11 DEF Age, Stop, Delete, SetByUser
<1> QED BY <1>2, <1>3, <1>4, <1>5, <1>7, <1>8, <1>9, <1>10, <1>11, PlainSteps

\* A job that waits for its promotion is touched by nothing but that.
LEMMA WaitsNext ==
  ASSUME HeldInv, HeldInv', Plain, Confined, Waits, [Next]_vars
  PROVE  Waits'
<1>1. TypeOK /\ WorkerOK /\ JobOK
  BY DEF HeldInv, TypeOK
<1>2. ASSUME NEW v \in Worker, worker[v].pc = "backoffLink"
      PROVE  /\ Serving /\ worker[v].d \in Download /\ worker[v].m \in JobId
             /\ job[worker[v].d][worker[v].m].state = "delayed"
  BY <1>2, HolderLive DEF Waits
<1>3. ASSUME \A v \in Worker : worker'[v].pc = "backoffLink" => worker'[v] = worker[v],
             \A d \in Download, n \in JobId :
               job[d][n].state = "delayed" /\ (\E v \in Worker : worker[v].d = d /\ worker[v].m = n /\ worker[v].pc = "backoffLink")
                 => job'[d][n].state = "delayed"
      PROVE  Waits'
  <2> SUFFICES ASSUME NEW v \in Worker, worker'[v].pc = "backoffLink"
               PROVE  worker'[v].m \in JobId /\ job'[worker'[v].d][worker'[v].m].state = "delayed"
    BY DEF Waits
  <2> QED BY <1>2, <1>3
<1>4. ASSUME UNCHANGED job, NEW w \in Worker, NEW pc, pc # "backoffLink", Goto(w, pc)
      PROVE  Waits'
  <2>1. \A v \in Worker : worker'[v].pc = "backoffLink" => worker'[v] = worker[v]
    BY <1>1, <1>4 DEF Goto, WorkerOK
  <2> QED BY <1>3, <1>4, <2>1
<1>5. ASSUME NEW w \in Worker, Load(w) \/ Capacity(w) \/ Fetch(w) \/ Fetched(w) \/ Plan(w) \/ Mount(w) \/ Verify(w)
               \/ Import(w) \/ Backoff(w) \/ BackoffLink(w) \/ PrioLink(w) \/ Decide(w)
      PROVE  Waits'
  <2>1. UNCHANGED job
    BY <1>5 DEF Load, Capacity, Fetch, Fetched, Plan, Mount, Verify, Import, Backoff, BackoffLink, PrioLink, Decide
  <2>2. \E pc : pc # "backoffLink" /\ Goto(w, pc)
    BY <1>5 DEF Load, Capacity, Fetch, Fetched, Plan, Mount, Verify, Import, Backoff, BackoffLink, PrioLink, Decide
  <2> QED BY <1>4, <2>1, <2>2
<1>6. ASSUME NEW w \in Worker, BackoffAdd(w)
      PROVE  Waits'
  <2>1. worker[w].pc = "backoffAdd"
    BY <1>6 DEF BackoffAdd, Requeue
  <2>2. PICK e \in Download : e = worker[w].d
    BY <1>1, <2>1 DEF TypeOK
  <2>3. PICK n \in AutoId : /\ Queue(e, n, "delayed", job[e][worker[w].n].doc)
                            /\ worker' = [worker EXCEPT ![w].m = n, ![w].pc = "backoffLink"]
    BY <1>6, <2>2 DEF BackoffAdd, Requeue
  <2>4. /\ n \in JobId /\ ~IsLive(e, n) /\ job'[e][n].state = "delayed"
        /\ \A f \in Download, k \in JobId : <<f, k>> # <<e, n>> => job'[f][k] = job[f][k]
    BY <1>1, <2>3, QueueLive
  <2>5. /\ worker'[w].d = e /\ worker'[w].m = n
        /\ \A v \in Worker \ {w} : worker'[v] = worker[v]
    BY <1>1, <2>2, <2>3 DEF WorkerOK
  <2> SUFFICES ASSUME NEW v \in Worker, worker'[v].pc = "backoffLink"
               PROVE  worker'[v].m \in JobId /\ job'[worker'[v].d][worker'[v].m].state = "delayed"
    BY DEF Waits
  <2>6. CASE v = w
    BY <2>4, <2>5, <2>6
  <2>7. CASE v # w
    <3>1. worker[v].pc = "backoffLink" /\ worker'[v] = worker[v]
      BY <2>5, <2>7
    <3>2. <<worker[v].d, worker[v].m>> # <<e, n>>
      BY <1>2, <2>4, <3>1 DEF IsLive, Live, NoJob, JobId, AutoId, Prio
    <3> QED BY <1>2, <2>4, <3>1, <3>2
  <2> QED BY <2>6, <2>7
<1>7. ASSUME NEW w \in Worker, Finish(w)
      PROVE  Waits'
  <2>1. \A v \in Worker : worker'[v].pc = "backoffLink" => worker'[v] = worker[v]
    BY <1>1, <1>7 DEF Finish, NoWorker, WorkerOK
  <2>2. PICK e \in Download, i \in JobId : e = worker[w].d /\ i = worker[w].n /\ job[e][i].state = "active"
    BY <1>7, HolderLive DEF Finish
  <2>3. \A f \in Download, k \in JobId : <<f, k>> # <<e, i>> => job'[f][k] = job[f][k]
    BY <1>1, <1>7, <2>2 DEF Finish, JobOK
  <2> QED BY <1>3, <2>1, <2>2, <2>3
<1>8. ASSUME NEW w \in Worker, PrioAdd(w)
      PROVE  Waits'
  <2>1. worker[w].pc = "prioAdd" /\ Goto(w, "prioLink")
    BY <1>8 DEF PrioAdd
  <2>2. PICK e \in Download : e = worker[w].d
    BY <1>1, <2>1 DEF TypeOK
  <2>3. \A v \in Worker : worker'[v].pc = "backoffLink" => worker'[v] = worker[v]
    BY <1>1, <2>1 DEF Goto, WorkerOK
  <2>4. \A f \in Download, k \in JobId : job[f][k].state # "none" => job'[f][k] = job[f][k]
    BY <1>1, <1>8, <2>2 DEF PrioAdd, QueuePrio, JobOK, JobId
  <2> QED BY <1>3, <2>3, <2>4
<1>9. ASSUME NEW w \in Worker, NEW d \in Download, NEW n \in JobId, Take(w, d, n)
      PROVE  Waits'
  <2>1. \A v \in Worker : worker'[v].pc = "backoffLink" => worker'[v] = worker[v]
    BY <1>1, <1>9 DEF Take, WorkerOK
  <2>2. \A f \in Download, k \in JobId : job[f][k].state = "delayed" => job'[f][k] = job[f][k]
    BY <1>1, <1>9 DEF Take, JobOK
  <2> QED BY <1>3, <2>1, <2>2
<1>10. ASSUME NEW d \in Download, NEW n \in JobId, Promote(d, n)
       PROVE  Waits'
  <2>1. \A f \in Download, k \in JobId : f # d => job'[f][k] = job[f][k]
    BY <1>1, <1>10 DEF Promote, JobOK
  <2> QED BY <1>3, <1>10, <2>1 DEF Promote
<1>11. ASSUME NEW h \in Handler, Serve(h)
       PROVE  Waits'
  <2>1. \A f \in Download, k \in JobId : job[f][k].state # "none" => job'[f][k] = job[f][k]
    <3>1. CASE HandlerAdd(h)
      <4>1. PICK n \in AutoId : Queue(handler[h].d, n, "waiting", handler[h].doc)
        BY <3>1 DEF HandlerAdd
      <4> QED BY <1>1, <4>1 DEF Queue, JobOK, JobId
    <3>2. CASE ~HandlerAdd(h)
      BY <1>11, <3>2 DEF Serve, AddStored, AddNamed, HandlerLink
    <3> QED BY <3>1, <3>2
  <2>2. UNCHANGED worker
    BY <1>11 DEF Serve, AddStored, AddNamed, HandlerAdd, HandlerLink, OnlyHandler
  <2> QED BY <1>3, <2>1, <2>2
<1>12. ASSUME UNCHANGED <<job, worker>>
       PROVE  Waits'
  BY <1>3, <1>12
<1>13. CASE ~Serving'
  BY <1>13 DEF HeldInv, BootIdle, Waits
<1>14. CASE \/ \E h \in Handler, d \in Download, kind \in {"upload", "url"} : AddCreate(h, d, kind)
            \/ (\E d \in Download : Stop(d) \/ Delete(d) \/ Age(d)) \/ BootNext \/ UNCHANGED vars
  BY <1>12, <1>14 DEF AddCreate, OnlyHandler, Stop, Delete, SetByUser, Age, BootNext, vars
<1>15. Crash \/ (Boot /\ ~BootNext) \/ (\E d \in Download, n \in JobId : BootStale(d, n)) => ~Serving'
  <2>1. BootOK
    BY <1>1 DEF TypeOK
  <2>2. Crash \/ Listen \/ Obliterate \/ BootScan \/ BootLink => ~Serving'
    <3>1. Crash => boot'.pc = "down"
      BY DEF Crash
    <3>2. Listen \/ Obliterate => boot'.pc \in {"stale", "scan"}
      BY <2>1 DEF Listen, Obliterate, BootOK
    <3>3. BootScan \/ BootLink => boot'.pc = "loop"
      BY <2>1 DEF BootScan, BootLink, BootOK
    <3> QED BY <3>1, <3>2, <3>3 DEF Serving
  <2>3. ASSUME NEW i \in boot.todo, BootFail(i) \/ BootAdd(i)
        PROVE  ~Serving'
    <3>1. CASE BootFail(i)
      BY <2>1, <3>1 DEF BootFail, BootAt, Serving, BootOK
    <3>2. CASE BootAdd(i)
      <4>1. PICK n \in AutoId : boot' = [boot EXCEPT !.pc = "link", !.todo = @ \ {i}, !.d = i.d, !.m = n]
        BY <3>2 DEF BootAdd
      <4> QED BY <2>1, <4>1 DEF Serving, BootOK
    <3> QED BY <2>3, <3>1, <3>2
  <2>4. ASSUME NEW d \in Download, NEW n \in JobId, BootStale(d, n)
        PROVE  ~Serving'
    BY <2>1, <2>4 DEF BootStale, BootAt, Serving, BootOK
  <2> QED BY <2>2, <2>3, <2>4 DEF Boot
<1>16. ASSUME NEW w \in Worker, Work(w), ~RefreshAdd(w), ~RefreshLink(w)
       PROVE  Waits'
  BY <1>5, <1>6, <1>7, <1>8, <1>16 DEF Work
<1> QED BY <1>9, <1>10, <1>11, <1>13, <1>14, <1>15, <1>16, PlainSteps

\* Beside a job a slot still works on, only a job about to end is live.
LEMMA OtherFinishes ==
  ASSUME OneInv, Confined, Waits, NEW w \in Worker, NEW d \in Download, NEW k \in JobId,
         worker[w].d = d, worker[w].pc \notin Requeued \union {"idle"}, k # worker[w].n, IsLive(d, k)
  PROVE  \E u \in Worker : worker[u].d = d /\ worker[u].n = k /\ worker[u].pc = "finish"
<1>1. HeldInv
  BY DEF OneInv
<1>2. PICK n \in JobId : n = worker[w].n /\ Serving /\ job[d][n].state = "active" /\ IsLive(d, n)
                         /\ \A v \in Worker : worker[v].d = d /\ worker[v].n = n => v = w
  BY <1>1, HolderLive
<1>3. ASSUME NEW j \in JobId, j # n, IsLive(d, j)
      PROVE  \E u \in Worker : worker[u].d = d /\ worker[u].n = j /\ worker[u].pc \in Requeued
  BY <1>2, <1>3 DEF OneInv, NoSecondJob, Requeued
<1>4. PICK u \in Worker : worker[u].d = d /\ worker[u].n = k /\ worker[u].pc \in Requeued
  BY <1>2, <1>3
<1>5. worker[u].pc # "backoffLink"
  <2> SUFFICES ASSUME worker[u].pc = "backoffLink" PROVE FALSE
    OBVIOUS
  <2>1. PICK m \in JobId : m = worker[u].m /\ job[d][m].state = "delayed"
    BY <1>4 DEF Waits
  <2>2. m # n /\ IsLive(d, m)
    BY <1>2, <2>1 DEF IsLive, Live, NoJob, JobId, AutoId, Prio
  <2>3. PICK v \in Worker : worker[v].d = d /\ worker[v].n = m /\ worker[v].pc \in Requeued
    BY <1>3, <2>2
  <2> QED BY <1>1, <2>1, <2>3, HolderLive DEF Requeued
<1> QED BY <1>4, <1>5 DEF Confined, Requeued

\* The updates of a row, field by field.
LEMMA UpdateIs ==
  ASSUME RowOK, NEW e \in Download, NEW status, NEW n, Update(e, status, n)
  PROVE  /\ row'[e].status = (IF Exists(e) THEN status ELSE row[e].status)
         /\ row'[e].job = (IF Exists(e) THEN n ELSE row[e].job)
         /\ row'[e].doc = row[e].doc
         /\ \A d \in Download \ {e} : row'[d] = row[d]
BY DEF RowOK, Update

LEMMA StatusIs ==
  ASSUME RowOK, NEW e \in Download, NEW status, SetStatus(e, status)
  PROVE  /\ row'[e].status = (IF Exists(e) THEN status ELSE row[e].status)
         /\ row'[e].job = row[e].job /\ row'[e].doc = row[e].doc
         /\ \A d \in Download \ {e} : row'[d] = row[d]
BY UpdateIs DEF SetStatus

LEMMA JobIs ==
  ASSUME RowOK, NEW e \in Download, NEW n, SetJob(e, n)
  PROVE  /\ row'[e].status = row[e].status
         /\ row'[e].job = (IF Exists(e) THEN n ELSE row[e].job)
         /\ row'[e].doc = row[e].doc
         /\ \A d \in Download \ {e} : row'[d] = row[d]
BY UpdateIs DEF SetJob

LEMMA StoredIs ==
  ASSUME RowOK, NEW e \in Download, row' = IF Exists(e) THEN [row EXCEPT ![e].doc = TRUE] ELSE row
  PROVE  /\ row'[e].status = row[e].status /\ row'[e].job = row[e].job
         /\ row'[e].doc = (IF Exists(e) THEN TRUE ELSE row[e].doc)
         /\ \A d \in Download \ {e} : row'[d] = row[d]
BY DEF RowOK

-----------------------------------------------------------------------------
\* What was decided has no job left but those that are about to end, and no
\* request that would still change its status.

Calm == Allow \subseteq {"stop", "delete", "backoff", "slowLink", "noProvider"}

Decided(d) == row[d].status \in {"available", "failed"}
Ending == {"decide", "finish"}
Quiet(d) ==
  /\ \A n \in JobId : IsLive(d, n) => \E w \in Worker : worker[w].d = d /\ worker[w].n = n /\ worker[w].pc \in Ending
  /\ \A h \in Handler : Busy(h, d) => handler[h].pc = "linking"
DecidedIdle ==
  /\ Serving => \A d \in Download : Decided(d) => Quiet(d)
  /\ boot.pc \in {"loop", "link"} =>
       /\ \A i \in boot.todo : row[i.d].status \in ActiveLike
       /\ boot.pc = "link" => boot.d \in Download /\ row[boot.d].status \in ActiveLike
       /\ \A d \in Download : row[d].status \notin ActiveLike => NoLive(d)
DecidedInv == OneInv /\ Confined /\ Waits /\ DecidedIdle

\* What a step has to show of one download.
Keeps(d) == (Decided(d)' => Quiet(d)') /\ (Decided(d) => row'[d].status \notin ActiveLike)

LEMMA QuietSame ==
  ASSUME NEW d \in Download, Decided(d)' => Decided(d), row'[d].status \in ActiveLike => row[d].status \in ActiveLike,
         Decided(d) => Quiet(d), \A n \in JobId : IsLive(d, n)' => IsLive(d, n),
         \A w \in Worker : worker[w].d = d /\ worker[w].pc \in Ending =>
           worker'[w].d = d /\ worker'[w].n = worker[w].n /\ worker'[w].pc \in Ending,
         \A h \in Handler : Busy(h, d)' => Busy(h, d) /\ (handler[h].pc = "linking" => handler'[h].pc = "linking")
  PROVE  Keeps(d)
<1>1. Decided(d) => row'[d].status \notin ActiveLike
  BY DEF Decided, ActiveLike
<1>2. ASSUME Decided(d)' PROVE Quiet(d)'
  BY <1>2 DEF Quiet
<1> QED BY <1>1, <1>2 DEF Keeps

\* A slot that leaves its work for the end of its job.
LEMMA SlotEnds ==
  ASSUME DecidedInv, NEW w \in Worker, NEW d \in Download, worker[w].d = d, worker[w].pc \notin Requeued \union {"idle"},
         UNCHANGED <<job, handler>>, worker'[w].d = d, worker'[w].n = worker[w].n, worker'[w].pc \in Ending,
         \A v \in Worker \ {w} : worker'[v] = worker[v]
  PROVE  Quiet(d)'
<1>1. OneInv /\ Confined /\ Waits /\ HeldInv
  BY DEF DecidedInv, OneInv
<1>2. PICK n \in JobId : n = worker[w].n /\ IsLive(d, n)
  BY <1>1, HolderLive
<1>3. ASSUME NEW k \in JobId, IsLive(d, k)
      PROVE  \E u \in Worker : worker'[u].d = d /\ worker'[u].n = k /\ worker'[u].pc \in Ending
  <2>1. CASE k = n
    BY <1>2, <2>1
  <2>2. CASE k # n
    <3>1. PICK u \in Worker : worker[u].d = d /\ worker[u].n = k /\ worker[u].pc = "finish"
      BY <1>1, <1>2, <1>3, <2>2, OtherFinishes
    <3>2. u # w
      BY <1>2, <2>2, <3>1
    <3> QED BY <3>1, <3>2 DEF Ending
  <2> QED BY <2>1, <2>2
<1>4. ASSUME NEW h \in Handler, Busy(h, d)
      PROVE  handler[h].pc = "linking"
  BY <1>1, <1>2, <1>4 DEF OneInv, Adds, Busy, NoLive
<1> QED BY <1>3, <1>4 DEF Quiet, IsLive, Busy

\* A slot at work holds a job of a download that is not decided.
LEMMA AtWork ==
  ASSUME DecidedInv, NEW w \in Worker, NEW d \in Download, worker[w].d = d, worker[w].pc \notin Ending \union {"idle"}
  PROVE  ~Decided(d)
<1>1. PICK n \in JobId : n = worker[w].n /\ IsLive(d, n) /\ Serving
                         /\ \A v \in Worker : worker[v].d = d /\ worker[v].n = n => v = w
  BY HolderLive DEF DecidedInv, OneInv
<1> QED BY <1>1 DEF DecidedInv, DecidedIdle, Quiet

LEMMA DecidedGoto ==
  ASSUME DecidedInv, NEW w \in Worker, NEW pc, worker[w].pc \notin {"idle", "finish"}, Goto(w, pc), UNCHANGED <<job, handler>>,
         NEW e \in Download, worker[w].d = e, \A d \in Download \ {e} : row'[d] = row[d],
         Decided(e)' => Decided(e) \/ (pc \in Ending /\ worker[w].pc \notin Requeued),
         worker[w].pc = "decide" => pc = "finish" /\ row'[e].status \notin ActiveLike
  PROVE  \A d \in Download : Keeps(d)
<1>1. WorkerOK /\ Serving
  BY HolderLive DEF DecidedInv, OneInv, HeldInv, TypeOK
<1>2. /\ worker'[w].d = e /\ worker'[w].n = worker[w].n /\ worker'[w].pc = pc
      /\ \A v \in Worker \ {w} : worker'[v] = worker[v]
  BY <1>1 DEF Goto, WorkerOK
<1>3. ASSUME NEW d \in Download, d # e
      PROVE  Keeps(d)
  <2>1. Decided(d) => Quiet(d)
    BY <1>1 DEF DecidedInv, DecidedIdle
  <2> QED BY <1>2, <1>3, <2>1, QuietSame DEF Decided, IsLive, Busy
<1>4. Keeps(e)
  <2>1. ASSUME Decided(e) PROVE worker[w].pc = "decide" /\ pc = "finish"
    BY <2>1, AtWork DEF Ending
  <2>2. ASSUME Decided(e)' PROVE pc \in Ending /\ worker[w].pc \notin Requeued \union {"idle"}
    BY <2>1, <2>2 DEF Ending, Requeued
  <2>3. Decided(e)' => Quiet(e)'
    BY <1>2, <2>2, SlotEnds
  <2> QED BY <2>1, <2>3 DEF Keeps
<1> QED BY <1>3, <1>4

LEMMA DecidedWork ==
  ASSUME DecidedInv, NEW w \in Worker, Work(w), ~RefreshAdd(w), ~RefreshLink(w)
  PROVE  \A d \in Download : Keeps(d)
<1>1. WorkerOK /\ RowOK /\ JobOK /\ HeldInv /\ TypeOK /\ worker[w].pc \notin {"prioAdd", "prioLink"}
  BY DEF DecidedInv, OneInv, HeldInv, TypeOK, NoPrio
<1>2. worker[w].pc # "idle"
  BY DEF Work, Load, Capacity, Fetch, Fetched, Plan, Mount, Verify, Import, Backoff, BackoffAdd, BackoffLink,
         RefreshAdd, RefreshLink, Requeue, PrioAdd, PrioLink, Decide, Finish
<1>3. PICK e \in Download, i \in JobId : e = worker[w].d /\ i = worker[w].n /\ Serving /\ job[e][i].state = "active"
                                         /\ \A v \in Worker : worker[v].d = e /\ worker[v].n = i => v = w
  BY <1>1, <1>2, HolderLive
<1>4. ASSUME NEW pc, Goto(w, pc), UNCHANGED <<job, handler>>, worker[w].pc \notin {"idle", "finish"},
             \/ UNCHANGED row
             \/ row' = (IF Exists(e) THEN [row EXCEPT ![e].doc = TRUE] ELSE row)
             \/ SetJob(e, worker[w].m)
             \/ \E status : SetStatus(e, status) /\ (status \in {"available", "failed"} => pc \in Ending /\ worker[w].pc \notin Requeued),
             worker[w].pc = "decide" =>
               pc = "finish" /\ \E status : SetStatus(e, status) /\ status \notin ActiveLike
      PROVE  \A d \in Download : Keeps(d)
  <2>1. \A d \in Download \ {e} : row'[d] = row[d]
    BY <1>1, <1>4, JobIs, StatusIs, StoredIs
  <2>2. Decided(e)' => Decided(e) \/ (pc \in Ending /\ worker[w].pc \notin Requeued)
    <3>1. CASE row'[e].status = row[e].status
      BY <3>1 DEF Decided
    <3>2. ASSUME NEW status, SetStatus(e, status), status \in {"available", "failed"} => pc \in Ending /\ worker[w].pc \notin Requeued
          PROVE  Decided(e)' => Decided(e) \/ (pc \in Ending /\ worker[w].pc \notin Requeued)
      <4>1. row'[e].status = (IF Exists(e) THEN status ELSE row[e].status)
        BY <1>1, <3>2, StatusIs
      <4> QED BY <3>2, <4>1 DEF Decided
    <3>3. SetJob(e, worker[w].m) \/ row' = (IF Exists(e) THEN [row EXCEPT ![e].doc = TRUE] ELSE row) => row'[e].status = row[e].status
      BY <1>1, JobIs, StoredIs
    <3> QED BY <1>4, <3>1, <3>2, <3>3
  <2>3. ASSUME worker[w].pc = "decide"
        PROVE  pc = "finish" /\ row'[e].status \notin ActiveLike
    <3>1. PICK status : SetStatus(e, status) /\ status \notin ActiveLike
      BY <1>4, <2>3
    <3>2. row'[e].status = (IF Exists(e) THEN status ELSE row[e].status)
      BY <1>1, <3>1, StatusIs
    <3>3. ~Exists(e) => row[e].status \notin ActiveLike
      BY DEF Exists, ActiveLike
    <3> QED BY <1>4, <2>3, <3>1, <3>2, <3>3
  <2> QED BY <1>3, <1>4, <2>1, <2>2, <2>3, DecidedGoto
<1>5. CASE Load(w) \/ Capacity(w) \/ Plan(w)
  BY <1>4, <1>5 DEF Load, Capacity, Plan, OnlyWorker
<1>6. CASE Fetch(w) \/ Mount(w) \/ Verify(w) \/ Backoff(w)
  <2>1. \E pc : Goto(w, pc)
    BY <1>6 DEF Fetch, Mount, Verify, Backoff
  <2>2. \/ UNCHANGED row
        \/ \E status \in {"fetching_nzb", "verifying", "waiting_for_provider", "prepared"} : SetStatus(e, status)
    BY <1>3, <1>6 DEF Fetch, Mount, Verify, Backoff
  <2>3. UNCHANGED <<job, handler>> /\ worker[w].pc \in {"fetch", "mount", "verify", "backoff"}
    BY <1>6 DEF Fetch, Mount, Verify, Backoff, OnlyWorker
  <2> QED BY <1>4, <2>1, <2>2, <2>3
<1>7. CASE Fetched(w)
  <2>1. worker[w].pc = "fetching" /\ UNCHANGED <<job, handler>>
    BY <1>7 DEF Fetched, OnlyWorker
  <2>2. CASE (row' = IF Exists(e) THEN [row EXCEPT ![e].doc = TRUE] ELSE row) /\ Goto(w, "plan")
    BY <1>4, <2>1, <2>2
  <2>3. CASE \E status \in {"failed", "cancelled"} : SetStatus(e, status) /\ Goto(w, "decide")
    BY <1>4, <2>1, <2>3 DEF Ending, Requeued
  <2>4. CASE Goto(w, "decide") /\ UNCHANGED row
    BY <1>4, <2>1, <2>4
  <2> QED BY <1>3, <1>7, <2>2, <2>3, <2>4 DEF Fetched
<1>8. CASE Import(w)
  <2>1. worker[w].pc = "import" /\ UNCHANGED <<job, handler>>
    BY <1>8 DEF Import, OnlyWorker
  <2>2. PICK pc \in Ending : Goto(w, pc)
    BY <1>8 DEF Import, Ending
  <2>3. UNCHANGED row \/ SetStatus(e, "available")
    BY <1>3, <1>8 DEF Import
  <2> QED BY <1>4, <2>1, <2>2, <2>3 DEF Requeued
<1>9. CASE BackoffLink(w)
  BY <1>3, <1>4, <1>9 DEF BackoffLink, OnlyWorker
<1>10. CASE Decide(w)
  <2>1. PICK status \in {"failed", "cancelled"} : SetStatus(e, status)
    BY <1>3, <1>10 DEF Decide
  <2>2. Goto(w, "finish") /\ worker[w].pc = "decide" /\ UNCHANGED <<job, handler>> /\ status \notin ActiveLike
    BY <1>10 DEF Decide, OnlyWorker, ActiveLike
  <2> QED BY <1>4, <2>1, <2>2 DEF Ending, Requeued
<1>11. CASE BackoffAdd(w)
  <2>1. worker[w].pc = "backoffAdd" /\ UNCHANGED <<row, handler>>
    BY <1>11 DEF BackoffAdd, Requeue, OnlyWorker
  <2>2. PICK n \in AutoId : /\ Queue(e, n, "delayed", job[e][worker[w].n].doc)
                            /\ worker' = [worker EXCEPT ![w].m = n, ![w].pc = "backoffLink"]
    BY <1>3, <1>11 DEF BackoffAdd, Requeue
  <2>3. \A f \in Download, k \in JobId : IsLive(f, k)' <=> IsLive(f, k) \/ (f = e /\ k = n)
    <3> DEFINE doc == job[e][worker[w].n].doc
    <3>1. JobOK /\ Queue(e, n, "delayed", doc)
      BY <1>1, <2>2
    <3> HIDE DEF doc
    <3> QED BY <3>1, QueueLive
  <2>4. \A v \in Worker \ {w} : worker'[v] = worker[v]
    BY <1>1, <2>2 DEF WorkerOK
  <2>5. ~Decided(e)
    BY <1>3, <2>1, AtWork DEF Ending
  <2>6. ASSUME NEW d \in Download, d # e
        PROVE  Keeps(d)
    <3>1. Decided(d) => Quiet(d)
      BY <1>3 DEF DecidedInv, DecidedIdle
    <3> QED BY <1>3, <2>1, <2>3, <2>4, <2>6, <3>1, QuietSame DEF Decided, Busy
  <2> QED BY <2>1, <2>5, <2>6 DEF Keeps, Decided
<1>12. CASE Finish(w)
  <2>1. UNCHANGED <<row, handler>>
    BY <1>12 DEF Finish, OnlyWorker
  <2>2. /\ job'[e][i].state = "over"
        /\ \A f \in Download, k \in JobId : <<f, k>> # <<e, i>> => job'[f][k] = job[f][k]
    BY <1>1, <1>3, <1>12 DEF Finish, JobOK
  <2>3. \A v \in Worker \ {w} : worker'[v] = worker[v]
    BY <1>1, <1>12 DEF Finish, WorkerOK
  <2>4. ~IsLive(e, i)'
    BY <2>2 DEF IsLive, Live
  <2> SUFFICES ASSUME NEW d \in Download PROVE Keeps(d)
    OBVIOUS
  <2>5. Decided(d) => Quiet(d)
    BY <1>3 DEF DecidedInv, DecidedIdle
  <2>6. ASSUME Quiet(d), NEW n \in JobId, IsLive(d, n)'
        PROVE  \E v \in Worker : worker'[v].d = d /\ worker'[v].n = n /\ worker'[v].pc \in Ending
    <3>1. <<d, n>> # <<e, i>> /\ IsLive(d, n)
      BY <2>2, <2>4, <2>6 DEF IsLive
    <3>2. PICK v \in Worker : worker[v].d = d /\ worker[v].n = n /\ worker[v].pc \in Ending
      BY <2>6, <3>1 DEF Quiet
    <3> QED BY <1>3, <2>3, <3>1, <3>2
  <2>7. Quiet(d) => Quiet(d)'
    BY <2>1, <2>6 DEF Quiet, Busy
  <2> QED BY <2>1, <2>5, <2>7 DEF Keeps, Decided, ActiveLike
<1>13. ~PrioAdd(w) /\ ~PrioLink(w)
  BY <1>1 DEF PrioAdd, PrioLink
<1> QED BY <1>5, <1>6, <1>7, <1>8, <1>9, <1>10, <1>11, <1>12, <1>13 DEF Work

LEMMA DecidedServe ==
  ASSUME DecidedInv, NEW h \in Handler, Serve(h)
  PROVE  \A d \in Download : Keeps(d)
<1>1. RowOK /\ JobOK /\ HandlerOK /\ OneInv /\ UNCHANGED worker
  BY DEF DecidedInv, OneInv, HeldInv, TypeOK, Serve, AddStored, AddNamed, HandlerAdd, HandlerLink, OnlyHandler
<1>2. handler[h].pc # "idle"
  BY DEF Serve, AddStored, AddNamed, HandlerAdd, HandlerLink, HandlerAt
<1>3. PICK e \in Download : /\ e = handler[h].d /\ Busy(h, e) /\ \A g \in Handler : Busy(g, e) => g = h
                            /\ handler[h].pc # "linking" => NoLive(e)
  BY <1>1, <1>2 DEF OneInv, Adds, Busy
<1>4. Serving /\ \A d \in Download : Decided(d) => Quiet(d)
  BY <1>1, <1>2 DEF OneInv, Starting, DecidedInv, DecidedIdle
<1>5. Decided(e) => handler[h].pc = "linking"
  BY <1>3, <1>4 DEF Quiet
<1>6. ASSUME \A d \in Download \ {e} : row'[d] = row[d], \A g \in Handler \ {h} : handler'[g] = handler[g],
             handler'[h].pc = "idle" \/ handler'[h].d = e,
             \A f \in Download, k \in JobId : IsLive(f, k)' => IsLive(f, k) \/ f = e
      PROVE  \A d \in Download \ {e} : Keeps(d)
  <2> SUFFICES ASSUME NEW d \in Download, d # e PROVE Keeps(d)
    OBVIOUS
  <2>1. \A g \in Handler : Busy(g, d)' => Busy(g, d) /\ handler'[g].pc = handler[g].pc
    BY <1>6 DEF Busy
  <2> QED BY <1>1, <1>4, <1>6, <2>1, QuietSame DEF Decided
<1>7. ASSUME UNCHANGED job, row'[e].status = row[e].status, HandlersKept
      PROVE  Keeps(e)
  <2>1. \A g \in Handler : Busy(g, e)' => Busy(g, e) /\ (handler[g].pc = "linking" => handler'[g].pc = "linking")
    BY <1>7 DEF Busy, HandlersKept
  <2> QED BY <1>1, <1>4, <1>7, <2>1, QuietSame DEF Decided, IsLive
<1>8. CASE AddStored(h)
  <2>1. handler[h].pc = "storing" /\ UNCHANGED job
    BY <1>8 DEF AddStored, HandlerAt
  <2>2. CASE (row' = IF Exists(e) THEN [row EXCEPT ![e].doc = TRUE] ELSE row)
             /\ handler' = [handler EXCEPT ![h].doc = TRUE,
                                           ![h].pc = IF handler[h].kind = "url" THEN "naming" ELSE "adding"]
    <3>1. handler'[h].d = e /\ \A g \in Handler \ {h} : handler'[g] = handler[g]
      BY <1>1, <1>3, <2>2 DEF HandlerOK
    <3>2. row'[e].status = row[e].status /\ \A d \in Download \ {e} : row'[d] = row[d]
      BY <1>1, <2>2, StoredIs
    <3>3. HandlersKept
      BY <1>3, <2>1, <3>1 DEF HandlersKept, Busy
    <3> QED BY <1>6, <1>7, <2>1, <3>1, <3>2, <3>3 DEF IsLive
  <2>3. ASSUME NEW status \in {"failed", "cancelled"}, SetStatus(e, status), EndHandler(h)
        PROVE  \A d \in Download : Keeps(d)
    <3>1. handler'[h].pc = "idle" /\ \A g \in Handler \ {h} : handler'[g] = handler[g]
      BY <1>1, <2>3 DEF HandlerOK, EndHandler, NoHandler
    <3>2. \A d \in Download \ {e} : row'[d] = row[d]
      BY <1>1, <2>3, StatusIs
    <3>3. Quiet(e)'
      BY <1>3, <2>1, <3>1 DEF Quiet, Busy, NoLive, IsLive
    <3>4. ~Decided(e)
      BY <1>5, <2>1
    <3>5. Keeps(e)
      BY <3>3, <3>4 DEF Keeps
    <3>6. \A d \in Download \ {e} : Keeps(d)
      BY <1>6, <2>1, <3>1, <3>2 DEF IsLive
    <3> QED BY <3>5, <3>6
  <2> QED BY <1>3, <1>8, <2>2, <2>3 DEF AddStored
<1>9. CASE AddNamed(h)
  <2>1. handler[h].pc = "naming" /\ UNCHANGED job /\ SetStatus(e, "queued")
    BY <1>3, <1>9 DEF AddNamed, HandlerAt
  <2>2. handler'[h].pc = "idle" \/ handler'[h].d = e
    BY <1>1, <1>3, <1>9 DEF AddNamed, Proceed, EndHandler, NoHandler, HandlerOK
  <2>3. \A g \in Handler \ {h} : handler'[g] = handler[g]
    BY <1>1, <1>9 DEF AddNamed, Proceed, EndHandler, HandlerOK
  <2>4. /\ row'[e].status = (IF Exists(e) THEN "queued" ELSE row[e].status)
        /\ \A d \in Download \ {e} : row'[d] = row[d]
    BY <1>1, <2>1, StatusIs
  <2>5. ~Decided(e) /\ ~Decided(e)'
    BY <1>5, <2>1, <2>4 DEF Decided
  <2>6. \A d \in Download \ {e} : Keeps(d)
    BY <1>6, <2>1, <2>2, <2>3, <2>4 DEF IsLive
  <2>7. Keeps(e)
    BY <2>5 DEF Keeps
  <2> QED BY <2>6, <2>7
<1>10. CASE HandlerAdd(h)
  <2>1. handler[h].pc = "adding" /\ UNCHANGED row
    BY <1>10 DEF HandlerAdd, HandlerAt
  <2>2. PICK n \in AutoId : /\ Queue(e, n, "waiting", handler[h].doc)
                            /\ handler' = [handler EXCEPT ![h].pc = "linking", ![h].m = n]
    BY <1>3, <1>10 DEF HandlerAdd
  <2>3. \A f \in Download, k \in JobId : IsLive(f, k)' <=> IsLive(f, k) \/ (f = e /\ k = n)
    BY <1>1, <2>2, QueueLive
  <2>4. handler'[h].d = e /\ \A g \in Handler \ {h} : handler'[g] = handler[g]
    BY <1>1, <1>3, <2>2 DEF HandlerOK
  <2>5. \A d \in Download \ {e} : Keeps(d)
    BY <1>6, <2>1, <2>3, <2>4
  <2>6. Keeps(e)
    BY <1>5, <2>1 DEF Keeps, Decided
  <2> QED BY <2>5, <2>6
<1>11. CASE HandlerLink(h)
  <2>1. handler[h].kind # "retry"
    BY DEF DecidedInv, Confined
  <2>2. Update(e, row[e].status, handler[h].m) /\ UNCHANGED job /\ EndHandler(h)
    BY <1>3, <1>11, <2>1 DEF HandlerLink
  <2>3. row'[e].status = row[e].status /\ \A d \in Download \ {e} : row'[d] = row[d]
    BY <1>1, <2>2, UpdateIs
  <2>4. handler'[h].pc = "idle" /\ \A g \in Handler \ {h} : handler'[g] = handler[g]
    BY <1>1, <2>2 DEF HandlerOK, EndHandler, NoHandler
  <2>5. HandlersKept
    BY <2>4 DEF HandlersKept
  <2>6. \A d \in Download \ {e} : Keeps(d)
    BY <1>6, <2>2, <2>3, <2>4 DEF IsLive
  <2>7. Keeps(e)
    BY <1>7, <2>2, <2>3, <2>5
  <2> QED BY <2>6, <2>7
<1> QED BY <1>8, <1>9, <1>10, <1>11 DEF Serve

\* What users do, and what the queue does by itself.
LEMMA DecidedRest ==
  ASSUME DecidedInv, Unhurried,
         \/ \E w \in Worker, d \in Download, n \in JobId : Take(w, d, n)
         \/ \E d \in Download, n \in JobId : Promote(d, n)
         \/ \E h \in Handler, d \in Download, kind \in {"upload", "url"} : AddCreate(h, d, kind)
         \/ \E d \in Download : Stop(d) \/ Delete(d) \/ (Age(d) /\ Serving)
  PROVE  Serving /\ UNCHANGED boot /\ \A d \in Download : Keeps(d)
<1>1. RowOK /\ JobOK /\ WorkerOK /\ HandlerOK /\ OneInv
  BY DEF DecidedInv, OneInv, HeldInv, TypeOK
<1>2. Serving => \A d \in Download : Decided(d) => Quiet(d)
  BY DEF DecidedInv, DecidedIdle
<1>3. ASSUME NEW w \in Worker, NEW e \in Download, NEW i \in JobId, Take(w, e, i)
      PROVE  Serving /\ UNCHANGED boot /\ \A d \in Download : Keeps(d)
  <2>1. Serving /\ UNCHANGED <<row, handler, boot>> /\ worker[w].pc = "idle" /\ job[e][i].state = "waiting"
    BY <1>3 DEF Take, OnlyWorker
  <2>2. \A f \in Download, k \in JobId : IsLive(f, k)' => IsLive(f, k)
    <3>1. \A f \in Download, k \in JobId : <<f, k>> # <<e, i>> => job'[f][k] = job[f][k]
      BY <1>1, <1>3 DEF Take, JobOK
    <3> QED BY <2>1, <3>1 DEF IsLive, Live
  <2>3. \A v \in Worker : worker[v].pc \in Ending => worker'[v] = worker[v]
    BY <1>1, <1>3, <2>1 DEF Take, WorkerOK, Ending
  <2> SUFFICES ASSUME NEW d \in Download PROVE Keeps(d)
    BY <2>1
  <2>4. \A g \in Handler : Busy(g, d)' => Busy(g, d) /\ (handler[g].pc = "linking" => handler'[g].pc = "linking")
    BY <2>1 DEF Busy
  <2> QED BY <1>2, <2>1, <2>2, <2>3, <2>4, QuietSame DEF Decided
<1>4. ASSUME NEW e \in Download, NEW i \in JobId, Promote(e, i)
      PROVE  Serving /\ UNCHANGED boot /\ \A d \in Download : Keeps(d)
  <2>1. Serving /\ UNCHANGED <<row, handler, worker, boot>> /\ job[e][i].state = "delayed"
    BY <1>4 DEF Promote
  <2>2. \A f \in Download, k \in JobId : IsLive(f, k)' => IsLive(f, k)
    <3>1. \A f \in Download, k \in JobId : <<f, k>> # <<e, i>> => job'[f][k] = job[f][k]
      BY <1>1, <1>4 DEF Promote, JobOK
    <3> QED BY <2>1, <3>1 DEF IsLive, Live
  <2> SUFFICES ASSUME NEW d \in Download PROVE Keeps(d)
    BY <2>1
  <2>4. \A g \in Handler : Busy(g, d)' => Busy(g, d) /\ (handler[g].pc = "linking" => handler'[g].pc = "linking")
    BY <2>1 DEF Busy
  <2> QED BY <1>2, <2>1, <2>2, <2>4, QuietSame DEF Decided
<1>5. ASSUME NEW h \in Handler, NEW e \in Download, NEW kind \in {"upload", "url"}, AddCreate(h, e, kind)
      PROVE  Serving /\ UNCHANGED boot /\ \A d \in Download : Keeps(d)
  <2>1. UNCHANGED <<job, worker, boot>> /\ row[e].status = "absent" /\ Serving
    BY <1>5 DEF AddCreate, OnlyHandler, Open, Unhurried
  <2>2. row'[e].status \in {"fetching_nzb", "queued"} /\ \A d \in Download \ {e} : row'[d] = row[d]
    BY <1>1, <1>5 DEF AddCreate, RowOK
  <2>3. handler'[h].d = e /\ \A g \in Handler \ {h} : handler'[g] = handler[g]
    BY <1>1, <1>5 DEF AddCreate, HandlerOK, NoHandler
  <2>4. Keeps(e)
    BY <2>1, <2>2 DEF Keeps, Decided
  <2>5. ASSUME NEW d \in Download, d # e
        PROVE  Keeps(d)
    <3>1. \A g \in Handler : Busy(g, d)' => Busy(g, d) /\ (handler[g].pc = "linking" => handler'[g].pc = "linking")
      BY <2>3, <2>5 DEF Busy
    <3> QED BY <1>2, <2>1, <2>2, <2>5, <3>1, QuietSame DEF Decided, IsLive
  <2> QED BY <2>1, <2>4, <2>5
<1>6. ASSUME UNCHANGED <<job, worker, handler, boot>>, Serving,
             NEW e \in Download, \A d \in Download \ {e} : row'[d] = row[d],
             row'[e].status = row[e].status \/ row'[e].status \in {"paused", "cancelled", "deleted"}
      PROVE  Serving /\ UNCHANGED boot /\ \A d \in Download : Keeps(d)
  <2> SUFFICES ASSUME NEW d \in Download PROVE Keeps(d)
    BY <1>6
  <2>1. \A g \in Handler : Busy(g, d)' => Busy(g, d) /\ (handler[g].pc = "linking" => handler'[g].pc = "linking")
    BY <1>6 DEF Busy
  <2>2. (Decided(d)' => Decided(d)) /\ (row'[d].status \in ActiveLike => row[d].status \in ActiveLike)
    BY <1>6 DEF Decided, ActiveLike
  <2> QED BY <1>2, <1>6, <2>1, <2>2, QuietSame DEF IsLive
<1>7. ASSUME NEW e \in Download, Stop(e) \/ Delete(e)
      PROVE  Serving /\ UNCHANGED boot /\ \A d \in Download : Keeps(d)
  <2>1. PICK status \in {"paused", "cancelled", "deleted"} : \E move : SetByUser(e, move, status)
    BY <1>7 DEF Stop, Delete
  <2>2. SetStatus(e, status) /\ UNCHANGED <<job, worker, handler, boot>> /\ Serving
    BY <2>1 DEF SetByUser, Open, Unhurried
  <2>3. /\ row'[e].status = (IF Exists(e) THEN status ELSE row[e].status)
        /\ \A d \in Download \ {e} : row'[d] = row[d]
    BY <1>1, <2>2, StatusIs
  <2> QED BY <1>6, <2>2, <2>3
<1>8. ASSUME NEW e \in Download, Age(e), Serving
      PROVE  Serving /\ UNCHANGED boot /\ \A d \in Download : Keeps(d)
  <2>1. row'[e].status = row[e].status /\ \A d \in Download \ {e} : row'[d] = row[d]
    BY <1>1, <1>8 DEF Age, RowOK
  <2> QED BY <1>6, <1>8, <2>1 DEF Age
<1> QED BY <1>3, <1>4, <1>5, <1>7, <1>8

\* Startup puts only downloads under way back to work.
LEMMA DecidedBoot ==
  ASSUME DecidedInv, Boot \/ \E d \in Download : Age(d) /\ ~Serving
  PROVE  DecidedIdle' /\ \A d \in Download : Decided(d) => row'[d].status \notin ActiveLike
<1>1. RowOK /\ JobOK /\ BootOK /\ OneInv /\ DecidedIdle /\ \A i \in boot.todo : i.d \in Download
  BY DEF DecidedInv, OneInv, HeldInv, TypeOK, BootOK
<1>2. \A d \in Download : Decided(d) => row[d].status \notin ActiveLike
  BY DEF Decided, ActiveLike
<1>3. boot.pc \in {"loop", "link"} =>
        /\ \A i \in boot.todo : row[i.d].status \in ActiveLike /\ NoLive(i.d) /\ \A j \in boot.todo : j.d = i.d => j = i
        /\ boot.pc = "link" => boot.d \in Download /\ row[boot.d].status \in ActiveLike
        /\ \A d \in Download : row[d].status \notin ActiveLike => NoLive(d)
  BY <1>1 DEF DecidedIdle, OneInv, Starting
<1>4. CASE Listen \/ Obliterate \/ (BootNext /\ boot.again)
  <2>1. UNCHANGED row /\ boot'.pc \in {"stale", "scan"}
    BY <1>1, <1>4 DEF Listen, Obliterate, BootNext, BootOK
  <2> QED BY <1>2, <2>1 DEF DecidedIdle, Serving
<1>5. CASE BootScan
  <2>1. /\ UNCHANGED <<row, job>> /\ boot'.pc = "loop" /\ boot.pc = "scan"
        /\ boot'.todo = {[d |-> d, doc |-> row[d].doc] : d \in {e \in Download : row[e].status \in ActiveLike}}
    BY <1>1, <1>5 DEF BootScan, BootAt, OnlyBoot, BootOK, Rebuilt
  <2>2. \A d \in Download : NoLive(d)'
    BY <1>1, <2>1 DEF OneInv, Starting, NoLive, IsLive
  <2> QED BY <1>2, <2>1, <2>2 DEF DecidedIdle, Serving
<1>6. CASE BootNext /\ ~boot.again
  <2>1. UNCHANGED <<row, job, worker, handler>> /\ boot'.pc = "serving" /\ boot.pc = "loop"
    BY <1>1, <1>6 DEF BootNext, BootOK, BootAt
  <2>2. \A h \in Handler : handler[h].pc = "idle"
    BY <1>1, <2>1 DEF OneInv, Starting, Serving
  <2>3. ASSUME NEW d \in Download, Decided(d) PROVE Quiet(d)'
    BY <1>2, <1>3, <2>1, <2>2, <2>3 DEF Quiet, NoLive, IsLive, Busy
  <2> QED BY <1>2, <2>1, <2>3 DEF DecidedIdle, Decided
<1>7. ASSUME boot.pc \in {"loop", "link"}, UNCHANGED job, boot'.pc = "loop", boot'.todo \subseteq boot.todo,
             \A d \in Download : row'[d].status \in ActiveLike => row[d].status \in ActiveLike,
             \A d \in Download : row[d].status \in ActiveLike /\ row'[d].status \notin ActiveLike => NoLive(d),
             \A i \in boot'.todo : row'[i.d].status \in ActiveLike
      PROVE  DecidedIdle' /\ \A d \in Download : Decided(d) => row'[d].status \notin ActiveLike
  <2>1. \A d \in Download : row'[d].status \notin ActiveLike => NoLive(d)'
    BY <1>3, <1>7 DEF NoLive, IsLive
  <2>2. DecidedIdle'
    BY <1>7, <2>1 DEF DecidedIdle, Serving
  <2> QED BY <1>2, <1>7, <2>2
<1>8. ASSUME NEW i \in boot.todo, BootFail(i)
      PROVE  DecidedIdle' /\ \A d \in Download : Decided(d) => row'[d].status \notin ActiveLike
  <2>1. UNCHANGED job /\ boot.pc = "loop" /\ boot'.pc = "loop" /\ boot'.todo = boot.todo \ {i}
    BY <1>1, <1>8 DEF BootFail, OnlyBoot, BootOK, BootAt
  <2>2. PICK e \in Download : e = i.d /\ row[e].status \in ActiveLike /\ NoLive(e) /\ \A j \in boot.todo : j.d = e => j = i
    BY <1>1, <1>3, <2>1
  <2>3. /\ row'[e].status \in {"failed", row[e].status}
        /\ \A d \in Download \ {e} : row'[d] = row[d]
    BY <1>1, <1>8, <2>2, StatusIs DEF BootFail
  <2>4. \A j \in boot'.todo : j.d \in Download \ {e} /\ row[j.d].status \in ActiveLike
    BY <1>1, <1>3, <2>1, <2>2
  <2>5. \A d \in Download : row'[d].status \in ActiveLike => row[d].status \in ActiveLike
    BY <2>2, <2>3
  <2>6. \A d \in Download : row[d].status \in ActiveLike /\ row'[d].status \notin ActiveLike => NoLive(d)
    BY <2>2, <2>3
  <2>7. \A j \in boot'.todo : row'[j.d].status \in ActiveLike
    BY <2>3, <2>4
  <2> QED BY <1>7, <2>1, <2>5, <2>6, <2>7
<1>9. CASE BootLink
  <2>1. UNCHANGED job /\ boot.pc = "link" /\ boot'.pc = "loop" /\ boot'.todo = boot.todo
    BY <1>1, <1>9 DEF BootLink, OnlyBoot, BootOK, BootAt
  <2>2. PICK e \in Download : e = boot.d /\ row[e].status \in ActiveLike
    BY <1>3, <2>1
  <2>3. /\ row'[e].status \in {"queued", row[e].status}
        /\ \A d \in Download \ {e} : row'[d] = row[d]
    BY <1>1, <1>9, <2>2, UpdateIs DEF BootLink
  <2>4. \A d \in Download : row'[d].status \in ActiveLike <=> row[d].status \in ActiveLike
    BY <2>2, <2>3 DEF ActiveLike
  <2> QED BY <1>1, <1>3, <1>7, <2>1, <2>4
<1>10. ASSUME NEW i \in boot.todo, BootAdd(i)
       PROVE  DecidedIdle' /\ \A d \in Download : Decided(d) => row'[d].status \notin ActiveLike
  <2>1. UNCHANGED row /\ boot.pc = "loop"
    BY <1>10 DEF BootAdd, BootAt
  <2>2. PICK e \in Download : e = i.d /\ row[e].status \in ActiveLike
    BY <1>1, <1>3, <2>1
  <2>3. PICK n \in AutoId : /\ Queue(e, n, "waiting", TRUE)
                            /\ boot' = [boot EXCEPT !.pc = "link", !.todo = @ \ {i}, !.d = i.d, !.m = n]
    BY <1>10, <2>2 DEF BootAdd
  <2>4. \A f \in Download, k \in JobId : IsLive(f, k)' <=> IsLive(f, k) \/ (f = e /\ k = n)
    BY <1>1, <2>3, QueueLive
  <2>5. boot'.pc = "link" /\ boot'.todo = boot.todo \ {i} /\ boot'.d = e
    BY <1>1, <2>2, <2>3 DEF BootOK
  <2>6. \A d \in Download : row[d].status \notin ActiveLike => NoLive(d)'
    BY <1>3, <2>1, <2>2, <2>4 DEF NoLive
  <2>7. DecidedIdle'
    BY <1>3, <2>1, <2>2, <2>5, <2>6 DEF DecidedIdle, Serving
  <2> QED BY <1>2, <2>1, <2>7
<1>11. ASSUME NEW e \in Download, Age(e), ~Serving
       PROVE  DecidedIdle' /\ \A d \in Download : Decided(d) => row'[d].status \notin ActiveLike
  <2>1. \A d \in Download : row'[d].status = row[d].status
    BY <1>1, <1>11 DEF Age, RowOK
  <2>2. UNCHANGED <<job, boot>>
    BY <1>11 DEF Age
  <2>3. boot'.pc \in {"loop", "link"} =>
          /\ \A i \in boot'.todo : row'[i.d].status \in ActiveLike
          /\ boot'.pc = "link" => boot'.d \in Download /\ row'[boot'.d].status \in ActiveLike
          /\ \A d \in Download : row'[d].status \notin ActiveLike => NoLive(d)'
    BY <1>1, <1>3, <2>1, <2>2 DEF NoLive, IsLive
  <2> QED BY <1>2, <1>11, <2>1, <2>2, <2>3 DEF DecidedIdle, Serving
<1> QED BY <1>4, <1>5, <1>6, <1>8, <1>9, <1>10, <1>11 DEF Boot

LEMMA DecidedNext ==
  ASSUME DecidedInv, Calm, [Next]_vars
  PROVE  DecidedInv' /\ \A d \in Download : Decided(d) => row'[d].status \notin ActiveLike
<1>1. Plain /\ Unhurried /\ "overdue" \notin Allow
  BY DEF Calm, Plain, Unhurried
<1>2. OneInv /\ HeldInv /\ TypeOK /\ Confined /\ Waits /\ DecidedIdle
  BY DEF DecidedInv, OneInv, HeldInv
<1>3. OneInv' /\ HeldInv'
  BY <1>1, <1>2, OneNext DEF OneInv
<1>4. Confined' /\ Waits'
  BY <1>1, <1>2, <1>3, ConfinedNext, WaitsNext
<1> SUFFICES DecidedIdle' /\ \A d \in Download : Decided(d) => row'[d].status \notin ActiveLike
  BY <1>3, <1>4 DEF DecidedInv
<1>5. ASSUME Serving, UNCHANGED boot, \A d \in Download : Keeps(d)
      PROVE  DecidedIdle' /\ \A d \in Download : Decided(d) => row'[d].status \notin ActiveLike
  BY <1>5 DEF Keeps, DecidedIdle, Serving
<1>6. ASSUME NEW w \in Worker, Work(w), ~RefreshAdd(w), ~RefreshLink(w)
      PROVE  DecidedIdle' /\ \A d \in Download : Decided(d) => row'[d].status \notin ActiveLike
  <2>1. worker[w].pc # "idle" /\ UNCHANGED boot
    BY <1>6 DEF Work, Load, Capacity, Fetch, Fetched, Plan, Mount, Verify, Import, Backoff, BackoffAdd, BackoffLink,
           Requeue, PrioAdd, PrioLink, Decide, Finish, OnlyWorker
  <2>2. Serving
    BY <1>2, <2>1, HolderLive
  <2> QED BY <1>5, <1>6, <2>1, <2>2, DecidedWork
<1>7. ASSUME NEW h \in Handler, Serve(h)
      PROVE  DecidedIdle' /\ \A d \in Download : Decided(d) => row'[d].status \notin ActiveLike
  <2>1. handler[h].pc # "idle" /\ UNCHANGED boot
    BY <1>7 DEF Serve, AddStored, AddNamed, HandlerAdd, HandlerLink, HandlerAt, OnlyHandler
  <2>2. Serving
    BY <1>2, <2>1 DEF OneInv, Starting
  <2> QED BY <1>5, <1>7, <2>1, <2>2, DecidedServe
<1>8. CASE Crash
  BY <1>8 DEF Crash, DecidedIdle, Serving, Decided, ActiveLike
<1>9. CASE UNCHANGED vars
  <2>1. \A d \in Download : Decided(d) => row[d].status \notin ActiveLike
    BY DEF Decided, ActiveLike
  <2>2. DecidedIdle'
    BY <1>2, <1>9 DEF vars, DecidedIdle, Decided, Quiet, NoLive, IsLive, Busy, Serving
  <2> QED BY <1>9, <2>1, <2>2 DEF vars
<1>10. ASSUME NEW d \in Download, NEW n \in JobId PROVE ~BootStale(d, n)
  BY <1>1 DEF BootStale
<1> QED BY <1>1, <1>2, <1>5, <1>6, <1>7, <1>8, <1>9, <1>10, PlainSteps, DecidedRest, DecidedBoot

\* As long as users only add, pause, cancel and delete, and no job is found
\* overdue at startup, a download that was made available or given up is never
\* put back to work: not by its second job, a late write of a slot or a
\* request, or a restart.
THEOREM DecidedStaysHolds ==
  ASSUME Calm
  PROVE  Spec => DecidedStays
<1>1. Init => DecidedInv
  <2>1. ASSUME Init PROVE Confined /\ Waits /\ DecidedIdle
    <3>1. Confined /\ Waits
      BY <2>1 DEF Init, Confined, Waits, NoWorker, NoHandler, NoRec, NoView
    <3>2. DecidedIdle
      BY <2>1 DEF Init, DecidedIdle, Decided
    <3> QED BY <3>1, <3>2
  <2> QED BY <2>1, OneInit DEF DecidedInv
<1>2. DecidedInv /\ [Next]_vars => DecidedInv'
  BY DecidedNext
<1>3. DecidedInv /\ [Next]_vars =>
        [\A d \in Download : row[d].status \in {"available", "failed"} => row'[d].status \notin ActiveLike]_vars
  BY DecidedNext DEF Decided
<1> QED BY <1>1, <1>2, <1>3, PTL DEF Spec, DecidedStays

-----------------------------------------------------------------------------
\* Whose the job of a row is: what the row, the queue, the slots and the
\* requests know of one download while the process serves.

Direct == Allow \subseteq {"stop", "delete", "backoff", "overdue"}

Later == {"backoff", "backoffAdd", "backoffLink"}
Underway(d) == row[d].status \in ActiveLike /\ row[d].doc

\* The job id of a download under way names a live job.
LinkLive(d) == Underway(d) /\ row[d].job # NoJob => IsLive(d, row[d].job)

\* An add has not told the row the id yet, and queued the only job there is.
Linking(d) ==
  \A h \in Handler : Busy(h, d) =>
    /\ row[d].job = NoJob
    /\ handler[h].pc = "linking" =>
         /\ handler[h].m \in JobId /\ \A k \in JobId : IsLive(d, k) => k = handler[h].m
         /\ Underway(d) => IsLive(d, handler[h].m)
         /\ \A w \in Worker : worker[w].d = d => worker[w].pc \notin Later

Working(d) == \A w \in Worker : WorksOn(w, d) => row[d].job \in {NoJob, worker[w].n}

\* The job that ends is not the one that a download under way waits for.
Finishing(d) ==
  \A w \in Worker : worker[w].d = d /\ worker[w].pc = "finish" /\ Underway(d) => row[d].job \notin {NoJob, worker[w].n}

\* Of two jobs the row names one, but for the moment before the retry is linked.
TwoLinked(d) ==
  Exists(d) /\ ~OneLive(d) /\ (\A w \in Worker : worker[w].d = d => worker[w].pc # "backoffLink") => row[d].job # NoJob

Kept(d) == Underway(d) /\ (\A h \in Handler : ~Busy(h, d)) => Owned(d)

Sound(d) == LinkLive(d) /\ Linking(d) /\ Working(d) /\ Finishing(d) /\ TwoLinked(d) /\ Kept(d)

\* Startup has a download under way still in its list, or has linked its job.
Rebuilding ==
  boot.pc \in {"loop", "link"} =>
    /\ \A i \in boot.todo : i.doc = row[i.d].doc
    /\ boot.pc = "link" => boot.d \in Download /\ boot.m \in JobId /\ IsLive(boot.d, boot.m)
    /\ \A d \in Download : Underway(d) =>
         (\E i \in boot.todo : i.d = d) \/ (boot.pc = "link" /\ boot.d = d) \/ IsLive(d, row[d].job)

OrphanInv == OneInv /\ Confined /\ Waits /\ (Serving => \A d \in Download : Sound(d)) /\ Rebuilding

\* A step that is about another download.
LEMMA SoundSame ==
  ASSUME NEW d \in Download, Sound(d), row'[d] = row[d], \A n \in JobId : IsLive(d, n)' <=> IsLive(d, n),
         \A w \in Worker : worker'[w].d = d /\ worker'[w].pc # "idle" => worker'[w] = worker[w],
         \A w \in Worker : worker[w].d = d /\ worker[w].pc = "backoffLink" => worker'[w] = worker[w],
         \A h \in Handler : Busy(h, d)' => Busy(h, d) /\ handler'[h] = handler[h],
         \A h \in Handler : Busy(h, d) => Busy(h, d)',
         RowOK
  PROVE  Sound(d)'
<1>1. row[d].job # NoJob => row[d].job \in JobId
  BY DEF RowOK
<1>2. (Underway(d)' <=> Underway(d)) /\ (Exists(d)' <=> Exists(d)) /\ (OneLive(d)' <=> OneLive(d))
  BY DEF Underway, Exists, OneLive
<1>3. row[d].job # NoJob => (IsLive(d, row[d].job)' <=> IsLive(d, row[d].job))
  <2>1. ASSUME NEW n \in JobId, n = row[d].job PROVE IsLive(d, row[d].job)' <=> IsLive(d, row[d].job)
    BY <2>1 DEF IsLive
  <2> QED BY <1>1, <2>1
<1>4. LinkLive(d)'
  BY <1>2, <1>3 DEF Sound, LinkLive
<1>5. Linking(d)'
  <2> SUFFICES ASSUME NEW h \in Handler, Busy(h, d)'
               PROVE  /\ row'[d].job = NoJob
                      /\ handler'[h].pc = "linking" =>
                           /\ handler'[h].m \in JobId /\ \A k \in JobId : IsLive(d, k)' => k = handler'[h].m
                           /\ Underway(d)' => IsLive(d, handler[h].m)'
                           /\ \A w \in Worker : worker'[w].d = d => worker'[w].pc \notin Later
    BY DEF Linking
  <2>1. /\ row[d].job = NoJob /\ handler'[h] = handler[h]
        /\ handler[h].pc = "linking" =>
             /\ handler[h].m \in JobId /\ \A k \in JobId : IsLive(d, k) => k = handler[h].m
             /\ Underway(d) => IsLive(d, handler[h].m)
             /\ \A w \in Worker : worker[w].d = d => worker[w].pc \notin Later
    BY DEF Sound, Linking
  <2>2. ASSUME NEW n \in JobId, n = handler[h].m, IsLive(d, n) PROVE IsLive(d, handler[h].m)'
    BY <2>1, <2>2 DEF IsLive
  <2> QED BY <1>2, <2>1, <2>2 DEF Later
<1>6. Working(d)' /\ Finishing(d)'
  BY <1>2 DEF Sound, Working, Finishing, WorksOn
<1>7. TwoLinked(d)'
  BY <1>2 DEF Sound, TwoLinked
<1>8. Kept(d)'
  BY <1>2, <1>3 DEF Sound, Kept, Owned
<1> QED BY <1>4, <1>5, <1>6, <1>7, <1>8 DEF Sound

\* A step that takes a download off its way, or leaves it where it is.
LEMMA SoundRow ==
  ASSUME NEW d \in Download, Sound(d), RowOK, row'[d].job = row[d].job, Underway(d)' => Underway(d), Exists(d)' => Exists(d),
         UNCHANGED <<job, worker, handler>>
  PROVE  Sound(d)'
<1>1. PICK j \in JobId \union {NoJob} : j = row[d].job
  BY DEF RowOK
<1>2. \A n \in JobId : IsLive(d, n)' <=> IsLive(d, n)
  BY DEF IsLive
<1>3. IsLive(d, row[d].job)' <=> IsLive(d, row[d].job)
  BY DEF IsLive
<1>4. LinkLive(d)' /\ Working(d)' /\ Finishing(d)' /\ TwoLinked(d)'
  BY <1>2, <1>3 DEF Sound, LinkLive, Working, WorksOn, Finishing, TwoLinked, OneLive
<1>5. Linking(d)'
  BY DEF Sound, Linking, Busy, IsLive
<1>6. Kept(d)'
  BY <1>2, <1>3 DEF Sound, Kept, Owned, Busy
<1> QED BY <1>4, <1>5, <1>6 DEF Sound

\* A download without a live job: nobody is at work on it.
LEMMA SoundFresh ==
  ASSUME HeldInv, NEW d \in Download, NoLive(d), UNCHANGED <<job, worker>>, row'[d].job = NoJob,
         \A h \in Handler : Busy(h, d)' => handler'[h].pc # "linking",
         Underway(d)' => \E h \in Handler : Busy(h, d)'
  PROVE  Sound(d)'
<1>1. \A w \in Worker : worker[w].d = d => worker[w].pc = "idle"
  BY HolderLive DEF NoLive
<1>2. OneLive(d)'
  BY DEF NoLive, OneLive, IsLive
<1>3. LinkLive(d)' /\ Linking(d)' /\ Kept(d)'
  BY DEF LinkLive, Linking, Kept
<1>4. Working(d)' /\ Finishing(d)' /\ TwoLinked(d)'
  BY <1>1, <1>2 DEF Working, WorksOn, Finishing, TwoLinked
<1> QED BY <1>3, <1>4 DEF Sound

\* While a slot works on a download no retry of it is waiting to be linked.
LEMMA NoneLinks ==
  ASSUME OneInv, Confined, Waits, NEW w \in Worker, NEW d \in Download, WorksOn(w, d)
  PROVE  \A u \in Worker : worker[u].d = d => worker[u].pc # "backoffLink"
<1> SUFFICES ASSUME NEW u \in Worker, worker[u].d = d, worker[u].pc = "backoffLink" PROVE FALSE
  OBVIOUS
<1>1. HeldInv /\ worker[w].d = d /\ worker[w].pc \notin Requeued \union {"idle"} /\ worker[w].pc # "backoffLink"
  BY DEF OneInv, WorksOn, Requeued
<1>2. PICK k \in JobId : /\ k = worker[u].n /\ IsLive(d, k)
                         /\ \A v \in Worker : worker[v].d = d /\ worker[v].n = k => v = u
  BY <1>1, HolderLive
<1>3. k # worker[w].n
  BY <1>1, <1>2
<1>4. PICK v \in Worker : worker[v].d = d /\ worker[v].n = k /\ worker[v].pc = "finish"
  BY <1>1, <1>2, <1>3, OtherFinishes
<1> QED BY <1>2, <1>4

\* A slot goes on with its work, or is done with it.
LEMMA SoundGoto ==
  ASSUME OrphanInv, NEW w \in Worker, NEW e \in Download, WorksOn(w, e), NEW pc, Goto(w, pc), UNCHANGED <<job, handler>>,
         row'[e].job = row[e].job, Exists(e)' => Exists(e),
         pc \notin {"idle", "load", "backoffLink", "refreshLink", "prioLink"},
         pc = "finish" => ~Underway(e)',
         pc \in Later => \A h \in Handler : Busy(h, e) => handler[h].pc # "linking"
  PROVE  Sound(e)'
<1>1. OneInv /\ Confined /\ Waits /\ HeldInv /\ WorkerOK /\ RowOK
  BY DEF OrphanInv, OneInv, HeldInv, TypeOK
<1>2. worker[w].d = e /\ worker[w].pc \notin {"idle", "backoffLink"}
  BY DEF WorksOn
<1>3. PICK i \in JobId : /\ i = worker[w].n /\ IsLive(e, i) /\ Serving
                         /\ \A v \in Worker : worker[v].d = e /\ worker[v].n = i => v = w
  BY <1>1, <1>2, HolderLive
<1>4. Sound(e)
  BY <1>3 DEF OrphanInv
<1>5. \A v \in Worker : /\ worker'[v].d = worker[v].d /\ worker'[v].n = worker[v].n
                        /\ worker'[v].pc = IF v = w THEN pc ELSE worker[v].pc
  BY <1>1, GotoIs
<1>6. PICK j \in {NoJob, i} : j = row[e].job
  BY <1>3, <1>4 DEF Sound, Working
<1>7. \A u \in Worker : worker[u].d = e => worker[u].pc # "backoffLink"
  BY <1>1, NoneLinks
<1>8. \A n \in JobId : IsLive(e, n)' <=> IsLive(e, n)
  BY DEF IsLive
<1>9. (Underway(e)' => Exists(e)) /\ (OneLive(e)' <=> OneLive(e))
  BY <1>8 DEF Underway, Exists, ActiveLike, OneLive
<1>10. row'[e].job # NoJob => IsLive(e, row[e].job)'
  BY <1>3, <1>6 DEF IsLive
<1>11. LinkLive(e)'
  BY <1>10 DEF LinkLive
<1>12. Linking(e)'
  <2> SUFFICES ASSUME NEW h \in Handler, Busy(h, e)
               PROVE  /\ row'[e].job = NoJob
                      /\ handler[h].pc = "linking" =>
                           /\ handler[h].m \in JobId /\ \A k \in JobId : IsLive(e, k)' => k = handler[h].m
                           /\ Underway(e)' => IsLive(e, handler[h].m)'
                           /\ \A v \in Worker : worker'[v].d = e => worker'[v].pc \notin Later
    BY DEF Linking, Busy
  <2>1. row'[e].job = NoJob
    BY <1>4 DEF Sound, Linking
  <2>2. ASSUME handler[h].pc = "linking"
        PROVE  /\ handler[h].m \in JobId /\ \A k \in JobId : IsLive(e, k)' => k = handler[h].m
               /\ Underway(e)' => IsLive(e, handler[h].m)'
               /\ \A v \in Worker : worker'[v].d = e => worker'[v].pc \notin Later
    <3>1. /\ handler[h].m \in JobId /\ \A k \in JobId : IsLive(e, k) => k = handler[h].m
          /\ \A v \in Worker : worker[v].d = e => worker[v].pc \notin Later
      BY <1>4, <2>2 DEF Sound, Linking
    <3>2. handler[h].m = i
      BY <1>3, <3>1
    <3>3. IsLive(e, handler[h].m)'
      BY <1>3, <3>2 DEF IsLive
    <3>4. \A v \in Worker : worker'[v].d = e => worker'[v].pc \notin Later
      BY <1>5, <2>2, <3>1
    <3> QED BY <1>8, <3>1, <3>3, <3>4
  <2> QED BY <2>1, <2>2
<1>13. Working(e)'
  <2> SUFFICES ASSUME NEW v \in Worker, WorksOn(v, e)' PROVE row'[e].job \in {NoJob, worker'[v].n}
    BY DEF Working
  <2>1. CASE v = w
    BY <1>3, <1>5, <1>6, <2>1
  <2>2. CASE v # w
    BY <1>4, <1>5, <2>2 DEF Sound, Working, WorksOn
  <2> QED BY <2>1, <2>2
<1>14. Finishing(e)'
  <2> SUFFICES ASSUME NEW v \in Worker, worker'[v].d = e, worker'[v].pc = "finish", Underway(e)'
               PROVE  row'[e].job \notin {NoJob, worker'[v].n}
    BY DEF Finishing
  <2>1. v # w /\ worker[v].d = e /\ worker[v].pc = "finish" /\ worker'[v].n = worker[v].n
    BY <1>5
  <2>2. PICK k \in JobId : k = worker[v].n /\ IsLive(e, k)
    BY <1>1, <2>1, HolderLive
  <2>3. k # i
    BY <1>3, <2>1, <2>2
  <2>4. row[e].job # NoJob
    BY <1>3, <1>4, <1>7, <1>9, <2>2, <2>3 DEF Sound, TwoLinked, OneLive
  <2> QED BY <1>6, <2>1, <2>2, <2>3, <2>4
<1>15. TwoLinked(e)'
  BY <1>4, <1>7, <1>9 DEF Sound, TwoLinked
<1>16. Kept(e)'
  BY <1>3, <1>6, <1>8, <1>10 DEF Kept, Owned
<1> QED BY <1>11, <1>12, <1>13, <1>14, <1>15, <1>16 DEF Sound

LEMMA OrphanWork ==
  ASSUME OrphanInv, Direct, NEW w \in Worker, Work(w), ~RefreshAdd(w), ~RefreshLink(w)
  PROVE  \A d \in Download : Sound(d)'
<1>1. OneInv /\ Confined /\ Waits /\ HeldInv /\ TypeOK /\ WorkerOK /\ RowOK /\ JobOK
      /\ worker[w].pc \notin {"prioAdd", "prioLink"} /\ Allow \intersect {"noCapacity", "noProvider", "refresh", "slowLink"} = {}
  BY DEF OrphanInv, OneInv, HeldInv, TypeOK, NoPrio, Direct
<1>2. worker[w].pc # "idle" /\ UNCHANGED handler
  BY DEF Work, Load, Capacity, Fetch, Fetched, Plan, Mount, Verify, Import, Backoff, BackoffAdd, BackoffLink,
         RefreshAdd, RefreshLink, Requeue, PrioAdd, PrioLink, Decide, Finish, OnlyWorker
<1>3. PICK e \in Download, i \in JobId : /\ e = worker[w].d /\ i = worker[w].n /\ Serving /\ job[e][i].state = "active"
                                         /\ IsLive(e, i)
                                         /\ \A v \in Worker : worker[v].d = e /\ worker[v].n = i => v = w
  BY <1>1, <1>2, HolderLive
<1>4. \A d \in Download : Sound(d)
  BY <1>3 DEF OrphanInv
<1>5. ASSUME NEW d \in Download, d # e, row'[d] = row[d], \A v \in Worker \ {w} : worker'[v] = worker[v],
             worker'[w].d = e \/ worker'[w].pc = "idle", \A n \in JobId : IsLive(d, n)' <=> IsLive(d, n)
      PROVE  Sound(d)'
  <2>1. /\ \A v \in Worker : worker'[v].d = d /\ worker'[v].pc # "idle" => worker'[v] = worker[v]
        /\ \A v \in Worker : worker[v].d = d /\ worker[v].pc = "backoffLink" => worker'[v] = worker[v]
    BY <1>3, <1>5
  <2>2. \A h \in Handler : (Busy(h, d)' <=> Busy(h, d)) /\ handler'[h] = handler[h]
    BY <1>2 DEF Busy
  <2> QED BY <1>1, <1>4, <1>5, <2>1, <2>2, SoundSame
\* The steps that queue nothing and leave the slot busy.
<1>6. ASSUME NEW pc, Goto(w, pc), UNCHANGED job, \A d \in Download \ {e} : row'[d] = row[d], Sound(e)'
      PROVE  \A d \in Download : Sound(d)'
  <2>1. worker'[w].d = e /\ \A v \in Worker \ {w} : worker'[v] = worker[v]
    BY <1>1, <1>3, <1>6 DEF Goto, WorkerOK
  <2> QED BY <1>5, <1>6, <2>1 DEF IsLive
<1>7. ASSUME WorksOn(w, e), NEW pc \in {"plan", "fetch", "fetching", "mount", "verify", "import", "decide", "finish", "backoff", "backoffAdd"},
             Goto(w, pc), UNCHANGED job, row'[e].job = row[e].job, Exists(e)' => Exists(e),
             \A d \in Download \ {e} : row'[d] = row[d],
             pc = "finish" => ~Underway(e)',
             pc \in Later => \A h \in Handler : Busy(h, e) => handler[h].pc # "linking"
      PROVE  \A d \in Download : Sound(d)'
  <2>1. Sound(e)'
    BY <1>2, <1>7, SoundGoto
  <2> QED BY <1>6, <1>7, <2>1
<1>8. ASSUME NEW status, SetStatus(e, status), status # "absent", status # "deleted"
      PROVE  row'[e].job = row[e].job /\ (Exists(e)' => Exists(e)) /\ \A d \in Download \ {e} : row'[d] = row[d]
  <2>1. /\ row'[e].status = (IF Exists(e) THEN status ELSE row[e].status) /\ row'[e].job = row[e].job
        /\ \A d \in Download \ {e} : row'[d] = row[d]
    BY <1>1, <1>8, StatusIs
  <2> QED BY <2>1 DEF Exists
<1>9. CASE Load(w)
  <2>1. worker[w].pc = "load" /\ UNCHANGED <<row, job>>
    BY <1>9 DEF Load
  <2>2. PICK pc \in {"finish", "capacity"} :
          /\ Goto(w, pc)
          /\ pc = "capacity" => row[e].job \in {NoJob, i}
          /\ pc = "finish" => ~Exists(e) \/ Stale(e, i) \/ row[e].status \in {"cancelled", "paused"}
    BY <1>3, <1>9 DEF Load, Stale
  <2>3. pc = "finish" /\ Underway(e) => row[e].job \notin {NoJob, i}
    BY <2>2 DEF Stale, Underway, Exists, ActiveLike
  <2>4. \A v \in Worker : /\ worker'[v].d = worker[v].d /\ worker'[v].n = worker[v].n
                          /\ worker'[v].pc = IF v = w THEN pc ELSE worker[v].pc
    BY <1>1, <2>2, GotoIs
  <2>5. PICK j \in JobId \union {NoJob} : j = row[e].job
    BY <1>1 DEF RowOK
  <2>6. \A n \in JobId : IsLive(e, n)' <=> IsLive(e, n)
    BY <2>1 DEF IsLive
  <2>7. IsLive(e, row[e].job)' <=> IsLive(e, row[e].job)
    BY <2>1 DEF IsLive
  <2>8. LinkLive(e)' /\ Kept(e)'
    BY <1>2, <1>4, <2>1, <2>6, <2>7 DEF Sound, LinkLive, Kept, Underway, Owned, Busy
  <2>9. Working(e)'
    BY <1>3, <1>4, <2>1, <2>2, <2>4 DEF Sound, Working, WorksOn
  <2>10. Finishing(e)'
    BY <1>3, <1>4, <2>1, <2>2, <2>3, <2>4 DEF Sound, Finishing, Underway
  <2>11. TwoLinked(e)'
    BY <1>4, <2>1, <2>2, <2>4, <2>6 DEF Sound, TwoLinked, Exists, OneLive
  <2>12. Linking(e)'
    <3> SUFFICES ASSUME NEW h \in Handler, Busy(h, e)
                 PROVE  /\ row'[e].job = NoJob
                        /\ handler[h].pc = "linking" =>
                             /\ handler[h].m \in JobId /\ \A k \in JobId : IsLive(e, k)' => k = handler[h].m
                             /\ Underway(e)' => IsLive(e, handler[h].m)'
                             /\ \A v \in Worker : worker'[v].d = e => worker'[v].pc \notin Later
      BY <1>2 DEF Linking, Busy
    <3>1. /\ row[e].job = NoJob
          /\ handler[h].pc = "linking" =>
               /\ handler[h].m \in JobId /\ \A k \in JobId : IsLive(e, k) => k = handler[h].m
               /\ Underway(e) => IsLive(e, handler[h].m)
               /\ \A v \in Worker : worker[v].d = e => worker[v].pc \notin Later
      BY <1>4 DEF Sound, Linking
    <3>2. IsLive(e, handler[h].m) => IsLive(e, handler[h].m)'
      BY <1>2, <2>1 DEF IsLive
    <3> QED BY <2>1, <2>2, <2>4, <2>6, <3>1, <3>2 DEF Underway, Later
  <2>13. Sound(e)'
    BY <2>8, <2>9, <2>10, <2>11, <2>12 DEF Sound
  <2> QED BY <1>6, <2>1, <2>2, <2>13
<1>10. CASE Capacity(w) \/ Plan(w)
  <2>1. WorksOn(w, e) /\ UNCHANGED <<row, job>>
    BY <1>3, <1>10 DEF Capacity, Plan, WorksOn
  <2>2. PICK pc \in {"plan", "fetch", "mount", "decide"} : Goto(w, pc)
    BY <1>1, <1>10 DEF Capacity, Plan
  <2> QED BY <1>7, <2>1, <2>2 DEF Later, Exists
<1>11. CASE Fetch(w)
  <2>1. WorksOn(w, e) /\ UNCHANGED job /\ SetStatus(e, "fetching_nzb")
    BY <1>3, <1>11 DEF Fetch, WorksOn
  <2>2. PICK pc \in {"fetching", "decide"} : Goto(w, pc)
    BY <1>11 DEF Fetch
  <2> QED BY <1>7, <1>8, <2>1, <2>2 DEF Later
<1>12. CASE Fetched(w)
  <2>1. WorksOn(w, e) /\ UNCHANGED job
    BY <1>3, <1>12 DEF Fetched, WorksOn
  <2>2. CASE (row' = IF Exists(e) THEN [row EXCEPT ![e].doc = TRUE] ELSE row) /\ Goto(w, "plan")
    <3>1. /\ row'[e].status = row[e].status /\ row'[e].job = row[e].job
          /\ \A d \in Download \ {e} : row'[d] = row[d]
      BY <1>1, <2>2, StoredIs
    <3> QED BY <1>7, <2>1, <2>2, <3>1 DEF Later, Exists
  <2>3. CASE \E status \in {"failed", "cancelled"} : SetStatus(e, status) /\ Goto(w, "decide")
    BY <1>7, <1>8, <2>1, <2>3 DEF Later
  <2>4. CASE Goto(w, "decide") /\ UNCHANGED row
    BY <1>7, <2>1, <2>4 DEF Later, Exists
  <2> QED BY <1>3, <1>12, <2>2, <2>3, <2>4 DEF Fetched
<1>13. CASE Mount(w)
  <2>1. WorksOn(w, e) /\ UNCHANGED job /\ SetStatus(e, "verifying") /\ Goto(w, "verify")
    BY <1>1, <1>3, <1>13 DEF Mount, WorksOn
  <2> QED BY <1>7, <1>8, <2>1 DEF Later
<1>14. CASE Verify(w)
  <2>1. WorksOn(w, e) /\ UNCHANGED job /\ \A h \in Handler : Busy(h, e) => handler[h].pc # "linking"
    BY <1>1, <1>3, <1>14 DEF Verify, WorksOn, Timely, Busy
  <2>2. PICK pc \in {"import", "decide", "backoff"} : Goto(w, pc)
    BY <1>1, <1>14 DEF Verify
  <2>3. UNCHANGED row \/ SetStatus(e, "prepared")
    BY <1>3, <1>14 DEF Verify
  <2>4. row'[e].job = row[e].job /\ (Exists(e)' => Exists(e)) /\ \A d \in Download \ {e} : row'[d] = row[d]
    BY <1>8, <2>3 DEF Exists
  <2> QED BY <1>7, <2>1, <2>2, <2>4
<1>15. CASE Import(w)
  <2>1. WorksOn(w, e) /\ UNCHANGED job
    BY <1>3, <1>15 DEF Import, WorksOn
  <2>2. CASE Exists(e) /\ SetStatus(e, "available") /\ \E next \in {"finish", "decide"} : Goto(w, next)
    <3>1. row'[e].status = "available"
      BY <1>1, <2>2, StatusIs
    <3>2. ~Underway(e)'
      BY <3>1 DEF Underway, ActiveLike
    <3> QED BY <1>7, <1>8, <2>1, <2>2, <3>2 DEF Later
  <2>3. CASE Goto(w, "decide") /\ UNCHANGED row
    BY <1>7, <2>1, <2>3 DEF Later, Exists
  <2> QED BY <1>3, <1>15, <2>2, <2>3 DEF Import
<1>16. CASE Backoff(w)
  <2>1. WorksOn(w, e) /\ UNCHANGED job /\ SetStatus(e, "waiting_for_provider") /\ Goto(w, "backoffAdd") /\ worker[w].pc \in Later
    BY <1>3, <1>16 DEF Backoff, WorksOn, Later
  <2>2. \A h \in Handler : Busy(h, e) => handler[h].pc # "linking"
    BY <1>3, <1>4, <2>1 DEF Sound, Linking
  <2> QED BY <1>7, <1>8, <2>1, <2>2
<1>17. CASE Decide(w)
  <2>1. WorksOn(w, e) /\ UNCHANGED job /\ Goto(w, "finish")
    BY <1>3, <1>17 DEF Decide, WorksOn
  <2>2. PICK status \in {"failed", "cancelled"} : SetStatus(e, status)
    BY <1>3, <1>17 DEF Decide
  <2>3. row'[e].status = (IF Exists(e) THEN status ELSE row[e].status)
    BY <1>1, <2>2, StatusIs
  <2>4. ~Underway(e)'
    BY <2>3 DEF Underway, Exists, ActiveLike
  <2> QED BY <1>7, <1>8, <2>1, <2>2, <2>4 DEF Later
\* No add is at work on a download whose slot is about to queue its retry.
<1>18. ASSUME worker[w].pc \in Later
       PROVE  \A h \in Handler : ~Busy(h, e)
  <2>1. \A h \in Handler : Busy(h, e) => handler[h].pc # "linking"
    BY <1>3, <1>4, <1>18 DEF Sound, Linking
  <2> QED BY <1>1, <1>3, <2>1 DEF OneInv, Adds, Busy, NoLive
<1>19. CASE BackoffAdd(w)
  <2>1. worker[w].pc = "backoffAdd" /\ UNCHANGED row
    BY <1>19 DEF BackoffAdd, Requeue
  <2>2. PICK n \in AutoId : /\ Queue(e, n, "delayed", job[e][worker[w].n].doc)
                            /\ worker' = [worker EXCEPT ![w].m = n, ![w].pc = "backoffLink"]
    BY <1>3, <1>19 DEF BackoffAdd, Requeue
  <2>3. \A f \in Download, k \in JobId : IsLive(f, k)' <=> IsLive(f, k) \/ (f = e /\ k = n)
    <3> DEFINE doc == job[e][worker[w].n].doc
    <3>1. JobOK /\ Queue(e, n, "delayed", doc)
      BY <1>1, <2>2
    <3> HIDE DEF doc
    <3> QED BY <3>1, QueueLive
  <2>4. /\ worker'[w].d = e /\ worker'[w].pc = "backoffLink"
        /\ \A v \in Worker \ {w} : worker'[v] = worker[v]
    BY <1>1, <1>3, <2>2 DEF WorkerOK
  <2>5. \A h \in Handler : ~Busy(h, e)
    BY <1>18, <2>1 DEF Later
  <2>6. PICK j \in JobId \union {NoJob} : j = row[e].job
    BY <1>1 DEF RowOK
  <2>7. IsLive(e, j) => IsLive(e, row[e].job)'
    <3>1. IsLive(e, j) => IsLive(e, j)'
      BY <2>3, <2>6 DEF IsLive
    <3> QED BY <2>1, <2>6, <3>1 DEF IsLive
  <2>8. LinkLive(e)' /\ Kept(e)'
    BY <1>4, <2>1, <2>3, <2>5, <2>6, <2>7 DEF Sound, LinkLive, Kept, Underway, Owned
  <2>9. Linking(e)' /\ TwoLinked(e)'
    BY <1>2, <2>4, <2>5 DEF Linking, TwoLinked, Busy
  <2>10. Working(e)' /\ Finishing(e)'
    BY <1>4, <2>1, <2>4 DEF Sound, Working, WorksOn, Finishing, Underway
  <2>11. Sound(e)'
    BY <2>8, <2>9, <2>10 DEF Sound
  <2> QED BY <1>5, <2>1, <2>3, <2>4, <2>11
<1>20. CASE BackoffLink(w)
  <2>1. worker[w].pc = "backoffLink" /\ UNCHANGED job /\ Goto(w, "finish") /\ SetJob(e, worker[w].m)
    BY <1>3, <1>20 DEF BackoffLink
  <2>2. PICK m \in JobId : m = worker[w].m /\ job[e][m].state = "delayed" /\ IsLive(e, m) /\ m # i
    BY <1>1, <1>3, <2>1 DEF Waits, IsLive, Live, NoJob, JobId, AutoId, Prio
  <2>3. /\ row'[e].status = row[e].status /\ row'[e].job = (IF Exists(e) THEN m ELSE row[e].job)
        /\ \A d \in Download \ {e} : row'[d] = row[d]
    BY <1>1, <2>1, <2>2, JobIs
  <2>4. \A h \in Handler : ~Busy(h, e)
    BY <1>18, <2>1 DEF Later
  <2>5. \A v \in Worker : /\ worker'[v].d = worker[v].d /\ worker'[v].n = worker[v].n
                          /\ worker'[v].pc = IF v = w THEN "finish" ELSE worker[v].pc
    BY <1>1, <2>1, GotoIs
  <2>6. (Exists(e)' <=> Exists(e)) /\ (Underway(e)' => Exists(e)) /\ m # NoJob
    BY <2>2, <2>3 DEF Exists, Underway, ActiveLike, IsLive
  <2>7. Exists(e) => IsLive(e, row[e].job)'
    BY <2>1, <2>2, <2>3 DEF IsLive
  <2>8. LinkLive(e)' /\ Kept(e)'
    BY <2>3, <2>6, <2>7 DEF LinkLive, Kept, Owned
  <2>9. Linking(e)' /\ TwoLinked(e)'
    BY <1>2, <2>3, <2>4, <2>6 DEF Linking, TwoLinked, Busy
  <2>10. Working(e)'
    <3>1. \A v \in Worker : ~WorksOn(v, e)
      BY <1>1, <1>3, <2>1, NoneLinks
    <3> QED BY <2>5, <3>1 DEF Working, WorksOn
  <2>11. Finishing(e)'
    <3> SUFFICES ASSUME NEW v \in Worker, worker'[v].d = e, worker'[v].pc = "finish", Underway(e)'
                 PROVE  m # worker'[v].n
      BY <2>3, <2>6 DEF Finishing
    <3>1. CASE v = w
      BY <1>3, <2>2, <2>5, <3>1
    <3>2. CASE v # w
      <4>1. worker[v].d = e /\ worker[v].pc # "idle" /\ worker'[v].n = worker[v].n
        BY <2>5, <3>2
      <4>2. job[e][worker[v].n].state = "active"
        BY <1>1, <4>1, HolderLive
      <4> QED BY <2>2, <4>1, <4>2
    <3> QED BY <3>1, <3>2
  <2>12. Sound(e)'
    BY <2>8, <2>9, <2>10, <2>11 DEF Sound
  <2> QED BY <1>6, <2>1, <2>3, <2>12
<1>21. CASE Finish(w)
  <2>1. worker[w].pc = "finish" /\ UNCHANGED row
    BY <1>21 DEF Finish
  <2>2. /\ job'[e][i].state = "over"
        /\ \A f \in Download, k \in JobId : <<f, k>> # <<e, i>> => job'[f][k] = job[f][k]
    BY <1>1, <1>3, <1>21 DEF Finish, JobOK
  <2>3. worker'[w].pc = "idle" /\ \A v \in Worker \ {w} : worker'[v] = worker[v]
    BY <1>1, <1>21 DEF Finish, WorkerOK, NoWorker
  <2>4. \A f \in Download, k \in JobId : IsLive(f, k)' <=> IsLive(f, k) /\ <<f, k>> # <<e, i>>
    BY <2>2 DEF IsLive, Live
  <2>5. PICK j \in JobId \union {NoJob} : j = row[e].job
    BY <1>1 DEF RowOK
  <2>6. Underway(e) => j \notin {NoJob, i}
    BY <1>3, <1>4, <2>1, <2>5 DEF Sound, Finishing
  <2>7. Underway(e) => IsLive(e, j)
    BY <1>4, <2>5, <2>6 DEF Sound, LinkLive
  <2>8. Underway(e) => IsLive(e, row[e].job)'
    <3>1. Underway(e) => IsLive(e, j)'
      BY <2>4, <2>5, <2>6, <2>7
    <3> QED BY <2>1, <2>5, <3>1 DEF IsLive
  <2>9. LinkLive(e)' /\ Kept(e)'
    BY <2>1, <2>5, <2>6, <2>8 DEF LinkLive, Kept, Underway, Owned
  <2>10. Linking(e)'
    <3> SUFFICES ASSUME NEW h \in Handler, Busy(h, e)
                 PROVE  /\ row'[e].job = NoJob
                        /\ handler[h].pc = "linking" =>
                             /\ handler[h].m \in JobId /\ \A k \in JobId : IsLive(e, k)' => k = handler[h].m
                             /\ Underway(e)' => IsLive(e, handler[h].m)'
                             /\ \A v \in Worker : worker'[v].d = e => worker'[v].pc \notin Later
      BY <1>2 DEF Linking, Busy
    <3>1. /\ row[e].job = NoJob
          /\ handler[h].pc = "linking" =>
               /\ handler[h].m \in JobId /\ \A k \in JobId : IsLive(e, k) => k = handler[h].m
               /\ \A v \in Worker : worker[v].d = e => worker[v].pc \notin Later
      BY <1>4 DEF Sound, Linking
    <3>2. ~Underway(e)'
      BY <2>1, <2>5, <2>6, <3>1 DEF Underway
    <3> QED BY <2>1, <2>3, <2>4, <3>1, <3>2 DEF Later
  <2>11. Working(e)' /\ Finishing(e)'
    BY <1>4, <2>1, <2>3 DEF Sound, Working, WorksOn, Finishing, Underway
  <2>12. TwoLinked(e)'
    BY <1>4, <2>1, <2>3, <2>4 DEF Sound, TwoLinked, Exists, OneLive
  <2>13. Sound(e)'
    BY <2>9, <2>10, <2>11, <2>12 DEF Sound
  <2>14. ASSUME NEW d \in Download, d # e PROVE Sound(d)'
    BY <1>5, <2>1, <2>3, <2>4, <2>14
  <2> QED BY <2>13, <2>14
<1>22. ~PrioAdd(w) /\ ~PrioLink(w)
  BY <1>1 DEF PrioAdd, PrioLink
<1> QED BY <1>9, <1>10, <1>11, <1>12, <1>13, <1>14, <1>15, <1>16, <1>17, <1>19, <1>20, <1>21, <1>22 DEF Work

LEMMA OrphanServe ==
  ASSUME OrphanInv, NEW h \in Handler, Serve(h)
  PROVE  \A d \in Download : Sound(d)'
<1>1. OneInv /\ Confined /\ HeldInv /\ TypeOK /\ RowOK /\ JobOK /\ HandlerOK /\ UNCHANGED worker
  BY DEF OrphanInv, OneInv, HeldInv, TypeOK, Serve, AddStored, AddNamed, HandlerAdd, HandlerLink, OnlyHandler
<1>2. handler[h].pc # "idle"
  BY DEF Serve, AddStored, AddNamed, HandlerAdd, HandlerLink, HandlerAt
<1>3. PICK e \in Download : /\ e = handler[h].d /\ Busy(h, e) /\ \A g \in Handler : Busy(g, e) => g = h
                            /\ handler[h].pc # "linking" => NoLive(e)
  BY <1>1, <1>2 DEF OneInv, Adds, Busy
<1>4. \A d \in Download : Sound(d)
  BY <1>1, <1>2 DEF OneInv, Starting, OrphanInv
<1>5. row[e].job = NoJob
  BY <1>3, <1>4 DEF Sound, Linking
<1>6. ASSUME \A d \in Download \ {e} : row'[d] = row[d], \A g \in Handler \ {h} : handler'[g] = handler[g],
             handler'[h].pc = "idle" \/ handler'[h].d = e,
             \A f \in Download, k \in JobId : f # e => (IsLive(f, k)' <=> IsLive(f, k)), Sound(e)'
      PROVE  \A d \in Download : Sound(d)'
  <2> SUFFICES ASSUME NEW d \in Download, d # e PROVE Sound(d)'
    BY <1>6
  <2>1. \A g \in Handler : (Busy(g, d)' <=> Busy(g, d)) /\ (Busy(g, d)' => handler'[g] = handler[g])
    BY <1>3, <1>6 DEF Busy
  <2> QED BY <1>1, <1>4, <1>6, <2>1, SoundSame
<1>7. CASE AddStored(h)
  <2>1. handler[h].pc = "storing" /\ UNCHANGED job
    BY <1>7 DEF AddStored, HandlerAt
  <2>2. CASE (row' = IF Exists(e) THEN [row EXCEPT ![e].doc = TRUE] ELSE row)
             /\ handler' = [handler EXCEPT ![h].doc = TRUE,
                                           ![h].pc = IF handler[h].kind = "url" THEN "naming" ELSE "adding"]
    <3>1. /\ handler'[h].d = e /\ handler'[h].pc \in {"naming", "adding"}
          /\ \A g \in Handler \ {h} : handler'[g] = handler[g]
      BY <1>1, <1>3, <2>2 DEF HandlerOK
    <3>2. row'[e].job = NoJob /\ \A d \in Download \ {e} : row'[d] = row[d]
      BY <1>1, <1>5, <2>2, StoredIs
    <3>3. Busy(h, e)' /\ \A g \in Handler : Busy(g, e)' => handler'[g].pc # "linking"
      BY <1>3, <3>1 DEF Busy
    <3>4. Sound(e)'
      BY <1>1, <1>3, <2>1, <3>2, <3>3, SoundFresh
    <3> QED BY <1>6, <2>1, <3>1, <3>2, <3>4 DEF IsLive
  <2>3. ASSUME NEW status \in {"failed", "cancelled"}, SetStatus(e, status), EndHandler(h)
        PROVE  \A d \in Download : Sound(d)'
    <3>1. handler'[h].pc = "idle" /\ \A g \in Handler \ {h} : handler'[g] = handler[g]
      BY <1>1, <2>3 DEF HandlerOK, EndHandler, NoHandler
    <3>2. /\ row'[e].status = (IF Exists(e) THEN status ELSE row[e].status) /\ row'[e].job = NoJob
          /\ \A d \in Download \ {e} : row'[d] = row[d]
      BY <1>1, <1>5, <2>3, StatusIs
    <3>3. ~Underway(e)'
      BY <3>2 DEF Underway, Exists, ActiveLike
    <3>4. \A g \in Handler : ~Busy(g, e)'
      BY <1>3, <3>1 DEF Busy
    <3>5. Sound(e)'
      BY <1>1, <1>3, <2>1, <3>2, <3>3, <3>4, SoundFresh
    <3> QED BY <1>6, <2>1, <3>1, <3>2, <3>5 DEF IsLive
  <2> QED BY <1>3, <1>7, <2>2, <2>3 DEF AddStored
<1>8. CASE AddNamed(h)
  <2>1. handler[h].pc = "naming" /\ UNCHANGED job /\ SetStatus(e, "queued")
    BY <1>3, <1>8 DEF AddNamed, HandlerAt
  <2>2. IF Exists(e) THEN handler'[h].d = e /\ handler'[h].pc = "adding" ELSE handler'[h].pc = "idle"
    BY <1>1, <1>3, <1>8 DEF AddNamed, Proceed, EndHandler, NoHandler, HandlerOK
  <2>3. \A g \in Handler \ {h} : handler'[g] = handler[g]
    BY <1>1, <1>8 DEF AddNamed, Proceed, EndHandler, HandlerOK
  <2>4. /\ row'[e].status = (IF Exists(e) THEN "queued" ELSE row[e].status) /\ row'[e].job = NoJob
        /\ \A d \in Download \ {e} : row'[d] = row[d]
    BY <1>1, <1>5, <2>1, StatusIs
  <2>5. Underway(e)' => Exists(e)
    BY <2>4 DEF Underway, Exists, ActiveLike
  <2>6. (Exists(e) => Busy(h, e)') /\ \A g \in Handler : Busy(g, e)' => handler'[g].pc # "linking"
    BY <1>3, <2>2, <2>3 DEF Busy
  <2>7. Sound(e)'
    BY <1>1, <1>3, <2>1, <2>4, <2>5, <2>6, SoundFresh
  <2> QED BY <1>6, <2>1, <2>2, <2>3, <2>4, <2>7 DEF IsLive
<1>9. CASE HandlerAdd(h)
  <2>1. handler[h].pc = "adding" /\ UNCHANGED row
    BY <1>9 DEF HandlerAdd, HandlerAt
  <2>2. PICK n \in AutoId : /\ Queue(e, n, "waiting", handler[h].doc)
                            /\ handler' = [handler EXCEPT ![h].pc = "linking", ![h].m = n]
    BY <1>3, <1>9 DEF HandlerAdd
  <2>3. n \in JobId /\ \A f \in Download, k \in JobId : IsLive(f, k)' <=> IsLive(f, k) \/ (f = e /\ k = n)
    BY <1>1, <2>2, QueueLive
  <2>4. /\ handler'[h].d = e /\ handler'[h].pc = "linking" /\ handler'[h].m = n
        /\ \A g \in Handler \ {h} : handler'[g] = handler[g]
    BY <1>1, <1>3, <2>2 DEF HandlerOK
  <2>5. \A k \in JobId : IsLive(e, k)' <=> k = n
    BY <1>3, <2>1, <2>3 DEF NoLive
  <2>6. \A v \in Worker : worker[v].d = e => worker[v].pc = "idle"
    BY <1>1, <1>3, <2>1, HolderLive DEF NoLive
  <2>7. Busy(h, e)' /\ \A g \in Handler : Busy(g, e)' => g = h
    BY <1>3, <2>4 DEF Busy
  <2>8. IsLive(e, handler[h].m)'
    <3>1. n \in JobId /\ IsLive(e, n)'
      BY <2>3, <2>5
    <3> QED BY <2>4, <3>1 DEF IsLive
  <2>9. Linking(e)'
    BY <1>1, <1>5, <2>1, <2>3, <2>4, <2>5, <2>6, <2>7, <2>8 DEF Linking, Later
  <2>10. LinkLive(e)' /\ Kept(e)'
    BY <1>5, <2>1, <2>7 DEF LinkLive, Kept
  <2>11. Working(e)' /\ Finishing(e)' /\ TwoLinked(e)'
    BY <1>1, <2>5, <2>6 DEF Working, WorksOn, Finishing, TwoLinked, OneLive
  <2>12. Sound(e)'
    BY <2>9, <2>10, <2>11 DEF Sound
  <2> QED BY <1>6, <2>1, <2>3, <2>4, <2>12
<1>10. CASE HandlerLink(h)
  <2>1. handler[h].kind # "retry" /\ handler[h].pc = "linking"
    BY <1>1, <1>10 DEF Confined, HandlerLink, HandlerAt
  <2>2. PICK m \in JobId : /\ m = handler[h].m /\ \A k \in JobId : IsLive(e, k) => k = m
                           /\ Underway(e) => IsLive(e, m)
    BY <1>3, <1>4, <2>1 DEF Sound, Linking
  <2>3. Update(e, row[e].status, m) /\ UNCHANGED job /\ EndHandler(h)
    BY <1>3, <1>10, <2>1, <2>2 DEF HandlerLink
  <2>4. /\ row'[e].status = row[e].status /\ row'[e].doc = row[e].doc
        /\ row'[e].job = (IF Exists(e) THEN m ELSE NoJob)
        /\ \A d \in Download \ {e} : row'[d] = row[d]
    BY <1>1, <1>5, <2>3, UpdateIs
  <2>5. handler'[h].pc = "idle" /\ \A g \in Handler \ {h} : handler'[g] = handler[g]
    BY <1>1, <2>3 DEF HandlerOK, EndHandler, NoHandler
  <2>6. (Underway(e)' <=> Underway(e)) /\ (Exists(e)' <=> Exists(e)) /\ (Underway(e) => Exists(e)) /\ m # NoJob
    BY <2>4 DEF Underway, Exists, ActiveLike, NoJob, JobId, AutoId, Prio
  <2>7. Underway(e) => IsLive(e, row[e].job)'
    BY <2>2, <2>3, <2>4, <2>6 DEF IsLive
  <2>8. LinkLive(e)' /\ Kept(e)'
    BY <2>4, <2>6, <2>7 DEF LinkLive, Kept, Owned
  <2>9. Linking(e)' /\ TwoLinked(e)'
    BY <1>3, <2>4, <2>5, <2>6 DEF Linking, TwoLinked, Busy
  <2>10. Working(e)'
    <3> SUFFICES ASSUME NEW v \in Worker, WorksOn(v, e) PROVE row'[e].job \in {NoJob, worker[v].n}
      BY <1>1 DEF Working, WorksOn
    <3>1. PICK k \in JobId : k = worker[v].n /\ IsLive(e, k)
      BY <1>1, HolderLive DEF WorksOn
    <3> QED BY <2>2, <2>4, <3>1
  <2>11. Finishing(e)'
    BY <1>1, <1>4, <1>5, <2>6 DEF Sound, Finishing
  <2>12. Sound(e)'
    BY <2>8, <2>9, <2>10, <2>11 DEF Sound
  <2> QED BY <1>6, <2>3, <2>4, <2>5, <2>12 DEF IsLive
<1> QED BY <1>7, <1>8, <1>9, <1>10 DEF Serve

\* What users do, and what the queue does by itself, while the process serves.
LEMMA OrphanRest ==
  ASSUME OrphanInv, Unhurried,
         \/ \E w \in Worker, d \in Download, n \in JobId : Take(w, d, n)
         \/ \E d \in Download, n \in JobId : Promote(d, n)
         \/ \E h \in Handler, d \in Download, kind \in {"upload", "url"} : AddCreate(h, d, kind)
         \/ \E d \in Download : Stop(d) \/ Delete(d) \/ (Age(d) /\ Serving)
  PROVE  Serving /\ UNCHANGED boot /\ \A d \in Download : Sound(d)'
<1>1. OneInv /\ HeldInv /\ RowOK /\ JobOK /\ WorkerOK /\ HandlerOK
  BY DEF OrphanInv, OneInv, HeldInv, TypeOK
<1>2. Serving => \A d \in Download : Sound(d)
  BY DEF OrphanInv
<1>3. ASSUME NEW w \in Worker, NEW e \in Download, NEW i \in JobId, Take(w, e, i)
      PROVE  Serving /\ UNCHANGED boot /\ \A d \in Download : Sound(d)'
  <2>1. /\ Serving /\ UNCHANGED <<row, handler, boot>> /\ worker[w].pc = "idle" /\ job[e][i].state = "waiting"
        /\ job' = [job EXCEPT ![e][i].state = "active"]
        /\ worker' = [worker EXCEPT ![w] = [pc |-> "load", d |-> e, n |-> i, m |-> NoJob]]
    BY <1>3 DEF Take, OnlyWorker
  <2>2. \A f \in Download, k \in JobId : IsLive(f, k)' <=> IsLive(f, k)
    <3>1. /\ job'[e][i].state = "active"
          /\ \A f \in Download, k \in JobId : <<f, k>> # <<e, i>> => job'[f][k] = job[f][k]
      BY <1>1, <2>1 DEF JobOK
    <3> QED BY <2>1, <3>1 DEF IsLive, Live
  <2>3. worker'[w].pc = "load" /\ \A v \in Worker \ {w} : worker'[v] = worker[v]
    BY <1>1, <2>1 DEF WorkerOK
  <2> SUFFICES ASSUME NEW d \in Download PROVE Sound(d)'
    BY <2>1
  <2>4. Sound(d)
    BY <1>2, <2>1
  <2>5. PICK j \in JobId \union {NoJob} : j = row[d].job
    BY <1>1 DEF RowOK
  <2>6. IsLive(d, row[d].job)' <=> IsLive(d, j)
    <3>1. IsLive(d, j)' <=> IsLive(d, j)
      BY <2>2, <2>5 DEF IsLive
    <3> QED BY <2>1, <2>5, <3>1 DEF IsLive
  <2>7. LinkLive(d)' /\ Kept(d)'
    BY <2>1, <2>2, <2>4, <2>5, <2>6 DEF Sound, LinkLive, Kept, Owned, Underway, Busy
  <2>8. Working(d)' /\ Finishing(d)' /\ TwoLinked(d)'
    BY <2>1, <2>2, <2>3, <2>4 DEF Sound, Working, WorksOn, Finishing, TwoLinked, OneLive, Exists, Underway
  <2>9. Linking(d)'
    <3> SUFFICES ASSUME NEW h \in Handler, Busy(h, d)
                 PROVE  /\ row'[d].job = NoJob
                        /\ handler[h].pc = "linking" =>
                             /\ handler[h].m \in JobId /\ \A k \in JobId : IsLive(d, k)' => k = handler[h].m
                             /\ Underway(d)' => IsLive(d, handler[h].m)'
                             /\ \A v \in Worker : worker'[v].d = d => worker'[v].pc \notin Later
      BY <2>1 DEF Linking, Busy
    <3>1. /\ row[d].job = NoJob
          /\ handler[h].pc = "linking" =>
               /\ handler[h].m \in JobId /\ \A k \in JobId : IsLive(d, k) => k = handler[h].m
               /\ Underway(d) => IsLive(d, handler[h].m)
               /\ \A v \in Worker : worker[v].d = d => worker[v].pc \notin Later
      BY <2>4 DEF Sound, Linking
    <3>2. ASSUME NEW m \in JobId, m = handler[h].m PROVE IsLive(d, m) <=> IsLive(d, handler[h].m)'
      <4>1. IsLive(d, m)' <=> IsLive(d, m)
        BY <2>2
      <4> QED BY <2>1, <3>2, <4>1 DEF IsLive
    <3> QED BY <2>1, <2>2, <2>3, <3>1, <3>2 DEF Underway, Later
  <2> QED BY <2>7, <2>8, <2>9 DEF Sound
<1>4. ASSUME NEW e \in Download, NEW i \in JobId, Promote(e, i)
      PROVE  Serving /\ UNCHANGED boot /\ \A d \in Download : Sound(d)'
  <2>1. /\ Serving /\ UNCHANGED <<row, handler, worker, boot>> /\ job[e][i].state = "delayed"
        /\ job' = [job EXCEPT ![e][i].state = "waiting"]
    BY <1>4 DEF Promote
  <2>2. \A f \in Download, k \in JobId : IsLive(f, k)' <=> IsLive(f, k)
    <3>1. /\ job'[e][i].state = "waiting"
          /\ \A f \in Download, k \in JobId : <<f, k>> # <<e, i>> => job'[f][k] = job[f][k]
      BY <1>1, <2>1 DEF JobOK
    <3> QED BY <2>1, <3>1 DEF IsLive, Live
  <2> SUFFICES ASSUME NEW d \in Download PROVE Sound(d)'
    BY <2>1
  <2>3. \A h \in Handler : (Busy(h, d)' <=> Busy(h, d)) /\ handler'[h] = handler[h]
    BY <2>1 DEF Busy
  <2> QED BY <1>1, <1>2, <2>1, <2>2, <2>3, SoundSame
<1>5. ASSUME NEW h \in Handler, NEW e \in Download, NEW kind \in {"upload", "url"}, AddCreate(h, e, kind)
      PROVE  Serving /\ UNCHANGED boot /\ \A d \in Download : Sound(d)'
  <2>1. UNCHANGED <<job, worker, boot>> /\ row[e].status = "absent" /\ Serving
    BY <1>5 DEF AddCreate, OnlyHandler, Open, Unhurried
  <2>2. row'[e].job = NoJob /\ \A d \in Download \ {e} : row'[d] = row[d]
    BY <1>1, <1>5 DEF AddCreate, RowOK
  <2>3. handler[h].pc = "idle" /\ handler'[h].d = e /\ handler'[h].pc = "storing" /\ \A g \in Handler \ {h} : handler'[g] = handler[g]
    BY <1>1, <1>5 DEF AddCreate, HandlerAt, HandlerOK, NoHandler
  <2>4. NoLive(e) /\ \A g \in Handler : ~Busy(g, e)
    BY <1>1, <2>1 DEF OneInv, Blank
  <2>5. Busy(h, e)' /\ \A g \in Handler : Busy(g, e)' => handler'[g].pc # "linking"
    BY <2>3, <2>4 DEF Busy
  <2>6. Sound(e)'
    BY <1>1, <2>1, <2>2, <2>4, <2>5, SoundFresh
  <2>7. ASSUME NEW d \in Download, d # e PROVE Sound(d)'
    <3>1. \A g \in Handler : (Busy(g, d)' <=> Busy(g, d)) /\ (Busy(g, d)' => handler'[g] = handler[g])
      BY <2>3, <2>7 DEF Busy
    <3>2. \A n \in JobId : IsLive(d, n)' <=> IsLive(d, n)
      BY <2>1 DEF IsLive
    <3> QED BY <1>1, <1>2, <2>1, <2>2, <2>7, <3>1, <3>2, SoundSame
  <2> QED BY <2>1, <2>6, <2>7
<1>6. ASSUME UNCHANGED <<job, worker, handler, boot>>, Serving, NEW e \in Download, \A d \in Download \ {e} : row'[d] = row[d],
             row'[e].job = row[e].job, Underway(e)' => Underway(e), Exists(e)' => Exists(e)
      PROVE  Serving /\ UNCHANGED boot /\ \A d \in Download : Sound(d)'
  <2>1. Sound(e)'
    BY <1>1, <1>2, <1>6, SoundRow
  <2>2. ASSUME NEW d \in Download, d # e PROVE Sound(d)'
    <3>1. row'[d] = row[d]
      BY <1>6, <2>2
    <3>2. (Underway(d)' => Underway(d)) /\ (Exists(d)' => Exists(d))
      BY <3>1 DEF Underway, Exists
    <3> QED BY <1>1, <1>2, <1>6, <3>1, <3>2, SoundRow
  <2> QED BY <1>6, <2>1, <2>2
<1>7. ASSUME NEW e \in Download, Stop(e) \/ Delete(e)
      PROVE  Serving /\ UNCHANGED boot /\ \A d \in Download : Sound(d)'
  <2>1. PICK status \in {"paused", "cancelled", "deleted"} : \E move : SetByUser(e, move, status)
    BY <1>7 DEF Stop, Delete
  <2>2. SetStatus(e, status) /\ UNCHANGED <<job, worker, handler, boot>> /\ Serving /\ Exists(e)
    BY <2>1 DEF SetByUser, Open, Unhurried
  <2>3. row'[e].status = status /\ row'[e].job = row[e].job /\ \A d \in Download \ {e} : row'[d] = row[d]
    BY <1>1, <2>2, StatusIs
  <2>4. ~Underway(e)'
    BY <2>3 DEF Underway, ActiveLike
  <2> QED BY <1>6, <2>2, <2>3, <2>4
<1>8. ASSUME NEW e \in Download, Age(e), Serving
      PROVE  Serving /\ UNCHANGED boot /\ \A d \in Download : Sound(d)'
  <2>1. /\ row'[e].status = row[e].status /\ row'[e].job = row[e].job /\ row'[e].doc = row[e].doc
        /\ \A d \in Download \ {e} : row'[d] = row[d]
    BY <1>1, <1>8 DEF Age, RowOK
  <2>2. (Underway(e)' => Underway(e)) /\ (Exists(e)' => Exists(e))
    BY <2>1 DEF Underway, Exists
  <2> QED BY <1>6, <1>8, <2>1, <2>2 DEF Age
<1> QED BY <1>3, <1>4, <1>5, <1>7, <1>8


\* Startup keeps every download under way in its list until its job is linked.
LEMMA OrphanBoot ==
  ASSUME OrphanInv, Boot \/ (\E d \in Download, n \in JobId : BootStale(d, n)) \/ \E d \in Download : Age(d) /\ ~Serving
  PROVE  (Serving' => \A d \in Download : Sound(d)') /\ Rebuilding'
<1>1. RowOK /\ JobOK /\ BootOK /\ OneInv /\ HeldInv /\ Rebuilding /\ \A i \in boot.todo : i.d \in Download
  BY DEF OrphanInv, OneInv, HeldInv, TypeOK, BootOK
<1>2. boot.pc \in {"loop", "link"} =>
        /\ \A d \in Download : OneLive(d)
        /\ \A i \in boot.todo : i.doc = row[i.d].doc /\ \A j \in boot.todo : j.d = i.d => j = i
        /\ boot.pc = "link" => boot.d \in Download /\ boot.m \in JobId /\ IsLive(boot.d, boot.m)
        /\ \A d \in Download : Underway(d) =>
             (\E i \in boot.todo : i.d = d) \/ (boot.pc = "link" /\ boot.d = d) \/ IsLive(d, row[d].job)
  BY <1>1 DEF Rebuilding, OneInv, Starting
<1>3. CASE Listen \/ Obliterate \/ (BootNext /\ boot.again) \/ \E d \in Download, n \in JobId : BootStale(d, n)
  <2>1. boot'.pc \in {"stale", "scan"}
    BY <1>1, <1>3 DEF Listen, Obliterate, BootNext, BootStale, BootAt, BootOK
  <2> QED BY <2>1 DEF Rebuilding, Serving
<1>4. CASE BootScan
  <2>1. /\ UNCHANGED row /\ boot'.pc = "loop"
        /\ boot'.todo = {[d |-> d, doc |-> row[d].doc] : d \in {e \in Download : row[e].status \in ActiveLike}}
    BY <1>1, <1>4 DEF BootScan, BootAt, BootOK, Rebuilt
  <2>2. \A i \in boot'.todo : i.doc = row'[i.d].doc
    BY <2>1
  <2>3. ASSUME NEW d \in Download, Underway(d)'
        PROVE  \E i \in boot'.todo : i.d = d
    <3>1. row[d].status \in ActiveLike
      BY <2>1, <2>3 DEF Underway
    <3>2. [d |-> d, doc |-> row[d].doc] \in boot'.todo
      BY <2>1, <3>1
    <3> QED BY <3>2
  <2> QED BY <2>1, <2>2, <2>3 DEF Rebuilding, Serving
<1>5. CASE BootNext /\ ~boot.again
  <2>1. boot'.pc = "serving" /\ boot.pc = "loop" /\ boot.todo = {} /\ UNCHANGED <<row, job, worker, handler>>
    BY <1>1, <1>5 DEF BootNext, BootOK, BootAt
  <2>2. (\A h \in Handler : handler'[h].pc = "idle") /\ \A w \in Worker : worker'[w].pc = "idle"
    BY <1>1, <2>1 DEF OneInv, Starting, HeldInv, BootIdle, Serving
  <2>3. ASSUME NEW d \in Download PROVE Sound(d)'
    <3>1. Underway(d) => IsLive(d, row[d].job)
      BY <1>2, <2>1
    <3>2. Underway(d)' => IsLive(d, row[d].job)'
      BY <2>1, <3>1 DEF Underway, IsLive
    <3>3. OneLive(d)'
      BY <1>2, <2>1 DEF OneLive, IsLive
    <3>4. LinkLive(d)' /\ Kept(d)'
      BY <3>2 DEF LinkLive, Kept, Owned, IsLive
    <3>5. Linking(d)' /\ Working(d)' /\ Finishing(d)' /\ TwoLinked(d)'
      BY <2>2, <3>3 DEF Linking, Busy, Working, WorksOn, Finishing, TwoLinked
    <3> QED BY <3>4, <3>5 DEF Sound
  <2> QED BY <2>1, <2>3 DEF Rebuilding
<1>6. ASSUME NEW i \in boot.todo, BootFail(i)
      PROVE  ~Serving' /\ Rebuilding'
  <2>1. /\ UNCHANGED job /\ boot.pc = "loop" /\ boot'.pc = "loop" /\ boot'.todo = boot.todo \ {i}
        /\ boot'.d = boot.d /\ ~i.doc
    BY <1>1, <1>6 DEF BootFail, OnlyBoot, BootOK, BootAt
  <2>2. PICK e \in Download : e = i.d /\ ~row[e].doc
    BY <1>1, <1>2, <2>1
  <2>3. /\ row'[e].doc = row[e].doc
        /\ \A d \in Download \ {e} : row'[d] = row[d]
    BY <1>1, <1>6, <2>2, StatusIs DEF BootFail
  <2>4. \A j \in boot'.todo : j.doc = row'[j.d].doc
    BY <1>1, <1>2, <2>1, <2>2, <2>3
  <2>5. ASSUME NEW d \in Download, Underway(d)'
        PROVE  (\E j \in boot'.todo : j.d = d) \/ IsLive(d, row[d].job)'
    <3>1. d # e /\ row'[d] = row[d] /\ Underway(d)
      BY <2>2, <2>3, <2>5 DEF Underway
    <3>2. (\E j \in boot.todo : j.d = d) \/ IsLive(d, row[d].job)
      BY <1>2, <2>1, <3>1
    <3> QED BY <2>1, <2>2, <3>1, <3>2 DEF IsLive
  <2> QED BY <2>1, <2>4, <2>5 DEF Rebuilding, Serving
<1>7. CASE BootLink
  <2>1. UNCHANGED job /\ boot.pc = "link" /\ boot'.pc = "loop" /\ boot'.todo = boot.todo
    BY <1>1, <1>7 DEF BootLink, OnlyBoot, BootOK, BootAt
  <2>2. PICK e \in Download, m \in JobId : e = boot.d /\ m = boot.m /\ IsLive(e, m)
    BY <1>2, <2>1
  <2>3. Update(e, "queued", m)
    BY <1>7, <2>2 DEF BootLink
  <2>4. /\ row'[e].status = (IF Exists(e) THEN "queued" ELSE row[e].status)
        /\ row'[e].job = (IF Exists(e) THEN m ELSE row[e].job)
        /\ row'[e].doc = row[e].doc
        /\ \A d \in Download \ {e} : row'[d] = row[d]
    BY <1>1, <2>3, UpdateIs
  <2>5. \A j \in boot'.todo : j.doc = row'[j.d].doc
    BY <1>1, <1>2, <2>1, <2>4
  <2>6. Underway(e)' => row'[e].job = m
    BY <2>4 DEF Underway, Exists, ActiveLike
  <2>7. Underway(e)' => IsLive(e, row[e].job)'
    BY <2>1, <2>2, <2>6 DEF IsLive
  <2>8. ASSUME NEW d \in Download \ {e}, Underway(d)'
        PROVE  (\E j \in boot'.todo : j.d = d) \/ IsLive(d, row[d].job)'
    <3>1. row'[d] = row[d] /\ Underway(d)
      BY <2>4, <2>8 DEF Underway
    <3>2. (\E j \in boot.todo : j.d = d) \/ IsLive(d, row[d].job)
      BY <1>2, <2>1, <2>2, <3>1
    <3> QED BY <2>1, <3>1, <3>2 DEF IsLive
  <2> QED BY <2>1, <2>5, <2>7, <2>8 DEF Rebuilding, Serving
<1>8. ASSUME NEW i \in boot.todo, BootAdd(i)
      PROVE  ~Serving' /\ Rebuilding'
  <2>1. UNCHANGED row /\ boot.pc = "loop"
    BY <1>8 DEF BootAdd, BootAt
  <2>2. PICK e \in Download : e = i.d
    BY <1>1
  <2>3. PICK n \in AutoId : /\ Queue(e, n, "waiting", TRUE)
                            /\ boot' = [boot EXCEPT !.pc = "link", !.todo = @ \ {i}, !.d = i.d, !.m = n]
    BY <1>8, <2>2 DEF BootAdd
  <2>4. n \in JobId /\ \A f \in Download, k \in JobId : IsLive(f, k)' <=> IsLive(f, k) \/ (f = e /\ k = n)
    BY <1>1, <2>3, QueueLive
  <2>5. boot'.pc = "link" /\ boot'.todo = boot.todo \ {i} /\ boot'.d = e /\ boot'.m = n
    BY <1>1, <2>2, <2>3 DEF BootOK
  <2>6. IsLive(boot.d, boot.m)'
    <3>1. IsLive(e, n)'
      BY <2>4
    <3> QED BY <2>5, <3>1 DEF IsLive
  <2>7. \A j \in boot'.todo : j.doc = row'[j.d].doc
    BY <1>2, <2>1, <2>5
  <2>8. ASSUME NEW d \in Download, Underway(d)'
        PROVE  (\E j \in boot'.todo : j.d = d) \/ boot'.d = d \/ IsLive(d, row[d].job)'
    <3>1. (\E j \in boot.todo : j.d = d) \/ IsLive(d, row[d].job)
      BY <1>2, <2>1, <2>8 DEF Underway
    <3>2. PICK k \in JobId \union {NoJob} : k = row[d].job
      BY <1>1 DEF RowOK
    <3>3. ASSUME IsLive(d, row[d].job) PROVE IsLive(d, row[d].job)'
      <4>1. k \in JobId /\ IsLive(d, k)
        BY <3>2, <3>3 DEF IsLive
      <4>2. IsLive(d, k)'
        BY <2>4, <4>1
      <4> QED BY <2>1, <3>2, <4>2 DEF IsLive
    <3> QED BY <2>2, <2>5, <3>1, <3>3
  <2> QED BY <2>4, <2>5, <2>6, <2>7, <2>8 DEF Rebuilding, Serving
<1>9. ASSUME NEW e \in Download, Age(e), ~Serving
      PROVE  ~Serving' /\ Rebuilding'
  <2>1. UNCHANGED <<job, boot>>
    BY <1>9 DEF Age
  <2>2. \A d \in Download : row'[d].status = row[d].status /\ row'[d].job = row[d].job /\ row'[d].doc = row[d].doc
    BY <1>1, <1>9 DEF Age, RowOK
  <2>3. \A d \in Download : (Underway(d)' <=> Underway(d)) /\ (IsLive(d, row[d].job)' <=> IsLive(d, row[d].job))
    BY <2>1, <2>2 DEF Underway, IsLive
  <2>4. boot.pc = "link" => (IsLive(boot.d, boot.m)' <=> IsLive(boot.d, boot.m))
    BY <2>1 DEF IsLive
  <2>5. \A i \in boot.todo : row'[i.d].doc = row[i.d].doc
    BY <1>1, <2>2
  <2> QED BY <1>2, <1>9, <2>1, <2>3, <2>4, <2>5 DEF Rebuilding, Serving
<1> QED BY <1>3, <1>4, <1>5, <1>6, <1>7, <1>8, <1>9 DEF Boot

LEMMA OrphanNext ==
  ASSUME OrphanInv, Direct, [Next]_vars
  PROVE  OrphanInv'
<1>1. Plain /\ Unhurried
  BY DEF Direct, Plain, Unhurried
<1>2. OneInv /\ HeldInv /\ TypeOK /\ Confined /\ Waits /\ (Serving => \A d \in Download : Sound(d)) /\ Rebuilding
  BY DEF OrphanInv, OneInv, HeldInv
<1>3. OneInv' /\ HeldInv'
  BY <1>1, <1>2, OneNext DEF OneInv
<1>4. Confined' /\ Waits'
  BY <1>1, <1>2, <1>3, ConfinedNext, WaitsNext
<1> SUFFICES (Serving' => \A d \in Download : Sound(d)') /\ Rebuilding'
  BY <1>3, <1>4 DEF OrphanInv
<1>5. ASSUME Serving, UNCHANGED boot, \A d \in Download : Sound(d)'
      PROVE  (Serving' => \A d \in Download : Sound(d)') /\ Rebuilding'
  BY <1>5 DEF Rebuilding, Serving
<1>6. ASSUME NEW w \in Worker, Work(w), ~RefreshAdd(w), ~RefreshLink(w)
      PROVE  (Serving' => \A d \in Download : Sound(d)') /\ Rebuilding'
  <2>1. worker[w].pc # "idle" /\ UNCHANGED boot
    BY <1>6 DEF Work, Load, Capacity, Fetch, Fetched, Plan, Mount, Verify, Import, Backoff, BackoffAdd, BackoffLink,
           Requeue, PrioAdd, PrioLink, Decide, Finish, OnlyWorker
  <2>2. Serving
    BY <1>2, <2>1, HolderLive
  <2> QED BY <1>5, <1>6, <2>1, <2>2, OrphanWork
<1>7. ASSUME NEW h \in Handler, Serve(h)
      PROVE  (Serving' => \A d \in Download : Sound(d)') /\ Rebuilding'
  <2>1. handler[h].pc # "idle" /\ UNCHANGED boot
    BY <1>7 DEF Serve, AddStored, AddNamed, HandlerAdd, HandlerLink, HandlerAt, OnlyHandler
  <2>2. Serving
    BY <1>2, <2>1 DEF OneInv, Starting
  <2> QED BY <1>5, <1>7, <2>1, <2>2, OrphanServe
<1>8. CASE Crash
  BY <1>8 DEF Crash, Rebuilding, Serving
<1>9. CASE UNCHANGED vars
  <2>1. UNCHANGED <<row, job, worker, handler, boot>>
    BY <1>9 DEF vars
  <2>2. ASSUME Serving PROVE \A d \in Download : Sound(d)'
    <3> SUFFICES ASSUME NEW d \in Download PROVE Sound(d)'
      OBVIOUS
    <3>1. (\A h \in Handler : Busy(h, d)' <=> Busy(h, d)) /\ \A n \in JobId : IsLive(d, n)' <=> IsLive(d, n)
      BY <2>1 DEF Busy, IsLive
    <3> QED BY <1>2, <2>1, <2>2, <3>1, SoundSame DEF HeldInv, TypeOK
  <2>3. Rebuilding'
    BY <1>2, <2>1 DEF Rebuilding, Underway, IsLive
  <2> QED BY <2>1, <2>2, <2>3 DEF Serving
<1> QED BY <1>1, <1>2, <1>5, <1>6, <1>7, <1>8, <1>9, PlainSteps, OrphanRest, OrphanBoot

\* As long as users only add, pause, cancel and delete, links are told in time
\* and the only trouble is a provider's refusal or a job found overdue at
\* startup, a download under way always has its live job: no interleaving of
\* slots and requests, and no number of restarts, loses one.
THEOREM NoOrphanHolds ==
  ASSUME Direct
  PROVE  Spec => []NoOrphan
<1>1. Init => OrphanInv
  <2> SUFFICES ASSUME Init PROVE OrphanInv
    OBVIOUS
  <2>1. Confined /\ Waits /\ Rebuilding
    BY DEF Init, Confined, Waits, Rebuilding, NoWorker, NoHandler, NoRec, NoView
  <2>2. ASSUME NEW d \in Download PROVE Sound(d)
    <3>1. row[d].job = NoJob /\ ~Underway(d) /\ ~Exists(d)
      BY DEF Init, Underway, Exists, ActiveLike
    <3>2. (\A h \in Handler : handler[h].pc = "idle") /\ \A w \in Worker : worker[w].pc = "idle"
      BY DEF Init, NoHandler, NoWorker
    <3> QED BY <3>1, <3>2 DEF Sound, LinkLive, Linking, Busy, Working, WorksOn, Finishing, TwoLinked, Kept
  <2> QED BY <2>1, <2>2, OneInit DEF OrphanInv
<1>2. OrphanInv /\ [Next]_vars => OrphanInv'
  BY OrphanNext
<1>3. OrphanInv => NoOrphan
  BY DEF OrphanInv, Sound, Kept, Underway, Busy, NoOrphan
<1> QED BY <1>1, <1>2, <1>3, PTL DEF Spec
=============================================================================
