--------------------------- MODULE TaskScheduler ---------------------------
(***************************************************************************)
(* Background tasks: the registry (workers/tasks/taskRegistry.ts), the     *)
(* cycles that check for conflicts before they start a task                *)
(* (services/requests/sync/scheduler.ts), the manual entry point           *)
(* (controllers/taskController.ts, services/taskService.ts) and the        *)
(* startup sequence (state-machines/serverLifecycleMachine.ts).            *)
(*                                                                         *)
(* A run is one asynchronous call into the scheduler.  Node executes the   *)
(* code between two awaits without interruption, so an action below is the *)
(* code from one await to the next: a conflict check and the start that    *)
(* follows it are one action, a gate that awaits before them is a step of  *)
(* its own and whatever was checked before it may have changed.            *)
(***************************************************************************)
EXTENDS Sequences

CONSTANTS Run,       \* calls that may be in flight together
          Overstay   \* tasks whose execution may outlast STALE_RUNNING_TASK_MS

Task == {"sync", "recovery", "reconcile", "import", "interrupted", "naming", "cleanup"}
Status == {"idle", "running"}   \* idle stands for idle, success and failed: no code tells them apart
Stage == {"syncGate", "importGate", "recoveryGate", "interrupted",
          "reconcile", "startupInterrupted", "release"}
None == "none"

ASSUME OverstayAssumption == Overstay \subseteq Task

\* The tasks that always end within the limit.
Brief == Task \ Overstay

VARIABLES
  status,     \* task.status of each registered task
  stale,      \* has lastStartedAt fallen more than 30 minutes behind?
  syncFlag,   \* the module variable `running` of scheduler.ts
  todo,       \* the stages a run has still to go through
  exec,       \* the task whose action a run is awaiting
  booted      \* has startup recovery been called?

vars == <<status, stale, syncFlag, todo, exec, booted>>

TypeOK ==
  /\ status \in [Task -> Status]
  /\ stale \in [Task -> BOOLEAN]
  /\ syncFlag \in BOOLEAN
  /\ todo \in [Run -> Seq(Stage)]
  /\ exec \in [Run -> Task \union {None}]
  /\ booted \in BOOLEAN

Init ==
  /\ status = [t \in Task |-> "idle"]
  /\ stale = [t \in Task |-> FALSE]
  /\ syncFlag = FALSE
  /\ todo = [r \in Run |-> <<>>]
  /\ exec = [r \in Run |-> None]
  /\ booted = FALSE

-----------------------------------------------------------------------------
\* The registry: what runTrackedTask does before it awaits the action.

Running(t) == status[t] = "running"

\* Mutant: the import cycle forgets to look for a recovery.
ConflictsOf_NoRecovery(t) ==
  CASE t = "recovery"    -> {"import", "interrupted", "naming", "cleanup"}
    [] t = "import"      -> {"naming", "cleanup", "interrupted"}
    [] t = "interrupted" -> {"recovery", "import", "naming", "cleanup"}
    [] t = "naming"      -> {"import", "cleanup"}
    [] t = "cleanup"     -> {"import", "naming"}
    [] OTHER             -> {}

\* hasConflictingHeavyTask, with the list each cycle passes to it.
ConflictsOf(t) ==
  CASE t = "recovery"    -> {"import", "interrupted", "naming", "cleanup"}
    [] t = "import"      -> {"naming", "cleanup", "recovery", "interrupted"}
    [] t = "interrupted" -> {"recovery", "import", "naming", "cleanup"}
    [] t = "naming"      -> {"import", "cleanup"}
    [] t = "cleanup"     -> {"import", "naming"}
    [] OTHER             -> {}

Clear(t) == \A u \in ConflictsOf(t) : ~Running(u)

\* Mutant: the registry starts a task whatever its status.
Startable_Always(t) == t \in Task

\* A running task is left alone unless its start is more than 30 minutes old,
\* in which case its state is cleared and the action starts again.
Startable(t) == Running(t) => stale[t]

BeginTask(r, t) ==
  /\ Startable(t)
  /\ status' = [status EXCEPT ![t] = "running"]
  /\ stale' = [stale EXCEPT ![t] = FALSE]
  /\ exec' = [exec EXCEPT ![r] = t]

SkipTask == UNCHANGED <<status, stale, exec>>

Tracked(r, t) == BeginTask(r, t) \/ (~Startable(t) /\ SkipTask)

\* The stages of a cycle that follow the one that just started or was skipped.
Advance(r) == todo' = [todo EXCEPT ![r] = Tail(@)]

Idle(r) == todo[r] = <<>> /\ exec[r] = None
At(r, s) == exec[r] = None /\ todo[r] # <<>> /\ Head(todo[r]) = s

-----------------------------------------------------------------------------
\* Entry points.

\* runTaskHandler for the two maintenance tasks: the check and the start are
\* not separated by an await.
CallMaintenance(r, t) ==
  /\ Idle(r) /\ t \in {"naming", "cleanup"}
  /\ ~Running(t) /\ Clear(t)
  /\ BeginTask(r, t)
  /\ UNCHANGED <<syncFlag, todo, booted>>

\* runTaskHandler for import-reconcile: its check precedes the playback gate.
CallImport(r) ==
  /\ Idle(r)
  /\ \A u \in {"import", "naming", "cleanup"} : ~Running(u)
  /\ todo' = [todo EXCEPT ![r] = <<"importGate">>]
  /\ UNCHANGED <<status, stale, syncFlag, exec, booted>>

\* runTaskHandler or the recovery timer, which does not look at the registry.
CallRecovery(r) ==
  /\ Idle(r)
  /\ todo' = [todo EXCEPT ![r] = <<"recoveryGate">>]
  /\ UNCHANGED <<status, stale, syncFlag, exec, booted>>

\* runTaskHandler for interrupted-download-recovery: no await before the start.
CallInterrupted(r) ==
  /\ Idle(r) /\ ~Running("interrupted") /\ Clear("interrupted")
  /\ BeginTask(r, "interrupted")
  /\ UNCHANGED <<syncFlag, todo, booted>>

\* runTaskHandler for request-sync: `running` is tested before the gate awaits.
CallSync(r) ==
  /\ Idle(r) /\ ~Running("sync") /\ ~syncFlag
  /\ todo' = [todo EXCEPT ![r] = <<"syncGate">>]
  /\ UNCHANGED <<status, stale, syncFlag, exec, booted>>

\* fullSyncRefreshHandler, or the one-shot timer after startup.
CallFullSync(r) ==
  /\ Idle(r) /\ ~syncFlag
  /\ syncFlag' = TRUE
  /\ Tracked(r, "sync")
  /\ todo' = [todo EXCEPT ![r] = <<"release">>]
  /\ UNCHANGED booted

\* startupRecovery, once per process.
CallStartup(r) ==
  /\ Idle(r) /\ ~booted
  /\ booted' = TRUE
  /\ todo' = [todo EXCEPT ![r] = <<"reconcile", "importGate", "startupInterrupted">>]
  /\ UNCHANGED <<status, stale, syncFlag, exec>>

-----------------------------------------------------------------------------
\* Stages.

\* The gate of runRequestSyncCycle lets it through: the flag is set without
\* being tested again, and the cycle goes on to its other two tasks.
PassSyncGate(r) ==
  /\ At(r, "syncGate")
  /\ syncFlag' = TRUE
  /\ Tracked(r, "sync")
  /\ todo' = [todo EXCEPT ![r] = <<"interrupted", "importGate", "release">>]
  /\ UNCHANGED booted

\* Playback, a library scan or hot IO defers the cycle.
Defer(r) ==
  /\ At(r, "syncGate") \/ At(r, "importGate") \/ At(r, "recoveryGate")
  /\ Advance(r)
  /\ UNCHANGED <<status, stale, syncFlag, exec, booted>>

\* After its gate a cycle checks for conflicts and starts, in one go.
Checked(r, s, t) ==
  /\ At(r, s)
  /\ IF Clear(t) THEN Tracked(r, t) ELSE SkipTask
  /\ Advance(r)
  /\ UNCHANGED <<syncFlag, booted>>

PassImportGate(r) == Checked(r, "importGate", "import")
PassRecoveryGate(r) == Checked(r, "recoveryGate", "recovery")
CycleInterrupted(r) == Checked(r, "interrupted", "interrupted")

\* Startup goes through the registry but looks for no conflict.
StartupReconcile(r) ==
  /\ At(r, "reconcile")
  /\ Tracked(r, "reconcile")
  /\ Advance(r)
  /\ UNCHANGED <<syncFlag, booted>>

StartupInterrupted(r) ==
  /\ At(r, "startupInterrupted")
  /\ Tracked(r, "interrupted")
  /\ Advance(r)
  /\ UNCHANGED <<syncFlag, booted>>

\* finally { running = false }
Release(r) ==
  /\ At(r, "release")
  /\ syncFlag' = FALSE
  /\ Advance(r)
  /\ UNCHANGED <<status, stale, exec, booted>>

-----------------------------------------------------------------------------
\* Mutant: no finally, the failure leaves the cycle with the flag set.
AfterFailure_NoFinally(r) ==
  IF exec[r] \in {"sync", "reconcile"} THEN <<>> ELSE todo[r]

\* Mutant: the failed task itself is put back in front of its cycle.
AfterFailure_Retry(r) == <<exec[r]>> \o todo[r]

\* The awaited action ends.  A failing request sync skips the rest of its
\* cycle but not the finally; a failing queue reconcile ends startup.
AfterFailure(r) ==
  CASE exec[r] = "sync"      -> <<"release">>
    [] exec[r] = "reconcile" -> <<>>
    [] OTHER                 -> todo[r]

\* Mutant: the catch of runTrackedTask does not mark the task as completed.
Finish_KeepsStatus(r, outcome) ==
  /\ exec[r] # None
  /\ status' = IF outcome = "failed" THEN status ELSE [status EXCEPT ![exec[r]] = "idle"]
  /\ exec' = [exec EXCEPT ![r] = None]
  /\ todo' = [todo EXCEPT ![r] = IF outcome = "failed" THEN AfterFailure(r) ELSE @]
  /\ UNCHANGED <<stale, syncFlag, booted>>

Finish(r, outcome) ==
  /\ exec[r] # None
  /\ status' = [status EXCEPT ![exec[r]] = "idle"]
  /\ exec' = [exec EXCEPT ![r] = None]
  /\ todo' = [todo EXCEPT ![r] = IF outcome = "failed" THEN AfterFailure(r) ELSE @]
  /\ UNCHANGED <<stale, syncFlag, booted>>

\* More than STALE_RUNNING_TASK_MS go by while a task is running.
HalfHour(t) ==
  /\ t \in Overstay /\ Running(t) /\ ~stale[t]
  /\ stale' = [stale EXCEPT ![t] = TRUE]
  /\ UNCHANGED <<status, syncFlag, todo, exec, booted>>

Call(r) ==
  \/ \E t \in Task : CallMaintenance(r, t)
  \/ CallImport(r) \/ CallRecovery(r) \/ CallInterrupted(r)
  \/ CallSync(r) \/ CallFullSync(r) \/ CallStartup(r)

Step(r) ==
  \/ PassSyncGate(r) \/ Defer(r) \/ PassImportGate(r) \/ PassRecoveryGate(r)
  \/ CycleInterrupted(r) \/ StartupReconcile(r) \/ StartupInterrupted(r)
  \/ Release(r)
  \/ \E outcome \in {"success", "failed"} : Finish(r, outcome)

Next ==
  \/ \E r \in Run : Call(r) \/ Step(r)
  \/ \E t \in Task : HalfHour(t)

Spec == Init /\ [][Next]_vars

\* A run that has begun goes on: promises settle and the event loop turns.
FairSpec == Spec /\ \A r \in Run : WF_vars(Step(r))

-----------------------------------------------------------------------------
\* Pairs whose two sides both look for the other.  Naming and cleanup do not
\* look for recovery or interrupted, and startup starts interrupted without
\* looking, so those pairs are not promised.
Excludes ==
  {p \in Task \X Task : {p[1], p[2]} \in {{"recovery", "import"}, {"import", "naming"},
                                         {"import", "cleanup"}, {"naming", "cleanup"}}}

\* No task that ends within the limit is executed by two runs at a time, also
\* when others outlast it.  (One that outlasts it may be: see Startable.)
NoDuplicateExecution ==
  \A r, s \in Run : r # s /\ exec[r] = exec[s] => exec[r] \notin Brief

\* The registry tells the truth about them: a task is marked running exactly
\* while some run executes its action, so that a conflict check can rely on it.
RegistryHonest ==
  \A t \in Brief : Running(t) <=> \E r \in Run : exec[r] = t

\* Two of them that look for each other are never executed together.
MutualExclusion ==
  \A r, s \in Run : exec[r] \in Brief /\ exec[s] \in Brief => <<exec[r], exec[s]>> \notin Excludes

\* The flag of the sync cycle is always given back, whatever fails.
FlagReleased == syncFlag ~> ~syncFlag

\* The promise made to the tasks that end in time (TaskExclusion.tla).
Promise == INSTANCE TaskExclusion
  WITH Task <- Brief, Excludes <- Excludes,
       executing <- {exec[r] : r \in {q \in Run : exec[q] \in Brief}}
KeepsPromise == Promise!Spec
=============================================================================
