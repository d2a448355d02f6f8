------------------------ MODULE TaskSchedulerProofs ------------------------
(***************************************************************************)
(* For every set of runs and of tasks that may outlast the stale-state     *)
(* limit: the type invariant of TaskScheduler, the exclusion properties of *)
(* the tasks that end in time, and the refinement of TaskExclusion.  For   *)
(* the others they are false, as the run "tasks_overstay" shows.           *)
(***************************************************************************)
EXTENDS TaskScheduler, TLAPS

\* The guards and the updates of every stage stay inside the types.
LEMMA TypeInit == Init => TypeOK
<1> SUFFICES ASSUME Init PROVE TypeOK
  OBVIOUS
<1>1. <<>> \in Seq(Stage)
  OBVIOUS
<1>2. todo \in [Run -> Seq(Stage)]
  BY <1>1 DEF Init
<1>3. /\ status \in [Task -> Status]
      /\ stale \in [Task -> BOOLEAN]
      /\ exec \in [Run -> Task \union {None}]
  BY DEF Init, Status
<1> QED BY <1>2, <1>3 DEF Init, TypeOK

LEMMA TypeTracked ==
  ASSUME TypeOK, NEW r \in Run, NEW t \in Task, Tracked(r, t)
  PROVE  /\ status' \in [Task -> Status]
         /\ stale' \in [Task -> BOOLEAN]
         /\ exec' \in [Run -> Task \union {None}]
BY DEF TypeOK, Tracked, BeginTask, SkipTask, Status

LEMMA TypeAdvance ==
  ASSUME TypeOK, NEW r \in Run, todo[r] # <<>>, Advance(r)
  PROVE  todo' \in [Run -> Seq(Stage)]
<1>1. todo[r] \in Seq(Stage)
  BY DEF TypeOK
<1>2. Tail(todo[r]) \in Seq(Stage)
  BY <1>1
<1> QED BY <1>2 DEF TypeOK, Advance

LEMMA TypeNext == TypeOK /\ [Next]_vars => TypeOK'
<1> SUFFICES ASSUME TypeOK, [Next]_vars PROVE TypeOK'
  OBVIOUS
<1> USE DEF At, Idle
<1>1. ASSUME NEW r \in Run, NEW t \in Task, CallMaintenance(r, t)
      PROVE  TypeOK'
  BY <1>1, TypeTracked DEF CallMaintenance, Tracked, TypeOK
<1>2. ASSUME NEW r \in Run,
             CallImport(r) \/ CallRecovery(r) \/ CallSync(r) \/ CallStartup(r)
      PROVE  TypeOK'
  <2>1. /\ <<"importGate">> \in Seq(Stage)
        /\ <<"recoveryGate">> \in Seq(Stage)
        /\ <<"syncGate">> \in Seq(Stage)
        /\ <<"reconcile", "importGate", "startupInterrupted">> \in Seq(Stage)
    BY DEF Stage
  <2> QED BY <1>2, <2>1 DEF CallImport, CallRecovery, CallSync, CallStartup, TypeOK
<1>3. ASSUME NEW r \in Run, CallInterrupted(r)
      PROVE  TypeOK'
  <2>1. "interrupted" \in Task
    BY DEF Task
  <2> QED BY <1>3, <2>1, TypeTracked DEF CallInterrupted, Tracked, TypeOK
<1>4. ASSUME NEW r \in Run, CallFullSync(r) \/ PassSyncGate(r)
      PROVE  TypeOK'
  <2>1. "sync" \in Task
    BY DEF Task
  <2>2. /\ <<"release">> \in Seq(Stage)
        /\ <<"interrupted", "importGate", "release">> \in Seq(Stage)
    BY DEF Stage
  <2> QED BY <1>4, <2>1, <2>2, TypeTracked DEF CallFullSync, PassSyncGate, TypeOK
<1>5. ASSUME NEW r \in Run, Defer(r) \/ Release(r)
      PROVE  TypeOK'
  BY <1>5, TypeAdvance DEF Defer, Release, TypeOK
<1>6. ASSUME NEW r \in Run, NEW s, NEW t \in Task, Checked(r, s, t)
      PROVE  TypeOK'
  <2>1. Tracked(r, t) \/ SkipTask
    BY <1>6 DEF Checked
  <2>2. /\ status' \in [Task -> Status]
        /\ stale' \in [Task -> BOOLEAN]
        /\ exec' \in [Run -> Task \union {None}]
    BY <2>1, TypeTracked DEF SkipTask, TypeOK
  <2> QED BY <1>6, <2>2, TypeAdvance DEF Checked, TypeOK
<1>7. ASSUME NEW r \in Run,
             PassImportGate(r) \/ PassRecoveryGate(r) \/ CycleInterrupted(r)
      PROVE  TypeOK'
  BY <1>6, <1>7 DEF PassImportGate, PassRecoveryGate, CycleInterrupted, Task
<1>8. ASSUME NEW r \in Run, StartupReconcile(r) \/ StartupInterrupted(r)
      PROVE  TypeOK'
  <2>1. "reconcile" \in Task /\ "interrupted" \in Task
    BY DEF Task
  <2> QED BY <1>8, <2>1, TypeTracked, TypeAdvance
         DEF StartupReconcile, StartupInterrupted, TypeOK
<1>9. ASSUME NEW r \in Run, NEW outcome \in {"success", "failed"}, Finish(r, outcome)
      PROVE  TypeOK'
  <2>1. exec[r] \in Task
    BY <1>9 DEF Finish, TypeOK
  <2>2. AfterFailure(r) \in Seq(Stage)
    <3>1. <<>> \in Seq(Stage)
      OBVIOUS
    <3>2. <<"release">> \in Seq(Stage)
      BY DEF Stage
    <3>3. todo[r] \in Seq(Stage)
      BY DEF TypeOK
    <3> QED BY <3>1, <3>2, <3>3 DEF AfterFailure
  <2> QED BY <1>9, <2>1, <2>2 DEF Finish, TypeOK, Status
<1>10. ASSUME NEW t \in Task, HalfHour(t)
       PROVE  TypeOK'
  BY <1>10 DEF HalfHour, TypeOK
<1>11. CASE UNCHANGED vars
  BY <1>11 DEF vars, TypeOK
<1> QED BY <1>1, <1>2, <1>3, <1>4, <1>5, <1>7, <1>8, <1>9, <1>10, <1>11
        DEF Next, Call, Step

\* The registry, the flags and the runs keep their types, whatever the calls
\* and whatever outlasts its limit (taskRegistry.ts, scheduler.ts).
THEOREM TypeCorrect == Spec => []TypeOK
<1>1. Init => TypeOK
  BY TypeInit
<1>2. TypeOK /\ [Next]_vars => TypeOK'
  BY TypeNext
<1> QED BY <1>1, <1>2, PTL DEF Spec

-----------------------------------------------------------------------------
\* No task that ends in time is ever stale.
NeverStale == \A t \in Brief : ~stale[t]

\* The inductive invariant: an exclusion is decided by looking at the status
\* words, so they must be known to mirror the executions.
Exclusion == TypeOK /\ NeverStale /\ RegistryHonest /\ NoDuplicateExecution /\ MutualExclusion

\* The tasks that nothing is promised about: none is in a pair of Excludes.
LEMMA ExcludesPairs ==
  ASSUME NEW t \in Task, NEW u \in Task, <<t, u>> \in Excludes
  PROVE  /\ u \in ConflictsOf(t) /\ t \in ConflictsOf(u) /\ t # u
         /\ t \notin {"sync", "reconcile", "interrupted"}
         /\ u \notin {"sync", "reconcile", "interrupted"}
BY DEF Excludes, ConflictsOf, Task

\* A pair of Excludes holds two tasks.
LEMMA ExcludesTasks ==
  ASSUME NEW t, NEW u, <<t, u>> \in Excludes
  PROVE  t \in Task /\ u \in Task
BY DEF Excludes

\* The three tasks that some run starts without looking for a conflict.
Unchecked == {"sync", "reconcile", "interrupted"}

\* Starting a task keeps the exclusions if its conflicts were looked for.
LEMMA BeginKeeps ==
  ASSUME Exclusion, NEW r \in Run, NEW t \in Task, exec[r] = None,
         BeginTask(r, t), Clear(t) \/ t \in Unchecked
  PROVE  NeverStale' /\ RegistryHonest' /\ NoDuplicateExecution' /\ MutualExclusion'
<1> USE DEF Exclusion
<1>0. None \notin Task
  BY DEF None, Task
<1>b. Brief \subseteq Task
  BY DEF Brief
<1>1. /\ status' = [status EXCEPT ![t] = "running"]
      /\ stale' = [stale EXCEPT ![t] = FALSE]
      /\ exec' = [exec EXCEPT ![r] = t]
  BY DEF BeginTask
<1>2. t \in Brief => \A s \in Run : exec[s] # t
  BY DEF BeginTask, Startable, NeverStale, RegistryHonest
<1>3. NeverStale'
  BY <1>b, <1>1 DEF NeverStale, TypeOK
<1>4. RegistryHonest'
  BY <1>0, <1>b, <1>1, <1>2 DEF RegistryHonest, Running, TypeOK
<1>5. NoDuplicateExecution'
  BY <1>b, <1>1, <1>2 DEF NoDuplicateExecution, TypeOK
<1>6. MutualExclusion'
  <2> SUFFICES ASSUME NEW p \in Run, NEW q \in Run, <<exec'[p], exec'[q]>> \in Excludes,
                      exec'[p] \in Brief, exec'[q] \in Brief
               PROVE  FALSE
    BY DEF MutualExclusion
  <2>1. /\ exec'[p] \in Task /\ exec'[q] \in Task /\ exec'[p] # exec'[q]
        /\ exec'[p] \in ConflictsOf(exec'[q]) /\ exec'[q] \in ConflictsOf(exec'[p])
        /\ exec'[p] \notin Unchecked /\ exec'[q] \notin Unchecked
    BY ExcludesTasks, ExcludesPairs DEF Unchecked
  <2>2. CASE p = r /\ q # r
    <3>1. exec'[p] = t /\ exec'[q] = exec[q]
      BY <1>1, <2>2 DEF TypeOK
    <3>2. Running(exec[q])
      BY <3>1, <2>1 DEF RegistryHonest
    <3> QED BY <2>1, <3>1, <3>2 DEF Clear
  <2>3. CASE q = r /\ p # r
    <3>1. exec'[q] = t /\ exec'[p] = exec[p]
      BY <1>1, <2>3 DEF TypeOK
    <3>2. Running(exec[p])
      BY <3>1, <2>1 DEF RegistryHonest
    <3> QED BY <2>1, <3>1, <3>2 DEF Clear
  <2>4. CASE p # r /\ q # r
    BY <1>1, <2>4 DEF MutualExclusion, TypeOK
  <2>5. CASE p = r /\ q = r
    BY <2>1, <2>5
  <2> QED BY <2>2, <2>3, <2>4, <2>5
<1> QED BY <1>3, <1>4, <1>5, <1>6

LEMMA TrackedKeeps ==
  ASSUME Exclusion, NEW r \in Run, NEW t \in Task, exec[r] = None,
         Tracked(r, t) \/ SkipTask, Clear(t) \/ t \in Unchecked \/ SkipTask
  PROVE  NeverStale' /\ RegistryHonest' /\ NoDuplicateExecution' /\ MutualExclusion'
<1>1. CASE SkipTask
  BY <1>1 DEF Exclusion, SkipTask, NeverStale, RegistryHonest, Running,
             NoDuplicateExecution, MutualExclusion
<1>2. CASE BeginTask(r, t) /\ (Clear(t) \/ t \in Unchecked)
  BY <1>2, BeginKeeps
<1> QED BY <1>1, <1>2 DEF Tracked

\* The end of an execution frees its status word.
LEMMA FinishKeeps ==
  ASSUME Exclusion, NEW r \in Run, NEW outcome, Finish(r, outcome)
  PROVE  NeverStale' /\ RegistryHonest' /\ NoDuplicateExecution' /\ MutualExclusion'
<1> USE DEF Exclusion
<1>0. None \notin Task
  BY DEF None, Task
<1>b. Brief \subseteq Task
  BY DEF Brief
<1>1. /\ exec[r] \in Task /\ stale' = stale
      /\ status' = [status EXCEPT ![exec[r]] = "idle"]
      /\ exec' = [exec EXCEPT ![r] = None]
  BY DEF Finish, TypeOK
<1>2. exec[r] \in Brief => \A s \in Run : s # r => exec[s] # exec[r]
  BY DEF NoDuplicateExecution
<1>3. RegistryHonest'
  <2>1. \A s \in Run : s # r => exec'[s] = exec[s]
    BY <1>1 DEF TypeOK
  <2>2. exec'[r] = None
    BY <1>1 DEF TypeOK
  <2> SUFFICES ASSUME NEW t \in Brief PROVE Running(t)' <=> \E s \in Run : exec'[s] = t
    BY DEF RegistryHonest
  <2>3. CASE t = exec[r]
    BY <1>0, <1>b, <1>1, <1>2, <2>1, <2>2, <2>3 DEF Running, TypeOK
  <2>4. CASE t # exec[r]
    <3>1. Running(t)' <=> Running(t)
      BY <1>b, <1>1, <2>4 DEF Running, TypeOK
    <3> QED BY <1>0, <1>b, <2>1, <2>2, <2>4, <3>1 DEF RegistryHonest
  <2> QED BY <2>3, <2>4
<1>4. NoDuplicateExecution'
  BY <1>0, <1>b, <1>1 DEF NoDuplicateExecution, TypeOK
<1>5. MutualExclusion'
  BY <1>0, <1>b, <1>1 DEF MutualExclusion, TypeOK
<1> QED BY <1>1, <1>3, <1>4, <1>5 DEF NeverStale

LEMMA ExclusionNext == Exclusion /\ [Next]_vars => Exclusion'
<1> SUFFICES ASSUME Exclusion, [Next]_vars PROVE Exclusion'
  OBVIOUS
<1>0. TypeOK'
  BY TypeNext DEF Exclusion
<1> DEFINE Kept == NeverStale' /\ RegistryHonest' /\ NoDuplicateExecution' /\ MutualExclusion'
<1>1. SUFFICES Kept
  BY <1>0, <1>1 DEF Exclusion
<1>2. ASSUME UNCHANGED <<status, stale, exec>> PROVE Kept
  BY <1>2 DEF Exclusion, NeverStale, RegistryHonest, Running, NoDuplicateExecution, MutualExclusion
<1>3. ASSUME NEW r \in Run, NEW t \in Task, CallMaintenance(r, t) PROVE Kept
  BY <1>3, BeginKeeps DEF CallMaintenance, Idle
<1>4. ASSUME NEW r \in Run, CallInterrupted(r) PROVE Kept
  BY <1>4, BeginKeeps DEF CallInterrupted, Idle, Task
<1>5. ASSUME NEW r \in Run, CallFullSync(r) \/ PassSyncGate(r) PROVE Kept
  BY <1>5, TrackedKeeps DEF CallFullSync, PassSyncGate, Idle, At, Task, Unchecked
<1>6. ASSUME NEW r \in Run, NEW s, NEW t \in Task, Checked(r, s, t) PROVE Kept
  BY <1>6, TrackedKeeps DEF Checked, At
<1>7. ASSUME NEW r \in Run, PassImportGate(r) \/ PassRecoveryGate(r) \/ CycleInterrupted(r) PROVE Kept
  BY <1>6, <1>7 DEF PassImportGate, PassRecoveryGate, CycleInterrupted, Task
<1>8. ASSUME NEW r \in Run, StartupReconcile(r) \/ StartupInterrupted(r) PROVE Kept
  BY <1>8, TrackedKeeps DEF StartupReconcile, StartupInterrupted, At, Task, Unchecked
<1>9. ASSUME NEW r \in Run, NEW outcome, Finish(r, outcome) PROVE Kept
  BY <1>9, FinishKeeps
<1>10. ASSUME NEW t \in Task, HalfHour(t) PROVE Kept
  BY <1>10 DEF HalfHour, Brief, Exclusion, TypeOK, NeverStale, RegistryHonest, Running,
              NoDuplicateExecution, MutualExclusion
<1>11. ASSUME NEW r \in Run, CallImport(r) \/ CallRecovery(r) \/ CallSync(r) \/ CallStartup(r)
                             \/ Defer(r) \/ Release(r)
       PROVE  Kept
  BY <1>2, <1>11 DEF CallImport, CallRecovery, CallSync, CallStartup, Defer, Release
<1>12. CASE UNCHANGED vars
  BY <1>2, <1>12 DEF vars
<1> HIDE DEF Kept
<1> QED BY <1>3, <1>4, <1>5, <1>7, <1>8, <1>9, <1>10, <1>11, <1>12 DEF Next, Call, Step

LEMMA ExclusionInit == Init => Exclusion
<1> SUFFICES ASSUME Init PROVE Exclusion
  OBVIOUS
<1>1. TypeOK
  BY TypeInit
<1>2. None \notin Task /\ Brief \subseteq Task
  BY DEF None, Task, Brief
<1>3. NeverStale /\ RegistryHonest /\ NoDuplicateExecution
  BY <1>2 DEF Init, NeverStale, RegistryHonest, Running, NoDuplicateExecution
<1>4. MutualExclusion
  BY <1>2 DEF Init, MutualExclusion
<1> QED BY <1>1, <1>3, <1>4 DEF Exclusion

\* A task that ends within the limit is never executed twice at a time, however
\* many runs race past the flags and gates of scheduler.ts.
THEOREM NoDuplicateExecutionHolds == Spec => []NoDuplicateExecution
<1>1. Exclusion => NoDuplicateExecution
  BY DEF Exclusion
<1> QED BY <1>1, ExclusionInit, ExclusionNext, PTL DEF Spec

\* ... the status words a conflict check reads are true ...
THEOREM RegistryHonestHolds == Spec => []RegistryHonest
<1>1. Exclusion => RegistryHonest
  BY DEF Exclusion
<1> QED BY <1>1, ExclusionInit, ExclusionNext, PTL DEF Spec

\* ... and two tasks that look for each other are never executed together.
THEOREM MutualExclusionHolds == Spec => []MutualExclusion
<1>1. Exclusion => MutualExclusion
  BY DEF Exclusion
<1> QED BY <1>1, ExclusionInit, ExclusionNext, PTL DEF Spec

-----------------------------------------------------------------------------
\* The refinement of TaskExclusion: a start is a Begin, an end an End, and
\* every other action leaves the executing tasks as they are.
Executing == {exec[r] : r \in {q \in Run : exec[q] \in Brief}}

LEMMA BeginRefines ==
  ASSUME Exclusion, NEW r \in Run, NEW t \in Task, exec[r] = None,
         BeginTask(r, t), MutualExclusion'
  PROVE  (t \in Brief /\ Promise!Begin(t)) \/ Executing' = Executing
<1> USE DEF Exclusion
<1>0. None \notin Brief
  BY DEF None, Task, Brief
<1>1. exec' = [exec EXCEPT ![r] = t] /\ (t \in Brief => \A s \in Run : exec[s] # t)
  BY DEF BeginTask, Startable, NeverStale, RegistryHonest
<1>2. exec'[r] = t /\ \A s \in Run : s # r => exec'[s] = exec[s]
  BY <1>1 DEF TypeOK
<1>3. CASE t \in Brief
  <2>1. t \notin Executing
    BY <1>1, <1>3 DEF Executing
  <2>2. \A u \in Executing : <<t, u>> \notin Excludes
    <3> SUFFICES ASSUME NEW s \in Run, exec[s] \in Brief, <<t, exec[s]>> \in Excludes
                 PROVE  FALSE
      BY DEF Executing
    <3>1. s # r /\ exec'[r] = t /\ exec'[s] = exec[s]
      BY <1>0, <1>2
    <3> QED BY <1>3, <3>1 DEF MutualExclusion
  <2>3. Executing' = Executing \union {t}
    BY <1>0, <1>2, <1>3 DEF Executing
  <2> QED BY <1>3, <2>1, <2>2, <2>3 DEF Promise!Begin, Executing
<1>4. CASE t \notin Brief
  BY <1>0, <1>2, <1>4 DEF Executing
<1> QED BY <1>3, <1>4

LEMMA FinishRefines ==
  ASSUME Exclusion, NEW r \in Run, NEW outcome, Finish(r, outcome)
  PROVE  (exec[r] \in Brief /\ Promise!End(exec[r])) \/ Executing' = Executing
<1> USE DEF Exclusion
<1>0. None \notin Brief
  BY DEF None, Task, Brief
<1>1. exec'[r] = None /\ \A s \in Run : s # r => exec'[s] = exec[s]
  BY DEF Finish, TypeOK
<1>2. CASE exec[r] \in Brief
  <2>1. exec[r] \in Executing
    BY <1>2 DEF Executing
  <2>2. \A s \in Run : s # r => exec[s] # exec[r]
    BY <1>2 DEF NoDuplicateExecution
  <2>3. Executing' = Executing \ {exec[r]}
    BY <1>0, <1>1, <2>2 DEF Executing
  <2> QED BY <1>2, <2>1, <2>3 DEF Promise!End, Executing
<1>3. CASE exec[r] \notin Brief
  BY <1>0, <1>1, <1>3 DEF Executing
<1> QED BY <1>2, <1>3

\* Every step of the scheduler is a step of the promise or leaves it alone.
LEMMA StepRefines == Exclusion /\ [Next]_vars => [Promise!Next]_Executing
<1> SUFFICES ASSUME Exclusion, [Next]_vars PROVE [Promise!Next]_Executing
  OBVIOUS
<1>0. MutualExclusion'
  BY ExclusionNext DEF Exclusion
<1> DEFINE Goal == (\E t \in Brief : Promise!Begin(t) \/ Promise!End(t)) \/ Executing' = Executing
<1>1. SUFFICES Goal
  BY <1>1 DEF Promise!Next
<1>2. ASSUME exec' = exec PROVE Goal
  BY <1>2 DEF Executing
<1>3. ASSUME NEW r \in Run, NEW t \in Task, exec[r] = None, Tracked(r, t) \/ SkipTask
      PROVE  Goal
  BY <1>0, <1>2, <1>3, BeginRefines DEF Tracked, SkipTask
<1>4. ASSUME NEW r \in Run, NEW outcome, Finish(r, outcome)
      PROVE  Goal
  <2>1. (exec[r] \in Brief /\ Promise!End(exec[r])) \/ Executing' = Executing
    BY <1>4, FinishRefines
  <2>2. CASE exec[r] \in Brief /\ Promise!End(exec[r])
    <3> HIDE DEF Goal
    <3>1. \E t \in Brief : Promise!End(t)
      BY <2>2 DEF Promise!End
    <3> QED BY <3>1 DEF Goal
  <2> QED BY <2>1, <2>2
<1> HIDE DEF Goal
<1>5. ASSUME NEW r \in Run, NEW t \in Task, CallMaintenance(r, t)
      PROVE  Goal
  BY <1>3, <1>5 DEF CallMaintenance, Idle, Tracked
<1>6. ASSUME NEW r \in Run, CallInterrupted(r)
      PROVE  Goal
  BY <1>3, <1>6 DEF CallInterrupted, Idle, Tracked, Task
<1>7. ASSUME NEW r \in Run, CallFullSync(r) \/ PassSyncGate(r)
      PROVE  Goal
  BY <1>3, <1>7 DEF CallFullSync, PassSyncGate, Idle, At, Task
<1>8. ASSUME NEW r \in Run, NEW s, NEW t \in Task, Checked(r, s, t)
      PROVE  Goal
  BY <1>3, <1>8 DEF Checked, At
<1>9. ASSUME NEW r \in Run, PassImportGate(r) \/ PassRecoveryGate(r) \/ CycleInterrupted(r)
      PROVE  Goal
  BY <1>8, <1>9 DEF PassImportGate, PassRecoveryGate, CycleInterrupted, Task
<1>10. ASSUME NEW r \in Run, StartupReconcile(r) \/ StartupInterrupted(r)
       PROVE  Goal
  BY <1>3, <1>10 DEF StartupReconcile, StartupInterrupted, At, Task
<1>11. ASSUME NEW r \in Run, CallImport(r) \/ CallRecovery(r) \/ CallSync(r) \/ CallStartup(r)
                             \/ Defer(r) \/ Release(r)
       PROVE  Goal
  BY <1>2, <1>11 DEF CallImport, CallRecovery, CallSync, CallStartup, Defer, Release
<1>12. ASSUME (\E t \in Task : HalfHour(t)) \/ UNCHANGED vars
       PROVE  Goal
  BY <1>2, <1>12 DEF HalfHour, vars
<1> QED BY <1>4, <1>5, <1>6, <1>7, <1>9, <1>10, <1>11, <1>12 DEF Next, Call, Step

\* The scheduler keeps the promise of TaskExclusion.tla to the tasks that end
\* within the limit.
THEOREM KeepsPromiseHolds == Spec => KeepsPromise
<1>1. Init => Promise!Init
  <2>1. None \notin Brief
    BY DEF None, Task, Brief
  <2> QED BY <2>1 DEF Init, Promise!Init
<1>2. Exclusion /\ [Next]_vars => [Promise!Next]_Executing
  BY StepRefines
<1>3. Spec => []Exclusion
  BY ExclusionInit, ExclusionNext, PTL DEF Spec
<1> QED BY <1>1, <1>2, <1>3, PTL DEF Spec, KeepsPromise, Promise!Spec, Executing
=============================================================================
