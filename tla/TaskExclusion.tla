--------------------------- MODULE TaskExclusion ---------------------------
(***************************************************************************)
(* What the task registry promises to the tasks it starts: a task is never *)
(* executed twice at a time, and two tasks that exclude each other are     *)
(* never executed together.  How the promise is kept (status words, gates  *)
(* that await, flags, conflict lists) is TaskScheduler.tla.                *)
(***************************************************************************)
CONSTANTS Task,      \* the tasks
          Excludes   \* pairs of tasks that must not overlap

VARIABLE executing   \* the tasks whose action is in progress

Init == executing = {}

\* A task starts when nothing it excludes is in progress.
Begin(t) ==
  /\ t \notin executing
  /\ \A u \in executing : <<t, u>> \notin Excludes
  /\ executing' = executing \union {t}

End(t) ==
  /\ t \in executing
  /\ executing' = executing \ {t}

Next == \E t \in Task : Begin(t) \/ End(t)

Spec == Init /\ [][Next]_executing
=============================================================================
