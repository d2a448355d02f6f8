-------------------------- MODULE MCTaskScheduler --------------------------
(* TaskScheduler with three calls in flight: one more than the pair that    *)
(* each exclusion property is about.                                        *)
EXTENDS TaskScheduler

CONSTANTS r1, r2, r3
=============================================================================
