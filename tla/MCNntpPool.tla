---------------------------- MODULE MCNntpPool ----------------------------
(* Instances of NntpPool for TLC: one primary and one backup provider. *)
EXTENDS NntpPool, TLC
LOCAL INSTANCE PoolSlots

CONSTANTS p1, b1, Connections, Complete, Everywhere

Checkers == Permutations(Checker)
PoolOwner == SlotsOf(<<p1, b1>>, [p \in {p1, b1} |-> Connections], N)

\* The backup has every article; the primary has them from Complete on.
PoolHas == [p \in {p1, b1} |-> IF p = b1 THEN 1..Everywhere ELSE Complete..Articles]
=============================================================================
