--------------------------- MODULE MCRequestGrab ---------------------------
(* Instances of RequestGrab for TLC. *)
EXTENDS RequestGrab, TLC
CONSTANTS r1, r2, c1, c2

Symmetric == Permutations(Release) \union Permutations(Caller)
=============================================================================
