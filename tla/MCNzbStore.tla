----------------------------- MODULE MCNzbStore -----------------------------
(* Instances of NzbStore for TLC. *)
EXTENDS NzbStore, TLC
CONSTANTS a1, a2, a3, server, worker

\* Two calls of the server and one of the worker.
TwoHosts == (a1 :> server) @@ (a2 :> server) @@ (a3 :> worker)
Calls == {a1, a2, a3}
=============================================================================
