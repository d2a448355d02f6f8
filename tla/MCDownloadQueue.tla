-------------------------- MODULE MCDownloadQueue --------------------------
(* Instances of DownloadQueue for TLC. *)
EXTENDS DownloadQueue, TLC

Workers == Permutations(Worker)
Symmetric == Permutations(Worker) \union Permutations(Handler) \union Permutations(Download)
=============================================================================
