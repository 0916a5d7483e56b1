--------------------------- MODULE MCRefreshHandler ---------------------------
(* RefreshHandler with requests, workers and keys interchangeable. *)
EXTENDS RefreshHandler, TLC

Symmetry == Permutations(Request) \cup Permutations(Worker) \cup Permutations(Key)
=============================================================================
