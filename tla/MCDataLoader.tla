---------------------------- MODULE MCDataLoader ----------------------------
(* A small instance of DataLoader: all requests of one key. *)
EXTENDS DataLoader

CONSTANTS r1, r2, k1

OneKey == [r \in Request |-> k1]
=============================================================================
