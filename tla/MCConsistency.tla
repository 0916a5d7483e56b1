--------------------------- MODULE MCConsistency ---------------------------
(* A server with all kinds of threads, and another one with a single kind. *)
EXTENDS Consistency

CONSTANTS s1, s2, r1, r2, f1, a1, w1

Home == [t \in Thread |-> IF t = a1 THEN s2 ELSE s1]
=============================================================================
