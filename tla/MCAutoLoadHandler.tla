-------------------------- MODULE MCAutoLoadHandler --------------------------
(* A small instance of AutoLoadHandler. *)
EXTENDS AutoLoadHandler

CONSTANTS r1, r2, w1, k1, k2, k3, o1, o2
=============================================================================
