------------------------ MODULE MCTransactionalDelete ------------------------
(* TransactionalDelete with the threads and the keys interchangeable. *)
EXTENDS TransactionalDelete, TLC

Symmetry == Permutations(Thread) \cup Permutations(Key)
=============================================================================
