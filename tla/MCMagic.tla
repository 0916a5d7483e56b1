------------------------------ MODULE MCMagic ------------------------------
(* Two methods over the same keys: one returns an array without nulls, the *)
(* other a list with them.                                                  *)
EXTENDS Magic

CONSTANTS k1, k2, t1, t2

Batches == {<< >>, <<k1, k2>>, <<k2, k2>>}

\* At(s, Present(s)) is what a loop over s that passes over nulls collects.
ASSUME LoopAssumption ==
    \A n \in 0 .. 4 : \A s \in [1 .. n -> {k1, k2, Null}] :
        At(s, Present(s)) = SelectSeq(s, LAMBDA d : d # Null)
=============================================================================
