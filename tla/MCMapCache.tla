----------------------------- MODULE MCMapCache -----------------------------
(* Small instances of MapCache; symmetric in requests, hash objects and data. *)
EXTENDS MapCache, TLC

Symmetry == Permutations(Request) \cup Permutations(Hash) \cup Permutations(Value)

\* The contents of a hash object that nobody holds do not matter.
View == <<cache, [h \in InUse \ {None} |-> hash[h]], cacheChanged, running, file,
          requestVars, saver, saveVars, cleanVars, missed>>
=============================================================================
