---------------------------- MODULE MCComboCache ----------------------------
(* Two servers. *)
EXTENDS ComboCache

CONSTANTS s1, s2, t1, t2, t3, t4

Home == [t \in Thread |-> IF t \in {t1, t3} THEN s1 ELSE s2]
=============================================================================
