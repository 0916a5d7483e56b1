---------------------------- MODULE MCAdminPage ----------------------------
(* One key, kept without a field and with an empty one. *)
EXTENDS AdminPage

CONSTANTS k1

Rows == [key : {k1}, hfield : {NoField, EmptyField}]
=============================================================================
