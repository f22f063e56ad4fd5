---------------------------- MODULE MCConnection ----------------------------
(* Model-checking instances of Connection. *)
EXTENDS Connection
=============================================================================
