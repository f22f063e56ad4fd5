------------------------------ MODULE MCQueue -------------------------------
(* Model-checking instances of Queue. *)
EXTENDS Queue
=============================================================================
