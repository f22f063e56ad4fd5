---------------------------- MODULE MCExecution -----------------------------
(* Model-checking instances of Execution. *)
EXTENDS Execution
=============================================================================
