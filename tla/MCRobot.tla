------------------------------ MODULE MCRobot -------------------------------
(* Model-checking instances of Robot. *)
EXTENDS Robot
=============================================================================
