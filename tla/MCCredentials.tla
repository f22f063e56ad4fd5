--------------------------- MODULE MCCredentials ----------------------------
(* Model-checking instance of Credentials; threads are interchangeable. *)
EXTENDS Credentials, TLC

Symmetry == Permutations(Threads)
=============================================================================
