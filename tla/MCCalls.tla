------------------------------ MODULE MCCalls -------------------------------
(* Model-checking instances of Calls. *)
EXTENDS Calls, TLC

\* The threads are interchangeable (safety runs only).
Symmetry == Permutations(Threads)
=============================================================================
