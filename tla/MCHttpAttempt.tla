---------------------------- MODULE MCHttpAttempt ----------------------------
(* Instances of HttpAttempt for model checking. *)
EXTENDS HttpAttempt, TLC

CONSTANTS r1, r2

Symmetry == Permutations(Client)
=============================================================================
