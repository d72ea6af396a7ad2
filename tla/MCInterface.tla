---------------------------- MODULE MCInterface ----------------------------
(* One browser session and a service with a few evaluations. *)
EXTENDS Interface, TLC

Symmetry == Permutations(Evaluations) \cup Permutations(Contents)
=============================================================================
