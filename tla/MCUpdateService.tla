-------------------------- MODULE MCUpdateService --------------------------
(* UpdateService for TLC: calls and workers are interchangeable.            *)
EXTENDS UpdateService, TLC

Symmetry == Permutations(Calls) \cup Permutations(Workers)
=============================================================================
