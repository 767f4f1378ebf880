---------------------------- MODULE MCIndexSync ----------------------------
(* IndexSync for TLC: the ids of the rows are interchangeable.              *)
EXTENDS IndexSync, TLC

Symmetry == Permutations(Keys)
=============================================================================
