---------------------------- MODULE MCSearching ----------------------------
(* Searching for TLC: words are interchangeable, ids are not (sortByFrequency *)
(* compares them).                                                          *)
EXTENDS Searching

Symmetry == Permutations(Vocabulary)
=============================================================================
