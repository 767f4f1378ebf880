---------------------------- MODULE MCAdmission ----------------------------
(* Admission for TLC: requests are interchangeable.                         *)
EXTENDS Admission, TLC

Symmetry == Permutations(Requests)
=============================================================================
