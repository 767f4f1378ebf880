------------------------------ MODULE MCNorming ------------------------------
(* Norming for TLC: NormSafety.cfg scales the limits of the source down and   *)
(* keeps their order, characters below bytes below the longest text.         *)
EXTENDS Norming
=============================================================================
