------------------------------ MODULE MCPinging ------------------------------
(* Pinging for TLC.                                                         *)
EXTENDS Pinging
=============================================================================
