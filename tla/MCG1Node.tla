------------------------------ MODULE MCG1Node ------------------------------
(* Small instances of G1Node for TLC. *)
EXTENDS G1Node
=============================================================================
