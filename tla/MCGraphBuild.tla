---------------------------- MODULE MCGraphBuild ----------------------------
(* Instances of GraphBuild for TLC. *)
EXTENDS GraphBuild, TLC
=============================================================================
