------------------------- MODULE MCCallGraphCache -------------------------
(* Instances of CallGraphCache for TLC. *)
EXTENDS CallGraphCache, TLC
=============================================================================
