----------------------------- MODULE MCCloneDir -----------------------------
(* Instances of CloneDir for TLC. *)
EXTENDS CloneDir, TLC

Symmetries == Permutations(Callers)
=============================================================================
