---------------------------- MODULE MCTypedLoad ----------------------------
(* Instances of TypedLoad for TLC. *)
EXTENDS TypedLoadInv, TLC
CONSTANTS k1, k2

\* One module that takes the whole budget and more, one that is small.
BigAndSmall == k1 :> 5 @@ k2 :> 1
Symmetries == Permutations(Callers) \cup Permutations(Loads)
=============================================================================
