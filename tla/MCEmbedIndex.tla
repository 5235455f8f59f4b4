---------------------------- MODULE MCEmbedIndex ----------------------------
(* Instances of EmbedIndex for TLC: how symbols are spread over files. *)
EXTENDS EmbedIndexInv, TLC
CONSTANTS a, b, f, g

OneSym == a :> f
OneEach == a :> f @@ b :> g

\* For safety properties: queries are interchangeable, and so are the two symbols
\* of OneEach together with their files.
Swap == a :> b @@ b :> a @@ f :> g @@ g :> f
Symmetries == Permutations(Lazy) \cup {p @@ Swap : p \in Permutations(Lazy)}
=============================================================================
