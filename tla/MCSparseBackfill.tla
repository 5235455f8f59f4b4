-------------------------- MODULE MCSparseBackfill --------------------------
(* Instances of SparseBackfill for TLC. *)
EXTENDS SparseBackfill, TLC
=============================================================================
