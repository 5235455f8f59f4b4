--------------------------- MODULE MCIngestCache ---------------------------
(* Instances of IngestCache for TLC. *)
EXTENDS IngestCache, TLC
=============================================================================
