--------------------------- MODULE MCBatchProgress ---------------------------
(* Instances of BatchProgress for TLC. *)
EXTENDS BatchProgress
=============================================================================
