----------------------------- MODULE MCSagaIndex -----------------------------
(* Instances of SagaIndex for TLC. *)
EXTENDS SagaIndex
=============================================================================
