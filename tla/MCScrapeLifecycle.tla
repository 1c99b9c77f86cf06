-------------------------- MODULE MCScrapeLifecycle --------------------------
(* Instances of ScrapeLifecycle for TLC. *)
EXTENDS ScrapeLifecycle, TLC

Symmetry == Permutations(Requests) \cup Permutations(Workers)
=============================================================================
