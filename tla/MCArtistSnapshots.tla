-------------------------- MODULE MCArtistSnapshots --------------------------
(* Instances of ArtistSnapshots for TLC. *)
EXTENDS ArtistSnapshots, TLC

Symmetry == Permutations(Callers) \cup Permutations(Artists) \cup Permutations(Requests)
=============================================================================
