------------------------- MODULE MCJetStreamAppend -------------------------
(* Instances of JetStreamAppend for TLC. *)
EXTENDS JetStreamAppend, TLC

CallSymmetry == Permutations(Calls)
=============================================================================
