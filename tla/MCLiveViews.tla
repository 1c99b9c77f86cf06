----------------------------- MODULE MCLiveViews -----------------------------
(* Instances of LiveViews for TLC. *)
EXTENDS LiveViews
=============================================================================
