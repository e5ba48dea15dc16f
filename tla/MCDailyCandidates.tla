-------------------------- MODULE MCDailyCandidates --------------------------
(* A small instance of DailyCandidates for TLC: Steam lists every game. *)
EXTENDS DailyCandidates

MCListing == {App}
================================================================================
