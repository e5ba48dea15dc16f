------------------------- MODULE MCCommunityCooldown -------------------------
(* An instance of CommunityCooldown for TLC in which two batches are kept. *)
EXTENDS CommunityCooldown
================================================================================
