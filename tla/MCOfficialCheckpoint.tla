------------------------- MODULE MCOfficialCheckpoint -------------------------
(* Small instances of OfficialCheckpoint for TLC. *)
EXTENDS OfficialCheckpoint

CONSTANTS g1, g2, low, high, higher

Symmetry == Permutations({g1, g2})
================================================================================
