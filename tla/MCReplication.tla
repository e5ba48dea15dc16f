----------------------------- MODULE MCReplication -----------------------------
(* Small instances of Replication for TLC. *)
EXTENDS Replication, TLC

CONSTANTS s1, s2, p1, p2, m1, m2

Symmetry == Permutations({p1, p2})

(* Pins and a backlog of two sources are checked apart: where something is
   pinned only one source has published.  Only the primary's clients are held
   back, never a pass. *)
OneConcern ==
  \A s \in Source \ {s1} :
    /\ pins' # {} => Len(history'[s]) = 1
    /\ history'[s] # history[s] =>
         pins \cup rpins = {} /\ \A p \in Pass : my[p].wasPinned = {}
================================================================================
