---------------------------- MODULE MCPrimaryStore ----------------------------
(* Small instances of PrimaryStore for TLC. *)
EXTENDS PrimaryStoreInv, TLC

CONSTANTS p1, p2, g1, k1, q1, r1, r2, f1, f2, o1, o2, o3, a, b

(* o1 and o2 write different files, o3 undoes o1. *)
MCChangeOf ==
  [o \in Op |-> CASE o = o1 -> [path |-> f1, content |-> b]
                  [] o = o2 -> [path |-> f2, content |-> a]
                  [] OTHER  -> [path |-> f1, content |-> a]]
MCInitialManifest == [p \in Path |-> IF p = f1 THEN a ELSE Absent]
MCTwoFiles == [p \in Path |-> IF p = f1 THEN a ELSE b]

(* Git revisions are alike. *)
Symmetry == Permutations({r1, r2})
================================================================================
