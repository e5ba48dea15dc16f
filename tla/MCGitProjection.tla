---------------------------- MODULE MCGitProjection ----------------------------
(* Small instances of GitProjection for TLC: a tree is a set of records. *)
EXTENDS GitProjection, TLC

CONSTANTS p1, p2, r1, a, b

Trees == SUBSET {a, b}

(* o1 and o2 add a record each; they are never undone. *)
Growing(o, t) == IF o = "o1" THEN t \cup {a} ELSE t \cup {b}

(* o2 removes what o1 and o3 add. *)
Undoing(o, t) == IF o = "o2" THEN t \ {a} ELSE t \cup {a}
================================================================================
