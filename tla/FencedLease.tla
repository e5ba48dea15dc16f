------------------------------ MODULE FencedLease ------------------------------
(***************************************************************************)
(* What the storage lease promises to the writers of the document store:    *)
(* tenures that never overlap, each with a number of its own, and writes    *)
(* that are accepted in the tenure they belong to and in no later one.      *)
(***************************************************************************)
EXTENDS Naturals

VARIABLES
  tenures,  \* how many there have been
  holder,   \* the tenure that lasts, 0 when none does
  writer    \* the tenure of the last accepted write

vars == <<tenures, holder, writer>>

Init == tenures = 0 /\ holder = 0 /\ writer = 0

Take == holder = 0 /\ tenures' = tenures + 1 /\ holder' = tenures' /\ UNCHANGED writer
End == holder' = 0 /\ UNCHANGED <<tenures, writer>>
Write == holder # 0 /\ writer' = holder /\ UNCHANGED <<tenures, holder>>

Next == Take \/ End \/ Write
Spec == Init /\ [][Next]_vars
================================================================================
