---------------------------- MODULE VersionedSource ----------------------------
(***************************************************************************)
(* What the primary document store promises about ONE source namespace,    *)
(* with leases, staging, garbage collection and retries left out.          *)
(*                                                                         *)
(* A source is an append-only history of complete file trees.  Publishing  *)
(* an operation either appends exactly one tree, the previous one with     *)
(* the operation's own change and nothing else, or, when the change is     *)
(* already there, records the operation at the current generation.  Each   *)
(* operation takes effect at most once however often it is submitted.      *)
(***************************************************************************)
EXTENDS Naturals, Sequences

CONSTANTS Op,               \* operation identifiers
          InitialManifest,  \* the tree the source was activated with
          Changed(_, _)     \* Changed(op, manifest): the tree after op

VARIABLES history,          \* history[g] is the tree of generation g
          receipt           \* receipt[op]: its generation, 0 while unpublished

absVars == <<history, receipt>>

Current == history[Len(history)]

AInit ==
  /\ history = <<InitialManifest>>
  /\ receipt = [o \in Op |-> 0]

(* The operation becomes visible as the next generation. *)
Effect(o) ==
  /\ receipt[o] = 0
  /\ Changed(o, Current) # Current
  /\ history' = Append(history, Changed(o, Current))
  /\ receipt' = [receipt EXCEPT ![o] = Len(history) + 1]

(* The operation's change is already in the current tree. *)
NoEffect(o) ==
  /\ receipt[o] = 0
  /\ Changed(o, Current) = Current
  /\ receipt' = [receipt EXCEPT ![o] = Len(history)]
  /\ UNCHANGED history

ANext == \E o \in Op : Effect(o) \/ NoEffect(o)

ASpec == AInit /\ [][ANext]_absVars
================================================================================
