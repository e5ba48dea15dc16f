---------------------------- MODULE PrimaryStoreInv ----------------------------
(***************************************************************************)
(* Why RetainedComplete holds: the inductive invariant of PrimaryStore.    *)
(* The argument is about the tenure of the live lease.  Within one tenure  *)
(* only its holder can add a root or delete a row; a writing tenure        *)
(* deletes nothing, so what its holder read or staged stays readable until *)
(* its CAS; a collecting tenure adds no root, so what its holder found     *)
(* unreachable stays garbage until it is deleted.  Fences separate the     *)
(* tenures.                                                                *)
(***************************************************************************)
EXTENDS PrimaryStore

Waiting(c) == pc[c] \in {"idle", "acquire"}

StagingLabels == {"objects", "lookupChunks", "putChunks", "putObjects"}
PublishOnly == {"lookup", "head", "record", "verify", "advance"}
PinOnly == {"freeze", "pin", "unpin"}
CourierLabels == {"ack", "check", "show", "settle"}
CollectLabels == {"plan", "reach", "stampEvents", "deleteEvents", "doomObjects",
                  "stampObjects", "deleteObjects", "doomChunks", "stampChunks",
                  "deleteChunks"}

(* A client that passed the lease holds a fence of its own, of the past or of
   the live tenure; the tenure's purpose is that of its job. *)
FencesOK ==
  /\ \A c \in Client : /\ Waiting(c) <=> my[c].fence = 0
                       /\ my[c].fence <= lease.fence
  /\ \A c, d \in Client : c # d /\ my[c].fence = my[d].fence => my[c].fence = 0
  /\ \A c \in Client : ~Waiting(c) /\ my[c].fence = lease.fence =>
                         lease.purpose = Purpose(my[c].job)
  /\ lease.live => lease.fence > 0

JobsOK ==
  \A c \in Client :
    /\ my[c].job = None => pc[c] = "idle"
    /\ pc[c] \in PublishOnly => my[c].job = "publish"
    /\ pc[c] \in PinOnly \cup CourierLabels => my[c].job \in {"pin", "unpin", "ack", "project"}
    /\ pc[c] \in {"check", "show", "settle"} => my[c].job = "project"
    /\ pc[c] \in StagingLabels => my[c].job \in {"publish", "pin"}
    /\ pc[c] \in CollectLabels => my[c].job = "collect"
    /\ pc[c] \in {"freeze", "pin"} => my[c].job = "pin"
    /\ my[c].job = "publish" => my[c].op \in Op /\ my[c].base \in 1..head.generation
    /\ my[c].job = "project" => my[c].op \in Op /\ my[c].base > 0 /\ my[c].commit \in Commit
    /\ pc[c] \in {"show", "settle"} => operations[my[c].op] # NoReceipt

(* A CAS is sent last: its sender does nothing else in that tenure. *)
WireOK ==
  \A s \in wire :
    /\ 0 < s.fence /\ s.fence <= lease.fence
    /\ s.base <= head.generation
    /\ \A c \in Client : my[c].fence = s.fence => pc[c] = "done"
    /\ s.fence = lease.fence => lease.purpose = "write"
    /\ Live(s.fence) /\ head.generation = s.base => Complete(s.manifest)

(* Stamps are never ahead of the lease. *)
StampsOK ==
  /\ \A d \in DOMAIN objects : objects[d] <= lease.fence
  /\ \A d \in DOMAIN chunks : chunks[d] <= lease.fence

(* What the holder of the live lease has merged, frozen or staged. *)
Merged(c) ==
  my[c].job = "publish" /\ pc[c] \in StagingLabels \cup {"record", "verify", "advance"} =>
    /\ my[c].base = head.generation
    /\ my[c].manifest = Patch(my[c].op, head.manifest)
    /\ my[c].need = {my[c].manifest} \cup ({ChangeOf[my[c].op].content} \ {Absent})
    /\ pc[c] = "record" => my[c].manifest = head.manifest
Frozen(c) ==
  my[c].job = "pin" /\ pc[c] \in StagingLabels \cup {"pin"} =>
    /\ my[c].need = {my[c].manifest}
    /\ Files(my[c].manifest) \subseteq Readable
Staged(c) ==
  /\ pc[c] = "lookupChunks" => my[c].need \ my[c].new \subseteq DOMAIN objects
  /\ pc[c] = "putChunks" => /\ my[c].need \ my[c].new \subseteq DOMAIN objects
                            /\ my[c].new \ my[c].fill \subseteq DOMAIN chunks
  /\ pc[c] = "putObjects" => /\ my[c].need \ my[c].new \subseteq DOMAIN objects
                             /\ my[c].new \subseteq DOMAIN chunks
                             /\ my[c].fill \subseteq my[c].new
                             /\ my[c].new \ my[c].fill \subseteq DOMAIN objects
  /\ pc[c] \in {"verify", "advance", "pin"} => my[c].need \subseteq Readable

(* What the holder of the live lease has planned to delete. *)
Planned(c) ==
  /\ pc[c] = "reach" => Roots \subseteq my[c].need
  /\ pc[c] \in CollectLabels \ {"plan", "reach"} => ReachableFrom(Roots) \subseteq my[c].need
  /\ pc[c] \in {"stampObjects", "deleteObjects"} => my[c].fill \cap my[c].need = {}
  /\ pc[c] \in {"stampChunks", "deleteChunks"} => my[c].fill \cap DOMAIN objects = {}

TenureOK ==
  \A c \in Client : Valid(c) => Merged(c) /\ Frozen(c) /\ Staged(c) /\ Planned(c)

(* StampedIsGarbage and RetainedComplete, for the roots the collector computes. *)
StampedUnrooted ==
  /\ \A d \in DOMAIN objects : GcLive(objects[d]) => d \notin ReachableFrom(Roots)
  /\ \A d \in DOMAIN chunks : GcLive(chunks[d]) => d \notin DOMAIN objects
RootsComplete == \A m \in Roots : Complete(m)

(* A state of any execution, strong enough to be preserved by every step; it
   implies TypeOK, ObjectsHaveChunks, StampedIsGarbage and RetainedComplete
   (publish_patch, pin_evidence, garbage_collect). *)
IInv ==
  /\ TypeOK
  /\ FencesOK /\ JobsOK /\ WireOK /\ StampsOK
  /\ TenureOK
  /\ ObjectsHaveChunks /\ StampedUnrooted /\ RootsComplete
================================================================================
