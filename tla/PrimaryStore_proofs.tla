--------------------------- MODULE PrimaryStore_proofs ---------------------------
(***************************************************************************)
(* The store for any clients, operations, contents and bounds, in three     *)
(* parts.                                                                   *)
(*                                                                         *)
(* Types: type correctness is inductive, one lemma per part of Next.        *)
(*                                                                         *)
(* What is retained: IInv is inductive, so what the store retains can       *)
(* always be decoded.  There is one lemma per conjunct; the two that carry  *)
(* the argument are WritingKeeps (a writing tenure deletes nothing) and     *)
(* CollectingAddsNoRoot (a collecting tenure adds no root and no object).   *)
(*                                                                         *)
(* What is remembered by the receipts, the outbox and the projections: the  *)
(* queue has no gaps, a projection resolves to a generation that contains   *)
(* the operation, and the tables hold the history VersionedSource promises. *)
(* The first two add one conjunct about couriers (ShownOK) to IInv.  For    *)
(* the refinement, HistoryOK says that every generation after the first was *)
(* made by exactly one operation, and MergedOK that a tree which was merged *)
(* into a generation stays that generation's successor: a head row never    *)
(* changes without its generation, so no fence is needed here.              *)
(***************************************************************************)
EXTENDS PrimaryStoreInv, SequenceTheorems, TLAPS

USE ConstantsAssumption DEF Fence, Generation

(* A graph consists of digests, the files of a manifest are contents (_graph). *)
LEMMA GraphType ==
  ASSUME NEW m \in Manifest
  PROVE  Graph(m) \subseteq Digest /\ Files(m) \subseteq Content
  BY DEF Graph, Files, Manifest, Digest

(* The tree a patch makes is a manifest (publish_patch). *)
LEMMA PatchType ==
  ASSUME NEW o \in Op, NEW m \in Manifest
  PROVE  Patch(o, m) \in Manifest
  BY DEF Patch, Manifest

(* An idle client carries well-typed values (Lease.__init__). *)
LEMMA IdleType == Idle \in Values
  BY DEF Idle, Values, Jobs, FirstStatement

(* The activated source is type correct (activate_primary). *)
LEMMA TypeInit == Init => TypeOK
  <1> SUFFICES ASSUME Init PROVE TypeOK
    OBVIOUS
  <1> USE GraphType, IdleType DEF Init
  <1>1. lease \in [fence : Fence, purpose : {"gc", "write"}, live : BOOLEAN]
    OBVIOUS
  <1>2. head \in [generation : Generation, manifest : Manifest]
    OBVIOUS
  <1>3. operations \in [Op -> Receipt]
    BY DEF Receipt
  <1>4. pc \in [Client -> Labels] /\ my \in [Client -> Values]
    BY DEF Labels, Gate
  <1> QED
    BY <1>1, <1>2, <1>3, <1>4 DEF TypeOK, RowsType, ClientsType
--------------------------------------------------------------------------------
(* Type correctness is inductive, one lemma per part of Next. *)

LEMMA CallsType ==
  ASSUME TypeOK, Calls
  PROVE  TypeOK'
  <1> USE IdleType DEF TypeOK, ClientsType, Begin, At, Goto, Keep, ReadOnly, store
  <1>0. ASSUME NEW c \in Client, NEW v \in Values, Begin(c, v), ReadOnly
        PROVE  TypeOK'
    BY <1>0 DEF RowsType, Labels, Gate
  <1> USE DEF Client
  <1>1. ASSUME NEW c \in Publisher, NEW o \in Op, PublishPatch(c, o) PROVE TypeOK'
    <2>1. [Idle EXCEPT !.job = "publish", !.op = o, !.base = head.generation] \in Values
      BY DEF Values, Idle, Jobs, FirstStatement, RowsType
    <2> QED
      BY <1>0, <1>1, <2>1 DEF PublishPatch
  <1>2. ASSUME NEW c \in Collector, GarbageCollect(c) PROVE TypeOK'
    <2>1. [Idle EXCEPT !.job = "collect"] \in Values
      BY DEF Values, Idle, Jobs, FirstStatement
    <2> QED
      BY <1>0, <1>2, <2>1 DEF GarbageCollect
  <1>3. ASSUME NEW c \in Courier, NEW g \in DOMAIN outbox, Acknowledge(c, g) PROVE TypeOK'
    <2>1. [Idle EXCEPT !.job = "ack", !.base = g] \in Values
      BY DEF Values, Idle, Jobs, FirstStatement, RowsType
    <2> QED
      BY <1>0, <1>3, <2>1 DEF Acknowledge
  <1>4. ASSUME NEW c \in Courier, NEW o \in GitOp, NEW k \in Commit,
               AcknowledgeProjection(c, o, k)
        PROVE TypeOK'
    <2>1. [Idle EXCEPT !.job = "project", !.op = o, !.commit = k,
                       !.base = head.generation, !.manifest = head.manifest] \in Values
      BY DEF Values, Idle, Jobs, FirstStatement, RowsType
    <2> QED
      BY <1>0, <1>4, <2>1 DEF AcknowledgeProjection
  <1>5. ASSUME NEW c \in Pinner, PinEvidence(c) PROVE TypeOK'
    <2>1. [Idle EXCEPT !.job = "pin"] \in Values
      BY DEF Values, Idle, Jobs, FirstStatement
    <2> QED
      BY <1>0, <1>5, <2>1 DEF PinEvidence
  <1>6. ASSUME NEW c \in Pinner, NEW m \in evidence, ReleaseEvidence(c, m) PROVE TypeOK'
    <2>1. [Idle EXCEPT !.job = "unpin", !.manifest = m] \in Values
      BY DEF Values, Idle, Jobs, FirstStatement, RowsType
    <2> QED
      BY <1>0, <1>6, <2>1 DEF ReleaseEvidence
  <1> QED
    BY <1>1, <1>2, <1>3, <1>4, <1>5, <1>6 DEF Calls

(* A client's next values, when the step goes to a statement of the program. *)
LEMMA LocalType ==
  ASSUME TypeOK, NEW c \in Client, NEW l \in Labels, Goto(c, l),
         NEW v \in Values, my' = [my EXCEPT ![c] = v], UNCHANGED wire
  PROVE  ClientsType'
  BY DEF TypeOK, ClientsType, Goto

(* Taking, losing and leaving a lease keeps the types (Lease, maintenance). *)
LEMMA LeasingType ==
  ASSUME TypeOK, JobsOK, Leasing
  PROVE  TypeOK'
  <1> USE IdleType DEF TypeOK, At, Keep, store
  <1>1. CASE Expire
    BY <1>1 DEF Expire, RowsType, ClientsType
  <1>2. ASSUME NEW c \in Client, Acquire(c) PROVE TypeOK'
    <2>1. my[c].job \in DOMAIN FirstStatement
      <3>1. my[c].job \in Jobs
        BY DEF ClientsType, Values
      <3>2. my[c].job # None
        BY <1>2 DEF Acquire, JobsOK
      <3> QED
        BY <3>1, <3>2 DEF Jobs
    <2>2. FirstStatement[my[c].job] \in Labels
      BY <2>1 DEF FirstStatement, Labels
    <2>3. RowsType'
      BY <1>2 DEF Acquire, Purpose, RowsType
    <2>4. my' = [my EXCEPT ![c] = [my[c] EXCEPT !.fence = lease.fence + 1]]
      BY <1>2 DEF Acquire
    <2>5. [my[c] EXCEPT !.fence = lease.fence + 1] \in Values
      <3>1. my[c] \in Values /\ lease.fence + 1 \in Nat
        BY DEF ClientsType, RowsType
      <3> QED
        BY <3>1 DEF Values
    <2> QED
      BY <1>2, <2>2, <2>3, <2>4, <2>5, LocalType DEF Acquire
  <1>3. ASSUME NEW c \in Client, Leave(c) PROVE TypeOK'
    <2>1. RowsType'
      BY <1>3 DEF Leave, RowsType
    <2>2. ClientsType'
      BY <1>3, LocalType DEF Leave, Labels, Gate
    <2> QED
      BY <2>1, <2>2
  <1> QED
    BY <1>1, <1>2, <1>3 DEF Leasing

(* So does every statement of the staging (_ensure_raw_objects, _put_graph). *)
LEMMA StagingType ==
  ASSUME TypeOK, NEW c \in Client, Staging(c)
  PROVE  TypeOK'
  <1> USE DEF TypeOK, ReadOnly, store
  <1>0. my[c] \in Values
    BY DEF ClientsType
  <1>1. CASE LookupObjects(c)
    <2> DEFINE v == [my[c] EXCEPT !.new = my[c].need \ DOMAIN objects]
    <2>1. v \in Values /\ my' = [my EXCEPT ![c] = v]
      BY <1>0, <1>1 DEF LookupObjects, Values
    <2> QED
      BY <1>1, <2>1, LocalType DEF LookupObjects, Labels, RowsType
  <1>2. CASE LookupChunks(c)
    <2> DEFINE v == [my[c] EXCEPT !.fill = my[c].new \ DOMAIN chunks]
    <2>1. v \in Values /\ my' = [my EXCEPT ![c] = v]
      BY <1>0, <1>2 DEF LookupChunks, Values
    <2> QED
      BY <1>2, <2>1, LocalType DEF LookupChunks, Labels, RowsType
  <1>3. CASE LookupRows(c)
    <2> DEFINE v == [my[c] EXCEPT !.fill = my[c].new \ DOMAIN objects]
    <2>1. v \in Values /\ my' = [my EXCEPT ![c] = v]
      BY <1>0, <1>3 DEF LookupRows, Values
    <2> QED
      BY <1>3, <2>1, LocalType DEF LookupRows, Labels, RowsType
  <1>4. CASE StagingDone(c)
    BY <1>4 DEF StagingDone, Goto, Labels, RowsType, ClientsType
  <1>5. ASSUME NEW d \in my[c].fill, PutChunk(c, d) PROVE TypeOK'
    <2>1. d \in Digest
      BY <1>0 DEF Values
    <2>2. RowsType'
      BY <1>5, <2>1 DEF PutChunk, Inserted, RowsType
    <2>3. [my[c] EXCEPT !.fill = @ \ {d}] \in Values
      BY <1>0 DEF Values
    <2> QED
      BY <1>5, <2>2, <2>3 DEF PutChunk, ClientsType
  <1>6. ASSUME NEW d \in my[c].fill, PutObject(c, d) PROVE TypeOK'
    <2>1. d \in Digest
      BY <1>0 DEF Values
    <2>2. RowsType'
      BY <1>6, <2>1 DEF PutObject, Inserted, RowsType
    <2>3. [my[c] EXCEPT !.fill = @ \ {d}] \in Values
      BY <1>0 DEF Values
    <2> QED
      BY <1>6, <2>2, <2>3 DEF PutObject, ClientsType
  <1> QED
    BY <1>1, <1>2, <1>3, <1>4, <1>5, <1>6 DEF Staging

(* So does every statement of a publication (publish_patch). *)
LEMMA PublishingType ==
  ASSUME TypeOK, JobsOK, NEW c \in Publisher, PublishStep(c)
  PROVE  TypeOK'
  <1> USE DEF TypeOK, At, ReadOnly, store, Client
  <1>0. ASSUME pc[c] \in {"head", "record", "advance"}
        PROVE  my[c].op \in Op /\ my[c].base \in Nat \ {0}
    BY <1>0 DEF JobsOK, PublishOnly, Values, ClientsType
  <1>1. CASE LookupReceipt(c)
    BY <1>1 DEF LookupReceipt, Goto, Labels, Gate, RowsType, ClientsType
  <1>2. CASE ReadHead(c)
    <2> DEFINE target == Patch(my[c].op, head.manifest)
               need == {target} \cup ({ChangeOf[my[c].op].content} \ {Absent})
               v == [my[c] EXCEPT !.manifest = target, !.need = need]
    <2>1. target \in Manifest
      BY <1>0, <1>2, PatchType DEF ReadHead, RowsType
    <2>2. need \subseteq Digest
      BY <1>0, <1>2, <2>1 DEF ReadHead, Digest
    <2>3. v \in Values
      <3>1. my[c] \in Values
        BY DEF ClientsType
      <3> QED
        BY <2>1, <2>2, <3>1 DEF Values
    <2>4. my' = [my EXCEPT ![c] = v]
      BY <1>2 DEF ReadHead
    <2> HIDE DEF v
    <2> QED
      BY <1>2, <2>3, <2>4, LocalType DEF ReadHead, Labels, RowsType
  <1>3. CASE RecordUnchanged(c)
    <2>1. operations' \in [Op -> Receipt]
      BY <1>0, <1>3 DEF RecordUnchanged, Receipt, Values, RowsType, ClientsType
    <2> QED
      BY <1>3, <2>1 DEF RecordUnchanged, Goto, Labels, Gate, RowsType, ClientsType
  <1>4. CASE Staging(c)
    BY <1>4, StagingType
  <1>5. CASE Verify(c)
    BY <1>5 DEF Verify, Goto, Labels, RowsType, ClientsType
  <1>6. CASE SendAdvance(c)
    <2>1. my[c] \in Values
      BY DEF ClientsType
    <2>2. [fence |-> my[c].fence, op |-> my[c].op, base |-> my[c].base,
           manifest |-> my[c].manifest]
            \in [fence : Fence, op : Op, base : Nat, manifest : Manifest]
      BY <1>0, <1>6, <2>1 DEF SendAdvance, Values
    <2> QED
      BY <1>6, <2>2 DEF SendAdvance, Goto, Labels, Gate, RowsType, ClientsType
  <1> QED
    BY <1>1, <1>2, <1>3, <1>4, <1>5, <1>6 DEF PublishStep

(* So does an evaluated head CAS (_advance). *)
LEMMA DeliverType ==
  ASSUME TypeOK, NEW s \in wire, Deliver(s)
  PROVE  TypeOK'
  <1> USE DEF TypeOK
  <1>1. s.op \in Op /\ s.base \in Nat /\ s.manifest \in Manifest
    BY DEF ClientsType
  <1>2. operations' \in [Op -> Receipt]
    BY <1>1 DEF Deliver, Applicable, Receipt, RowsType
  <1>3. RowsType'
    BY <1>1, <1>2 DEF Deliver, Applicable, RowsType
  <1> QED
    BY <1>3 DEF Deliver, Applicable, ClientsType

(* So do acknowledgements (_ack, acknowledge_projection). *)
LEMMA AcknowledgingType ==
  ASSUME TypeOK, JobsOK, NEW c \in Courier, AcknowledgeStep(c)
  PROVE  TypeOK'
  <1> USE DEF TypeOK, At, Goto, ReadOnly, store, Client
  <1>0. ASSUME pc[c] \in {"check", "show", "settle"}
        PROVE  /\ my[c].op \in Op /\ my[c].base \in Nat \ {0} /\ my[c].commit \in Commit
               /\ my[c].manifest \in Manifest
               /\ pc[c] # "check" => operations[my[c].op] # NoReceipt
    BY <1>0 DEF JobsOK, Values, ClientsType
  <1>1. CASE AckEvents(c)
    <2>1. RowsType'
      BY <1>1 DEF AckEvents, AckedThrough, RowsType
    <2> QED
      BY <1>1, <2>1 DEF AckEvents, ClientsType, Labels, Gate
  <1>2. CASE CheckProjection(c)
    BY <1>2 DEF CheckProjection, RowsType, ClientsType, Labels
  <1>3. CASE InsertProjection(c)
    <2> DEFINE row == [generation |-> my[c].base, manifest |-> my[c].manifest]
               rows == [k \in DOMAIN projections \cup {my[c].commit} |->
                          IF k \in DOMAIN projections THEN projections[k] ELSE row]
    <2>0. row \in [generation : Generation, manifest : Manifest] /\ my[c].commit \in Commit
      BY <1>0, <1>3 DEF InsertProjection, Generation
    <2>2. /\ DOMAIN rows \subseteq Commit
          /\ \A k \in DOMAIN rows : rows[k] \in [generation : Generation, manifest : Manifest]
      <3> HIDE DEF row
      <3> QED
        BY <2>0 DEF RowsType
    <2>3. projections' = rows
      BY <1>3 DEF InsertProjection
    <2>1. RowsType'
      <3> HIDE DEF rows
      <3> QED
        BY <1>3, <2>2, <2>3 DEF InsertProjection, RowsType
    <2> QED
      BY <1>3, <2>1 DEF InsertProjection, ClientsType, Labels
  <1>4. CASE SettleOperation(c)
    <2> DEFINE r == operations[my[c].op]
               new == [r EXCEPT !.projected = my[c].commit, !.shown = my[c].base]
    <2>1. r \in Receipt \ {NoReceipt}
      BY <1>0, <1>4 DEF SettleOperation, RowsType
    <2>2. new \in Receipt
      BY <1>0, <1>4, <2>1 DEF SettleOperation, Receipt
    <2>3. operations' = [operations EXCEPT ![my[c].op] = new]
      BY <1>4 DEF SettleOperation
    <2>4. operations' \in [Op -> Receipt]
      BY <2>2, <2>3 DEF RowsType
    <2> QED
      BY <1>4, <2>4 DEF SettleOperation, RowsType, ClientsType, Labels, Gate
  <1> QED
    BY <1>1, <1>2, <1>3, <1>4 DEF AcknowledgeStep

(* So do pins and releases (pin_evidence, release_evidence). *)
LEMMA PinningType ==
  ASSUME TypeOK, NEW c \in Pinner, PinStep(c)
  PROVE  TypeOK'
  <1> USE DEF TypeOK, At, ReadOnly, store
  <1>0. Pinner \subseteq Client
    BY DEF Client
  <1>1. ASSUME NEW n \in Resolvable, NEW p \in Path, FreezeEvidence(c, n, p)
        PROVE  TypeOK'
    <2> DEFINE m == Narrow(n, {p})
               v == [my[c] EXCEPT !.manifest = m, !.need = {m}]
    <2>1. m \in Manifest
      <3>1. n \in Manifest
        BY DEF Resolvable, RowsType
      <3> QED
        BY <3>1 DEF Narrow, Manifest
    <2>2. v \in Values
      <3>1. my[c] \in Values
        BY <1>0 DEF ClientsType
      <3>2. {m} \subseteq Digest
        BY <2>1 DEF Digest
      <3> HIDE DEF m
      <3> QED
        BY <2>1, <3>1, <3>2 DEF Values
    <2>3. my' = [my EXCEPT ![c] = v]
      BY <1>1 DEF FreezeEvidence
    <2> HIDE DEF v
    <2> QED
      BY <1>0, <1>1, <2>2, <2>3, LocalType DEF FreezeEvidence, Labels, RowsType
  <1>2. CASE Staging(c)
    BY <1>0, <1>2, StagingType
  <1>3. CASE InsertEvidence(c)
    <2>1. my[c].manifest \in Manifest
      BY <1>0 DEF ClientsType, Values
    <2> QED
      BY <1>3, <2>1 DEF InsertEvidence, Goto, Labels, Gate, RowsType, ClientsType
  <1>4. CASE DeleteEvidence(c)
    BY <1>4 DEF DeleteEvidence, Goto, Labels, Gate, RowsType, ClientsType
  <1> QED
    BY <1>1, <1>2, <1>3, <1>4 DEF PinStep

(* The roots a collector computes are manifests, and what they reach digests. *)
LEMMA RootsType ==
  ASSUME TypeOK
  PROVE  Roots \subseteq Manifest /\ ReachableFrom(Roots) \subseteq Digest
  <1>1. \A o \in Pending : operations[o].manifest \in Manifest
    BY DEF Pending, TypeOK, RowsType, Receipt
  <1>2. RetainedRoots \subseteq Manifest
    BY <1>1 DEF RetainedRoots, TypeOK, RowsType
  <1>3. UnackedRoots \subseteq Manifest
    BY DEF UnackedRoots, TypeOK, RowsType
  <1>4. Roots \subseteq Manifest
    BY <1>2, <1>3 DEF Roots, TypeOK, RowsType
  <1> QED
    BY <1>4, GraphType DEF ReachableFrom

(* So does every statement of a collection (garbage_collect). *)
LEMMA CollectingType ==
  ASSUME TypeOK, NEW c \in Collector, CollectStep(c)
  PROVE  TypeOK'
  <1> USE DEF TypeOK, ReadOnly, store
  <1>0. c \in Client /\ my[c] \in Values
    BY DEF Client, ClientsType
  <1>1. CASE PlanRoots(c)
    <2> DEFINE v == [my[c] EXCEPT !.need = Roots, !.base = head.generation]
    <2>1. Roots \subseteq Digest /\ head.generation \in Nat
      BY RootsType DEF Digest, RowsType
    <2>2. v \in Values
      BY <1>0, <2>1 DEF Values
    <2>3. my' = [my EXCEPT ![c] = v]
      BY <1>0, <1>1 DEF PlanRoots
    <2> HIDE DEF v
    <2> QED
      BY <1>0, <1>1, <2>2, <2>3, LocalType DEF PlanRoots, Labels, RowsType
  <1>2. CASE PlanReach(c)
    <2> DEFINE v == [my[c] EXCEPT !.need = ReachableFrom(my[c].need)]
    <2>1. my[c].need \subseteq Digest /\ \A m \in my[c].need : Complete(m)
      BY <1>0, <1>2 DEF PlanReach, Values
    <2>2. ReachableFrom(my[c].need) \subseteq Digest
      BY <2>1 DEF ReachableFrom, Complete, Readable, RowsType
    <2>3. v \in Values
      BY <1>0, <2>2 DEF Values
    <2>4. my' = [my EXCEPT ![c] = v]
      BY <1>0, <1>2 DEF PlanReach
    <2> HIDE DEF v
    <2> QED
      BY <1>0, <1>2, <2>3, <2>4, LocalType DEF PlanReach, Labels, RowsType
  <1>3. ASSUME NEW L \in EventBatches, StampEvents(c, L)
        PROVE  TypeOK'
    <2>1. my[c].fence \in Nat
      BY <1>0 DEF Values
    <2>2. RowsType'
      BY <1>3, <2>1 DEF StampEvents, RowsType
    <2> QED
      BY <1>3, <2>2 DEF StampEvents, Goto, Labels, ClientsType
  <1>4. ASSUME NEW L \in EventBatches, DeleteEvents(c, L)
        PROVE  TypeOK'
    <2>1. RowsType'
      BY <1>4 DEF DeleteEvents, Without, RowsType
    <2> QED
      BY <1>4, <2>1 DEF DeleteEvents, Goto, Labels, ClientsType
  <1>5. CASE DoomObjects(c)
    <2>1. PICK D \in Batch(DOMAIN objects \ my[c].need) : my' = [my EXCEPT ![c].fill = D]
      BY <1>5 DEF DoomObjects
    <2>2. D \subseteq Digest
      BY DEF Batch, RowsType
    <2>3. [my[c] EXCEPT !.fill = D] \in Values
      BY <1>0, <2>2 DEF Values
    <2>4. my' = [my EXCEPT ![c] = [my[c] EXCEPT !.fill = D]]
      BY <2>1
    <2> QED
      BY <1>0, <1>5, <2>3, <2>4, LocalType DEF DoomObjects, Labels, RowsType
  <1>6. CASE StampObjects(c)
    <2>1. my[c].fence \in Nat
      BY <1>0 DEF Values
    <2>2. RowsType'
      BY <1>6, <2>1 DEF StampObjects, Stamped, RowsType
    <2> QED
      BY <1>6, <2>2 DEF StampObjects, Goto, Labels, ClientsType
  <1>7. CASE DeleteObjects(c)
    <2>1. RowsType'
      BY <1>7 DEF DeleteObjects, Without, RowsType
    <2> QED
      BY <1>7, <2>1 DEF DeleteObjects, Goto, Labels, ClientsType
  <1>8. CASE DoomChunks(c)
    <2>1. PICK D \in Batch(DOMAIN chunks \ DOMAIN objects) : my' = [my EXCEPT ![c].fill = D]
      BY <1>8 DEF DoomChunks
    <2>2. D \subseteq Digest
      BY DEF Batch, RowsType
    <2>3. [my[c] EXCEPT !.fill = D] \in Values
      BY <1>0, <2>2 DEF Values
    <2>4. my' = [my EXCEPT ![c] = [my[c] EXCEPT !.fill = D]]
      BY <2>1
    <2> QED
      BY <1>0, <1>8, <2>3, <2>4, LocalType DEF DoomChunks, Labels, RowsType
  <1>9. CASE StampChunks(c)
    <2>1. my[c].fence \in Nat
      BY <1>0 DEF Values
    <2>2. RowsType'
      BY <1>9, <2>1 DEF StampChunks, Stamped, RowsType
    <2> QED
      BY <1>9, <2>2 DEF StampChunks, Goto, Labels, ClientsType
  <1>10. CASE DeleteChunks(c)
    <2>1. RowsType'
      BY <1>10 DEF DeleteChunks, Without, RowsType
    <2> QED
      BY <1>10, <2>1 DEF DeleteChunks, Goto, Labels, Gate, ClientsType
  <1>11. CASE CollectEvents(c)
    BY <1>3, <1>4, <1>11 DEF CollectEvents
  <1> QED
    BY <1>1, <1>2, <1>5, <1>6, <1>7, <1>8, <1>9, <1>10, <1>11 DEF CollectStep
--------------------------------------------------------------------------------
(* What is retained *)

(* What every statement of a client has in common. *)
Moves(c) ==
  /\ lease' = lease /\ head' = head
  /\ pc[c] \notin Gate /\ pc'[c] \notin {"idle", "acquire"}
  /\ \A d \in Client : d # c => pc'[d] = pc[d] /\ my'[d] = my[d]
  /\ my'[c].fence = my[c].fence /\ my'[c].job = my[c].job
  /\ my'[c].op = my[c].op /\ my'[c].commit = my[c].commit

(* A statement keeps the lease, the head and every other client's position and
   values, and its own client's identity (one action per statement). *)
LEMMA StatementMoves ==
  ASSUME TypeOK, NEW c \in Client, Statement(c)
  PROVE  Moves(c)
  <1> USE DEF Moves, At, Goto, Gate, ReadOnly, store
  <1>0. /\ pc \in [Client -> Labels] /\ my \in [Client -> Values]
        /\ \A d \in Client : my[d] \in Values
    BY DEF TypeOK, ClientsType
  <1>1. CASE LookupObjects(c)
    BY <1>0, <1>1 DEF LookupObjects, Values
  <1>2. CASE LookupChunks(c)
    BY <1>0, <1>2 DEF LookupChunks, Values
  <1>3. CASE LookupRows(c)
    BY <1>0, <1>3 DEF LookupRows, Values
  <1>4. CASE StagingDone(c)
    BY <1>0, <1>4 DEF StagingDone, Values
  <1>5. ASSUME NEW d \in my[c].fill, PutChunk(c, d) PROVE Moves(c)
    BY <1>0, <1>5 DEF PutChunk, Values
  <1>6. ASSUME NEW d \in my[c].fill, PutObject(c, d) PROVE Moves(c)
    BY <1>0, <1>6 DEF PutObject, Values
  <1>7. CASE LookupReceipt(c)
    BY <1>0, <1>7 DEF LookupReceipt, Values
  <1>8. CASE ReadHead(c)
    BY <1>0, <1>8 DEF ReadHead, Values
  <1>9. CASE RecordUnchanged(c)
    BY <1>0, <1>9 DEF RecordUnchanged, Values
  <1>10. CASE Verify(c)
    BY <1>0, <1>10 DEF Verify, Values
  <1>11. CASE SendAdvance(c)
    BY <1>0, <1>11 DEF SendAdvance, Values
  <1>12. CASE AckEvents(c)
    BY <1>0, <1>12 DEF AckEvents, Values
  <1>13. CASE CheckProjection(c)
    BY <1>0, <1>13 DEF CheckProjection, Values
  <1>14. CASE InsertProjection(c)
    BY <1>0, <1>14 DEF InsertProjection, Values
  <1>15. CASE SettleOperation(c)
    BY <1>0, <1>15 DEF SettleOperation, Values
  <1>16. ASSUME NEW n \in Resolvable, NEW p \in Path, FreezeEvidence(c, n, p)
        PROVE  Moves(c)
    BY <1>0, <1>16 DEF FreezeEvidence, Values
  <1>17. CASE InsertEvidence(c)
    BY <1>0, <1>17 DEF InsertEvidence, Values
  <1>18. CASE DeleteEvidence(c)
    BY <1>0, <1>18 DEF DeleteEvidence, Values
  <1>19. CASE PlanRoots(c)
    BY <1>0, <1>19 DEF PlanRoots, Values
  <1>20. CASE PlanReach(c)
    BY <1>0, <1>20 DEF PlanReach, Values
  <1>21. ASSUME NEW L \in EventBatches, StampEvents(c, L) PROVE Moves(c)
    BY <1>0, <1>21 DEF StampEvents, Values
  <1>22. ASSUME NEW L \in EventBatches, DeleteEvents(c, L) PROVE Moves(c)
    BY <1>0, <1>22 DEF DeleteEvents, Values
  <1>23. CASE DoomObjects(c)
    BY <1>0, <1>23 DEF DoomObjects, Values
  <1>24. CASE StampObjects(c)
    BY <1>0, <1>24 DEF StampObjects, Values
  <1>25. CASE DeleteObjects(c)
    BY <1>0, <1>25 DEF DeleteObjects, Values
  <1>26. CASE DoomChunks(c)
    BY <1>0, <1>26 DEF DoomChunks, Values
  <1>27. CASE StampChunks(c)
    BY <1>0, <1>27 DEF StampChunks, Values
  <1>28. CASE DeleteChunks(c)
    BY <1>0, <1>28 DEF DeleteChunks, Values
  <1> QED
    BY <1>1, <1>2, <1>3, <1>4, <1>5, <1>6, <1>7, <1>8, <1>9, <1>10, <1>11, <1>12,
       <1>13, <1>14, <1>15, <1>16, <1>17, <1>18, <1>19, <1>20, <1>21, <1>22, <1>23,
       <1>24, <1>25, <1>26, <1>27, <1>28
       DEF Statement, PublishStep, AcknowledgeStep, PinStep, CollectStep, CollectEvents,
         Staging

(* The calls differ only in the values their clients start with. *)
LEMMA CallBegins ==
  ASSUME TypeOK, Calls
  PROVE  \E c \in Client, v \in Values :
           /\ Begin(c, v) /\ ReadOnly
           /\ v.fence = 0 /\ v.job # None
           /\ v.job = "publish" => v.op \in Op /\ v.base \in 1..head.generation
           /\ v.job = "project" => /\ v.op \in Op /\ v.commit \in Commit
                                  /\ v.base > 0 /\ v.base <= head.generation
  <1> USE IdleType DEF Client, Values, Idle, None
  <1>j. Jobs = {"publish", "collect", "ack", "project", "pin", "unpin", "none"}
    BY DEF Jobs, FirstStatement
  <1>h. head.generation \in Nat \ {0} /\ head.manifest \in Manifest /\ head.generation \in 1..head.generation
    BY DEF TypeOK, RowsType
  <1>1. ASSUME NEW c \in Publisher, NEW o \in Op, PublishPatch(c, o)
        PROVE  \E v \in Values : /\ Begin(c, v) /\ ReadOnly /\ v.fence = 0 /\ v.job = "publish"
                                 /\ v.op \in Op /\ v.base \in 1..head.generation
    <2> DEFINE v == [Idle EXCEPT !.job = "publish", !.op = o, !.base = head.generation]
    <2>1. v \in Values /\ v.fence = 0 /\ v.job = "publish" /\ v.op \in Op /\ v.base = head.generation
      BY <1>j, <1>h
    <2> QED
      BY <1>1, <1>h, <2>1 DEF PublishPatch
  <1>2. ASSUME NEW c \in Collector, GarbageCollect(c)
        PROVE  \E v \in Values : Begin(c, v) /\ ReadOnly /\ v.fence = 0 /\ v.job = "collect"
    <2> DEFINE v == [Idle EXCEPT !.job = "collect"]
    <2>1. v \in Values /\ v.fence = 0 /\ v.job = "collect"
      BY <1>j
    <2> QED
      BY <1>2, <2>1 DEF GarbageCollect
  <1>3. ASSUME NEW c \in Courier, NEW g \in DOMAIN outbox, Acknowledge(c, g)
        PROVE  \E v \in Values : Begin(c, v) /\ ReadOnly /\ v.fence = 0 /\ v.job = "ack"
    <2> DEFINE v == [Idle EXCEPT !.job = "ack", !.base = g]
    <2>1. g \in Nat
      BY DEF TypeOK, RowsType
    <2>2. v \in Values /\ v.fence = 0 /\ v.job = "ack"
      BY <1>j, <2>1
    <2> QED
      BY <1>3, <2>2 DEF Acknowledge
  <1>4. ASSUME NEW c \in Courier, NEW o \in GitOp, NEW k \in Commit,
               AcknowledgeProjection(c, o, k)
        PROVE  \E v \in Values : /\ Begin(c, v) /\ ReadOnly /\ v.fence = 0 /\ v.job = "project"
                                 /\ v.op \in Op /\ v.commit \in Commit
                                 /\ v.base > 0 /\ v.base <= head.generation
    <2> DEFINE v == [Idle EXCEPT !.job = "project", !.op = o, !.commit = k,
                                 !.base = head.generation, !.manifest = head.manifest]
    <2>1. /\ v \in Values /\ v.fence = 0 /\ v.job = "project" /\ v.op = o
          /\ v.base = head.generation /\ v.commit = k
      BY <1>j, <1>h
    <2>3. head.generation > 0 /\ head.generation <= head.generation /\ o \in Op
      BY <1>h
    <2> HIDE DEF v
    <2> QED
      BY <1>4, <2>1, <2>3 DEF AcknowledgeProjection, v
  <1>5. ASSUME NEW c \in Pinner, PinEvidence(c)
        PROVE  \E v \in Values : Begin(c, v) /\ ReadOnly /\ v.fence = 0 /\ v.job = "pin"
    <2> DEFINE v == [Idle EXCEPT !.job = "pin"]
    <2>1. v \in Values /\ v.fence = 0 /\ v.job = "pin"
      BY <1>j
    <2> QED
      BY <1>5, <2>1 DEF PinEvidence
  <1>6. ASSUME NEW c \in Pinner, NEW m \in evidence, ReleaseEvidence(c, m)
        PROVE  \E v \in Values : Begin(c, v) /\ ReadOnly /\ v.fence = 0 /\ v.job = "unpin"
    <2> DEFINE v == [Idle EXCEPT !.job = "unpin", !.manifest = m]
    <2>1. m \in Manifest
      BY DEF TypeOK, RowsType
    <2>2. v \in Values /\ v.fence = 0 /\ v.job = "unpin"
      BY <1>j, <2>1
    <2> QED
      BY <1>6, <2>2 DEF ReleaseEvidence
  <1> HIDE DEF Values, Idle
  <1> QED
    BY <1>1, <1>2, <1>3, <1>4, <1>5, <1>6 DEF Calls
--------------------------------------------------------------------------------
(* FencesOK *)

LEMMA FencesStatement ==
  ASSUME TypeOK, FencesOK, NEW c \in Client, Statement(c)
  PROVE  FencesOK'
  <1>1. Moves(c)
    BY StatementMoves
  <1>2. \A d \in Client : /\ my'[d].fence = my[d].fence /\ my'[d].job = my[d].job
                          /\ Waiting(d)' <=> Waiting(d)
    BY <1>1 DEF Moves, Gate, Waiting
  <1>3. lease' = lease
    BY <1>1 DEF Moves
  <1> HIDE DEF Waiting
  <1> QED
    BY <1>2, <1>3 DEF FencesOK

(* Calls keep FencesOK: a waiting client has no fence yet (maintenance). *)
LEMMA FencesCalls ==
  ASSUME TypeOK, FencesOK, Calls
  PROVE  FencesOK'
  <1>1. PICK c \in Client, v \in Values : Begin(c, v) /\ ReadOnly /\ v.fence = 0
    BY CallBegins
  <1>2. /\ pc[c] = "idle" /\ pc' = [pc EXCEPT ![c] = "acquire"]
        /\ my' = [my EXCEPT ![c] = v] /\ lease' = lease
    BY <1>1 DEF Begin, At, Goto, Keep, ReadOnly
  <1>3. pc \in [Client -> Labels] /\ my \in [Client -> Values]
    BY DEF TypeOK, ClientsType
  <1>4. \A d \in Client : my'[d].fence = my[d].fence /\ (Waiting(d)' <=> Waiting(d))
    BY <1>1, <1>2, <1>3 DEF Waiting, FencesOK
  <1>5. \A d \in Client : ~Waiting(d) => my'[d].job = my[d].job
    BY <1>2, <1>3 DEF Waiting
  <1> QED
    BY <1>2, <1>4, <1>5 DEF FencesOK

(* Takeover gives a fence nobody has; expiry and release give none (Lease). *)
LEMMA FencesLeasing ==
  ASSUME TypeOK, FencesOK, JobsOK, Leasing
  PROVE  FencesOK'
  <1>0. /\ pc \in [Client -> Labels] /\ my \in [Client -> Values]
        /\ \A d \in Client : my[d] \in Values /\ my[d].fence \in Nat
        /\ lease.fence \in Nat
        /\ lease \in [fence : Fence, purpose : {"gc", "write"}, live : BOOLEAN]
    BY DEF TypeOK, ClientsType, RowsType, Values
  <1>1. CASE Expire
    BY <1>0, <1>1 DEF Expire, FencesOK, Waiting
  <1>2. ASSUME NEW c \in Client, Acquire(c) PROVE FencesOK'
    <2>1. /\ lease'.fence = lease.fence + 1
          /\ lease'.purpose = Purpose(my[c].job) /\ pc[c] = "acquire"
      BY <1>2 DEF Acquire, At
    <2>2. \A d \in Client : /\ my'[d].job = my[d].job
                            /\ my'[d].fence = IF d = c THEN lease.fence + 1 ELSE my[d].fence
      BY <1>0, <1>2 DEF Acquire, Values
    <2>3. FirstStatement[my[c].job] \notin {"idle", "acquire"}
      <3>1. my[c].job \in DOMAIN FirstStatement
        BY <1>0, <2>1 DEF JobsOK, Values, Jobs
      <3> QED
        BY <3>1 DEF FirstStatement
    <2>4. \A d \in Client : Waiting(d)' <=> Waiting(d) /\ d # c
      BY <1>0, <1>2, <2>3 DEF Acquire, Goto, Waiting
    <2>5. \A d \in Client : my[d].fence <= lease.fence
      BY DEF FencesOK
    <2> HIDE DEF Waiting
    <2> QED
      BY <1>0, <2>1, <2>2, <2>4, <2>5 DEF FencesOK
  <1>3. ASSUME NEW c \in Client, Leave(c) PROVE FencesOK'
    <2>1. /\ lease'.fence = lease.fence /\ lease'.purpose = lease.purpose
          /\ lease'.live => lease.live
      BY <1>0, <1>3 DEF Leave
    <2>2. \A d \in Client : /\ my'[d].fence = IF d = c THEN 0 ELSE my[d].fence
                            /\ d # c => my'[d].job = my[d].job
      BY <1>0, <1>3, IdleType DEF Leave, Keep, Idle
    <2>3. \A d \in Client : Waiting(d)' <=> Waiting(d) \/ d = c
      BY <1>0, <1>3 DEF Leave, Goto, Waiting
    <2> HIDE DEF Waiting
    <2> QED
      BY <1>0, <2>1, <2>2, <2>3 DEF FencesOK
  <1> QED
    BY <1>1, <1>2, <1>3 DEF Leasing
--------------------------------------------------------------------------------
(* The statements that write a table. *)
Writes(c) ==
  \/ RecordUnchanged(c)
  \/ \E d \in my[c].fill : PutChunk(c, d) \/ PutObject(c, d)
  \/ AckEvents(c) \/ InsertProjection(c) \/ SettleOperation(c)
  \/ InsertEvidence(c) \/ DeleteEvidence(c)
  \/ CollectEvents(c) \/ StampObjects(c) \/ DeleteObjects(c)
  \/ StampChunks(c) \/ DeleteChunks(c)

(* A statement that changes a table is one of those that Writes lists. *)
LEMMA StatementWrites ==
  ASSUME NEW c \in Client, Statement(c)
  PROVE  UNCHANGED store \/ Writes(c)
  BY DEF Statement, PublishStep, AcknowledgeStep, PinStep, CollectStep, Staging, Writes,
         ReadOnly, LookupReceipt, ReadHead, LookupObjects, LookupChunks, LookupRows,
         StagingDone, Verify, SendAdvance, store, CheckProjection, FreezeEvidence,
         PlanRoots, PlanReach, DoomObjects, DoomChunks

(* Only one tenure is live, and it is of one kind. *)
GcTenure == lease.live /\ lease.purpose \in {"gc", "maintenance"}

(* The statements that only a writing tenure can execute. *)
LEMMA WriterOnly ==
  ASSUME FencesOK, JobsOK, NEW c \in Client,
         \/ RecordUnchanged(c) \/ InsertEvidence(c) \/ SettleOperation(c)
         \/ \E d \in my[c].fill : PutChunk(c, d) \/ PutObject(c, d)
  PROVE  Valid(c) /\ ~GcTenure
  <1>1. Valid(c) /\ ~Waiting(c)
    BY DEF RecordUnchanged, InsertEvidence, SettleOperation, PutChunk, PutObject, At, Waiting
  <1>2. my[c].job # "collect"
    BY DEF RecordUnchanged, InsertEvidence, SettleOperation, PutChunk, PutObject, At, JobsOK,
           PublishOnly, PinOnly, CourierLabels, StagingLabels
  <1> QED
    BY <1>1, <1>2 DEF FencesOK, GcTenure, Valid, Live, Purpose

(* A receipt stays and keeps its manifest (radar_operations has no DELETE). *)
LEMMA ReceiptsStay ==
  ASSUME TypeOK, JobsOK, NEW c \in Client, Statement(c)
  PROVE  \A o \in Op : operations[o] # NoReceipt =>
           /\ operations'[o] # NoReceipt
           /\ operations'[o].manifest = operations[o].manifest
  <1>0. operations \in [Op -> Receipt]
    BY DEF TypeOK, RowsType
  <1>1. CASE UNCHANGED store
    BY <1>1 DEF store
  <1>2. CASE RecordUnchanged(c)
    BY <1>0, <1>2 DEF RecordUnchanged
  <1>3. CASE SettleOperation(c)
    <2>1. my[c].op \in Op /\ operations[my[c].op] # NoReceipt
      BY <1>3 DEF SettleOperation, At, JobsOK
    <2> QED
      BY <1>0, <1>3, <2>1 DEF SettleOperation, Receipt, NoReceipt
  <1>4. CASE Writes(c) /\ ~RecordUnchanged(c) /\ ~SettleOperation(c)
    BY <1>4 DEF Writes, PutChunk, PutObject, AckEvents, InsertProjection, InsertEvidence,
         DeleteEvidence, CollectEvents, StampEvents, DeleteEvents, StampObjects, DeleteObjects, StampChunks,
         DeleteChunks
  <1> QED
    BY <1>1, <1>2, <1>3, <1>4, StatementWrites

(* A writing tenure deletes nothing, whichever client executes a statement. *)
LEMMA WritingKeeps ==
  ASSUME NEW c \in Client, Statement(c), ~GcTenure
  PROVE  DOMAIN objects \subseteq DOMAIN objects' /\ DOMAIN chunks \subseteq DOMAIN chunks'
  <1> USE DEF GcTenure, GcLive, Live
  <1>1. CASE UNCHANGED store
    BY <1>1 DEF store
  <1>2. CASE Writes(c) /\ ~DeleteObjects(c) /\ ~DeleteChunks(c)
    BY <1>2 DEF Writes, RecordUnchanged, PutChunk, PutObject, AckEvents, InsertProjection,
         SettleOperation, InsertEvidence, DeleteEvidence, CollectEvents, StampEvents, DeleteEvents,
         StampObjects, StampChunks, Inserted, Stamped
  <1>3. CASE DeleteObjects(c)
    BY <1>3 DEF DeleteObjects, Without
  <1>4. CASE DeleteChunks(c)
    BY <1>4 DEF DeleteChunks, Without
  <1> QED
    BY <1>1, <1>2, <1>3, <1>4, StatementWrites

(* Only a publication and a pin add a root. *)
LEMMA RootsShrink ==
  ASSUME TypeOK, JobsOK, NEW c \in Client, Statement(c), ~RecordUnchanged(c), ~InsertEvidence(c)
  PROVE  Roots' \subseteq Roots
  <1> USE DEF Roots, RetainedRoots, UnackedRoots
  <1>h. head' = head
    BY StatementMoves DEF Moves
  <1>1. CASE UNCHANGED store
    BY <1>1 DEF store, Pending
  <1>2. CASE \/ \E d \in my[c].fill : PutChunk(c, d) \/ PutObject(c, d)
             \/ InsertProjection(c) \/ DeleteEvidence(c)
             \/ StampObjects(c) \/ DeleteObjects(c) \/ StampChunks(c) \/ DeleteChunks(c)
    <2>1. head' = head /\ outbox' = outbox /\ operations' = operations /\ evidence' \subseteq evidence
      BY <1>2 DEF PutChunk, PutObject, InsertProjection, DeleteEvidence, StampObjects,
           DeleteObjects, StampChunks, DeleteChunks
    <2> QED
      BY <2>1 DEF Pending
  <1>3. CASE AckEvents(c) \/ CollectEvents(c)
    <2> DEFINE Kept == /\ DOMAIN outbox' \subseteq DOMAIN outbox
                       /\ \A g \in DOMAIN outbox' : /\ outbox'[g].manifest = outbox[g].manifest
                                                    /\ ~outbox'[g].acked => ~outbox[g].acked
    <2>0. \A g \in DOMAIN outbox :
            outbox[g] \in [manifest : Manifest, acked : BOOLEAN, gc : Fence]
      BY DEF TypeOK, RowsType
    <2>a. ASSUME AckEvents(c)
          PROVE  Kept
      <3>1. outbox' = AckedThrough(my[c].base)
        BY <2>a DEF AckEvents
      <3> QED
        BY <3>1, <2>0 DEF AckedThrough
    <2>s. ASSUME NEW L \in EventBatches, StampEvents(c, L)
          PROVE  Kept
      <3>1. outbox' = [g \in DOMAIN outbox |->
                        IF g \in L THEN [outbox[g] EXCEPT !.gc = my[c].fence] ELSE outbox[g]]
        BY <2>s DEF StampEvents
      <3> QED
        BY <3>1, <2>0
    <2>d. ASSUME NEW L \in EventBatches, DeleteEvents(c, L)
          PROVE  Kept
      <3>1. outbox' = [g \in DOMAIN outbox \ L |-> outbox[g]]
        BY <2>d DEF DeleteEvents, Without
      <3> QED
        BY <3>1
    <2> HIDE DEF Kept
    <2>c. ASSUME CollectEvents(c)
          PROVE  Kept
      BY <2>c, <2>s, <2>d DEF CollectEvents
    <2>k. Kept
      BY <1>3, <2>a, <2>c
    <2>1. /\ DOMAIN outbox' \subseteq DOMAIN outbox
          /\ \A g \in DOMAIN outbox' : /\ outbox'[g].manifest = outbox[g].manifest
                                       /\ ~outbox'[g].acked => ~outbox[g].acked
      BY <2>k DEF Kept
    <2>2. head' = head /\ operations' = operations /\ evidence' = evidence
      BY <1>3 DEF AckEvents, CollectEvents, StampEvents, DeleteEvents
    <2> QED
      BY <2>1, <2>2 DEF Pending
  <1>4. CASE SettleOperation(c)
    <2>0. operations \in [Op -> Receipt] /\ my[c].op \in Op /\ operations[my[c].op] # NoReceipt
      BY <1>4 DEF SettleOperation, At, JobsOK, TypeOK, RowsType
    <2>1. \A o \in Op : o # my[c].op => operations'[o] = operations[o]
      BY <1>4, <2>0 DEF SettleOperation
    <2>2. operations'[my[c].op].projected = my[c].commit
      BY <1>4, <2>0 DEF SettleOperation, Receipt, NoReceipt
    <2>3. my[c].commit \in Commit
      BY <1>4 DEF SettleOperation, At, JobsOK
    <2>4. outbox' = outbox /\ evidence' = evidence
      BY <1>4 DEF SettleOperation
    <2>5. \A o \in Op : operations[o] # NoReceipt =>
                          operations'[o].manifest = operations[o].manifest
      BY ReceiptsStay
    <2>6. Pending' \subseteq Pending
      BY <2>1, <2>2, <2>3, <2>0 DEF Pending
    <2>7. RetainedRoots' \subseteq RetainedRoots
      BY <2>4, <2>5, <2>6 DEF Pending
    <2> QED
      BY <1>h, <2>4, <2>7
  <1> QED
    BY <1>1, <1>2, <1>3, <1>4, StatementWrites DEF Writes

(* A collecting tenure adds no root and no object row. *)
LEMMA CollectingAddsNoRoot ==
  ASSUME TypeOK, FencesOK, JobsOK, NEW c \in Client, Statement(c), GcTenure
  PROVE  Roots' \subseteq Roots /\ DOMAIN objects' \subseteq DOMAIN objects
  <1>1. Roots' \subseteq Roots
    BY RootsShrink, WriterOnly
  <1>2. CASE UNCHANGED store
    BY <1>1, <1>2 DEF store
  <1>3. CASE Writes(c)
    <2>1. ~ \E d \in my[c].fill : PutChunk(c, d) \/ PutObject(c, d)
      BY WriterOnly
    <2>2. DOMAIN objects' \subseteq DOMAIN objects
      BY <1>3, <2>1 DEF Writes, RecordUnchanged, AckEvents, InsertProjection,
         SettleOperation, InsertEvidence, DeleteEvidence, CollectEvents, StampEvents, DeleteEvents,
         StampObjects, StampChunks, DeleteObjects, DeleteChunks, Without, Stamped
    <2> QED
      BY <1>1, <2>2
  <1> QED
    BY <1>2, <1>3, StatementWrites
--------------------------------------------------------------------------------
(* JobsOK *)

(* The part of JobsOK that is about one client. *)
JobOK(c) ==
  /\ my[c].job = None => pc[c] = "idle"
  /\ pc[c] \in PublishOnly => my[c].job = "publish"
  /\ pc[c] \in PinOnly \cup CourierLabels => my[c].job \in {"pin", "unpin", "ack", "project"}
  /\ pc[c] \in {"check", "show", "settle"} => my[c].job = "project"
  /\ pc[c] \in StagingLabels => my[c].job \in {"publish", "pin"}
  /\ pc[c] \in CollectLabels => my[c].job = "collect"
  /\ pc[c] \in {"freeze", "pin"} => my[c].job = "pin"

(* A statement leads its client to a statement of the same job. *)
LEMMA LabelsFollow ==
  ASSUME TypeOK, JobsOK, NEW c \in Client, Statement(c)
  PROVE  /\ my[c].job # None
         /\ JobOK(c)'
         /\ pc'[c] \in {"show", "settle"} => operations[my[c].op] # NoReceipt
  <1>0. /\ JobOK(c) /\ pc \in [Client -> Labels] /\ my'[c].job = my[c].job
        /\ pc[c] \notin Gate
        /\ pc[c] \in {"show", "settle"} => operations[my[c].op] # NoReceipt
    BY StatementMoves DEF JobsOK, JobOK, TypeOK, ClientsType, Moves
  <1>n. my[c].job # None
    BY <1>0 DEF JobOK, Gate
  <1> DEFINE Follows == /\ JobOK(c)'
                        /\ pc'[c] \in {"show", "settle"} => operations[my[c].op] # NoReceipt
  <1> SUFFICES Follows
    BY <1>n
  <1> USE DEF At, Goto, PublishOnly, PinOnly, CourierLabels, StagingLabels, CollectLabels
  <1>1. CASE LookupObjects(c)
    BY <1>0, <1>n, <1>1 DEF LookupObjects, JobOK
  <1>2. CASE LookupChunks(c)
    BY <1>0, <1>n, <1>2 DEF LookupChunks, JobOK
  <1>3. CASE LookupRows(c)
    BY <1>0, <1>n, <1>3 DEF LookupRows, JobOK
  <1>4. CASE StagingDone(c)
    BY <1>0, <1>n, <1>4 DEF StagingDone, JobOK
  <1>5. ASSUME NEW d \in my[c].fill, PutChunk(c, d) PROVE Follows
    BY <1>0, <1>n, <1>5 DEF PutChunk, JobOK
  <1>6. ASSUME NEW d \in my[c].fill, PutObject(c, d) PROVE Follows
    BY <1>0, <1>n, <1>6 DEF PutObject, JobOK
  <1>7. CASE LookupReceipt(c)
    BY <1>0, <1>n, <1>7 DEF LookupReceipt, JobOK
  <1>8. CASE ReadHead(c)
    BY <1>0, <1>n, <1>8 DEF ReadHead, JobOK
  <1>9. CASE RecordUnchanged(c)
    BY <1>0, <1>n, <1>9 DEF RecordUnchanged, JobOK
  <1>10. CASE Verify(c)
    BY <1>0, <1>n, <1>10 DEF Verify, JobOK
  <1>11. CASE SendAdvance(c)
    BY <1>0, <1>n, <1>11 DEF SendAdvance, JobOK
  <1>12. CASE AckEvents(c)
    BY <1>0, <1>n, <1>12 DEF AckEvents, JobOK
  <1>13. CASE CheckProjection(c)
    BY <1>0, <1>n, <1>13 DEF CheckProjection, JobOK
  <1>14. CASE InsertProjection(c)
    BY <1>0, <1>n, <1>14 DEF InsertProjection, JobOK
  <1>15. CASE SettleOperation(c)
    BY <1>0, <1>n, <1>15 DEF SettleOperation, JobOK
  <1>16. ASSUME NEW n \in Resolvable, NEW p \in Path, FreezeEvidence(c, n, p)
        PROVE  Follows
    BY <1>0, <1>n, <1>16 DEF FreezeEvidence, JobOK
  <1>17. CASE InsertEvidence(c)
    BY <1>0, <1>n, <1>17 DEF InsertEvidence, JobOK
  <1>18. CASE DeleteEvidence(c)
    BY <1>0, <1>n, <1>18 DEF DeleteEvidence, JobOK
  <1>19. CASE PlanRoots(c)
    BY <1>0, <1>n, <1>19 DEF PlanRoots, JobOK
  <1>20. CASE PlanReach(c)
    BY <1>0, <1>n, <1>20 DEF PlanReach, JobOK
  <1>21. ASSUME NEW L \in EventBatches, StampEvents(c, L) PROVE Follows
    BY <1>0, <1>n, <1>21 DEF StampEvents, JobOK
  <1>22. ASSUME NEW L \in EventBatches, DeleteEvents(c, L) PROVE Follows
    BY <1>0, <1>n, <1>22 DEF DeleteEvents, JobOK
  <1>23. CASE DoomObjects(c)
    BY <1>0, <1>n, <1>23 DEF DoomObjects, JobOK
  <1>24. CASE StampObjects(c)
    BY <1>0, <1>n, <1>24 DEF StampObjects, JobOK
  <1>25. CASE DeleteObjects(c)
    BY <1>0, <1>n, <1>25 DEF DeleteObjects, JobOK
  <1>26. CASE DoomChunks(c)
    BY <1>0, <1>n, <1>26 DEF DoomChunks, JobOK
  <1>27. CASE StampChunks(c)
    BY <1>0, <1>n, <1>27 DEF StampChunks, JobOK
  <1>28. CASE DeleteChunks(c)
    BY <1>0, <1>n, <1>28 DEF DeleteChunks, JobOK
  <1> QED
    BY <1>1, <1>2, <1>3, <1>4, <1>5, <1>6, <1>7, <1>8, <1>9, <1>10, <1>11, <1>12,
       <1>13, <1>14, <1>15, <1>16, <1>17, <1>18, <1>19, <1>20, <1>21, <1>22, <1>23,
       <1>24, <1>25, <1>26, <1>27, <1>28
       DEF Statement, PublishStep, AcknowledgeStep, PinStep, CollectStep, CollectEvents,
         Staging

(* Statements keep JobsOK: each label belongs to its call. *)
LEMMA JobsStatement ==
  ASSUME TypeOK, JobsOK, NEW c \in Client, Statement(c)
  PROVE  JobsOK'
  <1>1. JobOK(c)' /\ \A d \in Client : d # c => JobOK(d)'
    <2>1. \A d \in Client : JobOK(d)
      BY DEF JobsOK, JobOK
    <2> QED
      BY <2>1, LabelsFollow, StatementMoves DEF JobOK, Moves
  <1>2. head' = head /\ \A d \in Client : /\ my'[d].job = my[d].job
                                          /\ my'[d].op = my[d].op
                                          /\ my'[d].commit = my[d].commit
    BY StatementMoves DEF Moves
  <1>3. my[c].job \in {"publish", "project"} => my'[c].base = my[c].base
    <2>1. ~PlanRoots(c) => my'[c].base = my[c].base
      <3> USE DEF At, ReadOnly
      <3>0. my \in [Client -> Values] /\ my[c] \in Values
        BY DEF TypeOK, ClientsType
      <3>1. CASE LookupObjects(c)
        BY <3>0, <3>1 DEF LookupObjects, Values
      <3>2. CASE LookupChunks(c)
        BY <3>0, <3>2 DEF LookupChunks, Values
      <3>3. CASE LookupRows(c)
        BY <3>0, <3>3 DEF LookupRows, Values
      <3>4. CASE StagingDone(c)
        BY <3>0, <3>4 DEF StagingDone, Values
      <3>5. ASSUME NEW d \in my[c].fill, PutChunk(c, d) PROVE my'[c].base = my[c].base
        BY <3>0, <3>5 DEF PutChunk, Values
      <3>6. ASSUME NEW d \in my[c].fill, PutObject(c, d) PROVE my'[c].base = my[c].base
        BY <3>0, <3>6 DEF PutObject, Values
      <3>7. CASE LookupReceipt(c)
        BY <3>0, <3>7 DEF LookupReceipt, Values
      <3>8. CASE ReadHead(c)
        BY <3>0, <3>8 DEF ReadHead, Values
      <3>9. CASE RecordUnchanged(c)
        BY <3>0, <3>9 DEF RecordUnchanged, Values
      <3>10. CASE Verify(c)
        BY <3>0, <3>10 DEF Verify, Values
      <3>11. CASE SendAdvance(c)
        BY <3>0, <3>11 DEF SendAdvance, Values
      <3>12. CASE AckEvents(c)
        BY <3>0, <3>12 DEF AckEvents, Values
      <3>13. CASE CheckProjection(c)
        BY <3>0, <3>13 DEF CheckProjection, Values
      <3>14. CASE InsertProjection(c)
        BY <3>0, <3>14 DEF InsertProjection, Values
      <3>15. CASE SettleOperation(c)
        BY <3>0, <3>15 DEF SettleOperation, Values
      <3>16. ASSUME NEW n \in Resolvable, NEW p \in Path, FreezeEvidence(c, n, p)
            PROVE  my'[c].base = my[c].base
        BY <3>0, <3>16 DEF FreezeEvidence, Values
      <3>17. CASE InsertEvidence(c)
        BY <3>0, <3>17 DEF InsertEvidence, Values
      <3>18. CASE DeleteEvidence(c)
        BY <3>0, <3>18 DEF DeleteEvidence, Values
      <3>20. CASE PlanReach(c)
        BY <3>0, <3>20 DEF PlanReach, Values
      <3>21. ASSUME NEW L \in EventBatches, StampEvents(c, L) PROVE my'[c].base = my[c].base
        BY <3>0, <3>21 DEF StampEvents, Values
      <3>22. ASSUME NEW L \in EventBatches, DeleteEvents(c, L) PROVE my'[c].base = my[c].base
        BY <3>0, <3>22 DEF DeleteEvents, Values
      <3>23. CASE DoomObjects(c)
        BY <3>0, <3>23 DEF DoomObjects, Values
      <3>24. CASE StampObjects(c)
        BY <3>0, <3>24 DEF StampObjects, Values
      <3>25. CASE DeleteObjects(c)
        BY <3>0, <3>25 DEF DeleteObjects, Values
      <3>26. CASE DoomChunks(c)
        BY <3>0, <3>26 DEF DoomChunks, Values
      <3>27. CASE StampChunks(c)
        BY <3>0, <3>27 DEF StampChunks, Values
      <3>28. CASE DeleteChunks(c)
        BY <3>0, <3>28 DEF DeleteChunks, Values
      <3> QED
        BY <3>1, <3>2, <3>3, <3>4, <3>5, <3>6, <3>7, <3>8, <3>9, <3>10, <3>11, <3>12,
           <3>13, <3>14, <3>15, <3>16, <3>17, <3>18, <3>20, <3>21, <3>22, <3>23,
           <3>24, <3>25, <3>26, <3>27, <3>28
           DEF Statement, PublishStep, AcknowledgeStep, PinStep, CollectStep, CollectEvents,
             Staging
    <2> QED
      BY <2>1 DEF PlanRoots, At, JobsOK, CollectLabels
  <1>4. \A d \in Client : my[d].job \in {"publish", "project"} => my'[d].base = my[d].base
    BY <1>3, StatementMoves DEF Moves
  <1>5. \A d \in Client :
          /\ my'[d].job = "publish" => my'[d].op \in Op /\ my'[d].base \in 1..head'.generation
          /\ my'[d].job = "project" => /\ my'[d].op \in Op
                                       /\ my'[d].base > 0 /\ my'[d].commit \in Commit
    BY <1>2, <1>4 DEF JobsOK
  <1>6. ASSUME NEW d \in Client, pc'[d] \in {"show", "settle"}
        PROVE  operations'[my'[d].op] # NoReceipt
    <2>1. my'[d].op \in Op
      BY <1>1, <1>5, <1>6 DEF JobOK
    <2>2. operations[my'[d].op] # NoReceipt
      BY <1>2, <1>6, LabelsFollow, StatementMoves DEF Moves, JobsOK
    <2> QED
      BY <2>1, <2>2, ReceiptsStay
  <1> QED
    BY <1>1, <1>5, <1>6 DEF JobsOK, JobOK

(* So do calls, which read the head they name. *)
LEMMA JobsCalls ==
  ASSUME TypeOK, JobsOK, Calls
  PROVE  JobsOK'
  <1>1. PICK c \in Client, v \in Values :
           /\ Begin(c, v) /\ ReadOnly
           /\ v.fence = 0 /\ v.job # None
           /\ v.job = "publish" => v.op \in Op /\ v.base \in 1..head.generation
           /\ v.job = "project" => v.op \in Op /\ v.base > 0 /\ v.commit \in Commit
    BY CallBegins
  <1>2. /\ pc \in [Client -> Labels] /\ my \in [Client -> Values]
        /\ pc' = [pc EXCEPT ![c] = "acquire"] /\ my' = [my EXCEPT ![c] = v]
        /\ head' = head /\ operations' = operations
    BY <1>1 DEF TypeOK, ClientsType, Begin, Goto, Keep, ReadOnly, store
  <1>3. \A d \in Client : d # c => my'[d] = my[d] /\ pc'[d] = pc[d]
    BY <1>2
  <1>4. my'[c] = v /\ pc'[c] = "acquire"
    BY <1>2
  <1> QED
    BY <1>1, <1>2, <1>3, <1>4 DEF JobsOK, PublishOnly, PinOnly, CourierLabels, StagingLabels,
       CollectLabels

(* So does the lease, whose holder starts at its first statement. *)
LEMMA JobsLeasing ==
  ASSUME TypeOK, JobsOK, Leasing
  PROVE  JobsOK'
  <1>0. /\ pc \in [Client -> Labels] /\ my \in [Client -> Values]
        /\ \A d \in Client : my[d] \in Values
        /\ head' = head /\ operations' = operations
    BY DEF TypeOK, ClientsType, Leasing, Expire, Acquire, Leave, store
  <1>1. CASE Expire
    BY <1>0, <1>1 DEF Expire, JobsOK
  <1>2. ASSUME NEW c \in Client, Acquire(c) PROVE JobsOK'
    <2>1. /\ \A d \in Client : /\ my'[d].job = my[d].job /\ my'[d].op = my[d].op
                               /\ my'[d].commit = my[d].commit /\ my'[d].base = my[d].base
          /\ \A d \in Client : d # c => pc'[d] = pc[d]
          /\ pc'[c] = FirstStatement[my[c].job]
      BY <1>0, <1>2 DEF Acquire, Goto, Values
    <2>2. my[c].job \in DOMAIN FirstStatement
      BY <1>0, <1>2 DEF Acquire, At, JobsOK, Values, Jobs
    <2>3. JobOK(c)'
      BY <2>1, <2>2 DEF JobOK, FirstStatement, None, PublishOnly, PinOnly, CourierLabels,
         StagingLabels, CollectLabels
    <2>4. pc'[c] \notin {"show", "settle"}
      BY <2>1, <2>2 DEF FirstStatement
    <2> QED
      BY <1>0, <2>1, <2>3, <2>4 DEF JobsOK, JobOK
  <1>3. ASSUME NEW c \in Client, Leave(c) PROVE JobsOK'
    <2>1. /\ \A d \in Client : d # c => my'[d] = my[d] /\ pc'[d] = pc[d]
          /\ my'[c] = Idle /\ pc'[c] = "idle"
      BY <1>0, <1>3, IdleType DEF Leave, Goto, Keep
    <2>2. Idle.job = None
      BY DEF Idle
    <2> QED
      BY <1>0, <2>1, <2>2 DEF JobsOK, PublishOnly, PinOnly, CourierLabels,
         StagingLabels, CollectLabels, None
  <1> QED
    BY <1>1, <1>2, <1>3 DEF Leasing

(* So does a CAS, which only advances the head (_advance). *)
LEMMA JobsDeliver ==
  ASSUME TypeOK, JobsOK, NEW s \in wire, Deliver(s)
  PROVE  JobsOK'
  <1>1. /\ \A o \in Op : operations[o] # NoReceipt => operations'[o] = operations[o]
        /\ head'.generation = head.generation + 1 /\ head.generation \in Nat
        /\ pc' = pc /\ my' = my
    BY DEF Deliver, Applicable, TypeOK, RowsType, ClientsType
  <1>2. \A d \in Client : my[d].base \in Nat
    BY DEF TypeOK, ClientsType, Values
  <1> QED
    BY <1>1, <1>2 DEF JobsOK
--------------------------------------------------------------------------------
(* StampsOK, ObjectsHaveChunks *)

(* What a statement can do to the stamp of a row. *)
LEMMA StampOrigins ==
  ASSUME NEW c \in Client, Statement(c)
  PROVE  /\ \A d \in DOMAIN objects' : \/ d \in DOMAIN objects /\ objects'[d] = objects[d]
                                       \/ objects'[d] = 0
                                       \/ /\ StampObjects(c) /\ d \in my[c].fill
                                          /\ d \in DOMAIN objects /\ objects'[d] = my[c].fence
         /\ \A d \in DOMAIN chunks' : \/ d \in DOMAIN chunks /\ chunks'[d] = chunks[d]
                                      \/ chunks'[d] = 0
                                      \/ /\ StampChunks(c) /\ d \in my[c].fill
                                         /\ d \in DOMAIN chunks /\ chunks'[d] = my[c].fence
  <1>1. CASE UNCHANGED store
    BY <1>1 DEF store
  <1>2. ASSUME NEW e \in my[c].fill, PutChunk(c, e) \/ PutObject(c, e)
        PROVE  /\ \A d \in DOMAIN objects' : \/ d \in DOMAIN objects /\ objects'[d] = objects[d]
                                             \/ objects'[d] = 0
               /\ \A d \in DOMAIN chunks' : \/ d \in DOMAIN chunks /\ chunks'[d] = chunks[d]
                                            \/ chunks'[d] = 0
    BY <1>2 DEF PutChunk, PutObject, Inserted
  <1>3. CASE StampObjects(c)
    BY <1>3 DEF StampObjects, Stamped
  <1>4. CASE StampChunks(c)
    BY <1>4 DEF StampChunks, Stamped
  <1>5. CASE DeleteObjects(c) \/ DeleteChunks(c)
    BY <1>5 DEF DeleteObjects, DeleteChunks, Without
  <1>6. CASE \/ RecordUnchanged(c) \/ AckEvents(c) \/ InsertProjection(c) \/ SettleOperation(c)
             \/ InsertEvidence(c) \/ DeleteEvidence(c) \/ CollectEvents(c)
    BY <1>6 DEF RecordUnchanged, AckEvents, InsertProjection, SettleOperation, InsertEvidence,
       DeleteEvidence, CollectEvents, StampEvents, DeleteEvents
  <1> QED
    BY <1>1, <1>2, <1>3, <1>4, <1>5, <1>6, StatementWrites DEF Writes

(* Stamps carry the fence of their collection (_delete_digests). *)
LEMMA StampsStatement ==
  ASSUME TypeOK, FencesOK, StampsOK, NEW c \in Client, Statement(c)
  PROVE  StampsOK'
  <1>1. lease' = lease /\ lease.fence \in Nat /\ my[c].fence <= lease.fence
    BY StatementMoves DEF Moves, TypeOK, RowsType, FencesOK
  <1> QED
    BY <1>1, StampOrigins DEF StampsOK

(* No statement leaves an object without its chunk (_put_graph, garbage_collect). *)
LEMMA ChunksStatement ==
  ASSUME TypeOK, FencesOK, JobsOK, TenureOK, ObjectsHaveChunks, StampedUnrooted,
         NEW c \in Client, Statement(c)
  PROVE  ObjectsHaveChunks'
  <1> USE DEF ObjectsHaveChunks
  <1>1. CASE UNCHANGED store
    BY <1>1 DEF store
  <1>2. ASSUME NEW e \in my[c].fill, PutChunk(c, e) PROVE ObjectsHaveChunks'
    BY <1>2 DEF PutChunk, Inserted
  <1>3. ASSUME NEW e \in my[c].fill, PutObject(c, e) PROVE ObjectsHaveChunks'
    <2>1. e \in DOMAIN chunks
      BY <1>3 DEF PutObject, At, TenureOK, Staged
    <2> QED
      BY <1>3, <2>1 DEF PutObject, Inserted
  <1>4. CASE DeleteChunks(c)
    BY <1>4 DEF DeleteChunks, Without, StampedUnrooted
  <1>5. CASE DeleteObjects(c)
    BY <1>5 DEF DeleteObjects, Without
  <1>6. CASE \/ RecordUnchanged(c) \/ AckEvents(c) \/ InsertProjection(c) \/ SettleOperation(c)
             \/ InsertEvidence(c) \/ DeleteEvidence(c) \/ CollectEvents(c)
             \/ StampObjects(c) \/ StampChunks(c)
    BY <1>6 DEF RecordUnchanged, AckEvents, InsertProjection, SettleOperation, InsertEvidence,
       DeleteEvidence, CollectEvents, StampEvents, DeleteEvents, StampObjects, StampChunks, Stamped
  <1> QED
    BY <1>1, <1>2, <1>3, <1>4, <1>5, <1>6, StatementWrites DEF Writes
--------------------------------------------------------------------------------
(* StampedUnrooted *)

LEMMA GarbageStatement ==
  ASSUME TypeOK, FencesOK, JobsOK, TenureOK, StampedUnrooted, NEW c \in Client, Statement(c)
  PROVE  StampedUnrooted'
  <1>1. lease' = lease
    BY StatementMoves DEF Moves
  <1>2. SUFFICES ASSUME GcTenure PROVE StampedUnrooted'
    BY <1>1 DEF StampedUnrooted, GcLive, Live, GcTenure
  <1>3. Roots' \subseteq Roots /\ DOMAIN objects' \subseteq DOMAIN objects
    BY <1>2, CollectingAddsNoRoot
  <1>4. ReachableFrom(Roots)' \subseteq ReachableFrom(Roots)
    BY <1>3 DEF ReachableFrom
  <1>5. lease.fence # 0
    BY <1>2 DEF FencesOK, GcTenure, TypeOK, RowsType
  <1>6. \A f : GcLive(f)' <=> GcLive(f)
    BY <1>1 DEF GcLive, Live
  <1>7. ~GcLive(0)
    BY <1>5 DEF GcLive, Live
  <1>8. ASSUME NEW d \in DOMAIN objects', GcLive(objects'[d]) PROVE d \notin ReachableFrom(Roots)
    <2>1. CASE d \in DOMAIN objects /\ objects'[d] = objects[d]
      BY <1>8, <2>1 DEF StampedUnrooted
    <2>2. CASE StampObjects(c) /\ d \in my[c].fill /\ d \in DOMAIN objects /\ objects'[d] = my[c].fence
      <3>1. Valid(c) /\ pc[c] = "stampObjects"
        BY <1>8, <2>2 DEF StampObjects, At, GcLive, Valid
      <3> QED
        BY <2>2, <3>1 DEF TenureOK, Planned, CollectLabels
    <2> QED
      BY <1>7, <1>8, <2>1, <2>2, StampOrigins
  <1>9. ASSUME NEW d \in DOMAIN chunks', GcLive(chunks'[d]) PROVE d \notin DOMAIN objects
    <2>1. CASE d \in DOMAIN chunks /\ chunks'[d] = chunks[d]
      BY <1>9, <2>1 DEF StampedUnrooted
    <2>2. CASE StampChunks(c) /\ d \in my[c].fill /\ d \in DOMAIN chunks /\ chunks'[d] = my[c].fence
      <3>1. Valid(c) /\ pc[c] = "stampChunks"
        BY <1>9, <2>2 DEF StampChunks, At, GcLive, Valid
      <3> QED
        BY <2>2, <3>1 DEF TenureOK, Planned
    <2> QED
      BY <1>7, <1>9, <2>1, <2>2, StampOrigins
  <1> HIDE DEF GcTenure
  <1> QED
    BY <1>3, <1>4, <1>6, <1>8, <1>9 DEF StampedUnrooted
--------------------------------------------------------------------------------
(* RootsComplete *)

LEMMA ReachStays ==
  ASSUME NEW R, NEW S, DOMAIN objects \cap R \subseteq DOMAIN objects',
         DOMAIN chunks \cap R \subseteq DOMAIN chunks',
         R = ReachableFrom(S), \A m \in S : Complete(m)
  PROVE  \A m \in S : Complete(m)'
  BY DEF ReachableFrom, Complete, Readable

(* No statement makes a root undecodable: the invariant's central step
   (publish_patch, pin_evidence, garbage_collect). *)
LEMMA RetainedStatement ==
  ASSUME TypeOK, FencesOK, JobsOK, TenureOK, ObjectsHaveChunks, StampedUnrooted,
         RootsComplete, NEW c \in Client, Statement(c)
  PROVE  RootsComplete'
  <1>h. head.manifest \in Roots /\ \A m \in Roots : Complete(m)
    BY DEF Roots, RootsComplete
  <1>1. DOMAIN objects \cap ReachableFrom(Roots) \subseteq DOMAIN objects'
    <2>1. CASE GcTenure /\ DeleteObjects(c)
      BY <2>1 DEF DeleteObjects, Without, StampedUnrooted
    <2>2. CASE GcTenure /\ ~DeleteObjects(c)
      <3>1. CASE UNCHANGED store
        BY <3>1 DEF store
      <3>2. CASE Writes(c)
        BY <2>2, <3>2 DEF Writes, RecordUnchanged, PutChunk, PutObject, AckEvents,
           InsertProjection, SettleOperation, InsertEvidence, DeleteEvidence, CollectEvents, StampEvents,
           DeleteEvents, StampObjects, StampChunks, DeleteChunks, Inserted, Stamped
      <3> QED
        BY <3>1, <3>2, StatementWrites
    <2> QED
      BY <2>1, <2>2, WritingKeeps
  <1>2. DOMAIN chunks \cap ReachableFrom(Roots) \subseteq DOMAIN chunks'
    <2>1. CASE GcTenure /\ DeleteChunks(c)
      <3>1. ReachableFrom(Roots) \subseteq DOMAIN objects
        BY <1>h DEF ReachableFrom, Complete, Readable
      <3> QED
        BY <2>1, <3>1 DEF DeleteChunks, Without, StampedUnrooted
    <2>2. CASE GcTenure /\ ~DeleteChunks(c)
      <3>1. CASE UNCHANGED store
        BY <3>1 DEF store
      <3>2. CASE Writes(c)
        BY <2>2, <3>2 DEF Writes, RecordUnchanged, PutChunk, PutObject, AckEvents,
           InsertProjection, SettleOperation, InsertEvidence, DeleteEvidence, CollectEvents, StampEvents,
           DeleteEvents, StampObjects, StampChunks, DeleteObjects, Inserted, Stamped
      <3> QED
        BY <3>1, <3>2, StatementWrites
    <2> QED
      BY <2>1, <2>2, WritingKeeps
  <1>3. \A m \in Roots : Complete(m)'
    BY <1>1, <1>2, <1>h, ReachStays
  <1>4. CASE ~RecordUnchanged(c) /\ ~InsertEvidence(c)
    <2>1. Roots' \subseteq Roots
      BY <1>4, RootsShrink
    <2> QED
      BY <1>3, <2>1 DEF RootsComplete
  <1>5. CASE RecordUnchanged(c)
    <2>0. Valid(c) /\ my[c].manifest = head.manifest
      BY <1>5 DEF RecordUnchanged, At, TenureOK, Merged, JobsOK, PublishOnly
    <2>1. head' = head /\ outbox' = outbox /\ evidence' = evidence
      BY <1>5 DEF RecordUnchanged
    <2>2. \A o \in Op : operations'[o] # NoReceipt =>
            operations'[o] = operations[o] \/ operations'[o].manifest = my[c].manifest
      <3>1. operations \in [Op -> Receipt]
        BY DEF TypeOK, RowsType
      <3> QED
        BY <1>5, <3>1 DEF RecordUnchanged
    <2>3. RetainedRoots' \subseteq RetainedRoots \cup {head.manifest}
      BY <2>0, <2>1, <2>2 DEF RetainedRoots, Pending
    <2>4. Roots' \subseteq Roots
      BY <2>1, <2>3 DEF Roots, UnackedRoots
    <2> QED
      BY <1>3, <2>4 DEF RootsComplete
  <1>6. CASE InsertEvidence(c)
    <2>0. Valid(c) /\ pc[c] = "pin" /\ my[c].job = "pin"
      BY <1>6 DEF InsertEvidence, At, JobsOK
    <2>1. my[c].need = {my[c].manifest} /\ Files(my[c].manifest) \subseteq Readable
          /\ my[c].need \subseteq Readable
      BY <2>0 DEF TenureOK, Frozen, Staged
    <2>2. Complete(my[c].manifest)
      BY <2>1 DEF Complete, Graph
    <2>3. /\ head' = head /\ outbox' = outbox /\ operations' = operations
          /\ objects' = objects /\ chunks' = chunks
          /\ evidence' = evidence \cup {my[c].manifest}
      BY <1>6 DEF InsertEvidence
    <2>4. Roots' \subseteq Roots \cup {my[c].manifest}
      BY <2>3 DEF Roots, RetainedRoots, UnackedRoots, Pending
    <2>5. ASSUME NEW m \in Roots' PROVE Complete(m)'
      <3>1. CASE m = my[c].manifest
        <4>1. Graph(m) \subseteq DOMAIN objects \cap DOMAIN chunks
          BY <2>2, <3>1 DEF Complete, Readable
        <4> QED
          BY <2>3, <4>1 DEF Complete, Readable
      <3> QED
        BY <1>3, <2>4, <3>1
    <2> QED
      BY <2>5 DEF RootsComplete
  <1> QED
    BY <1>4, <1>5, <1>6
--------------------------------------------------------------------------------
(* WireOK *)

(* A patched tree consists of the old files and what the patch brings. *)
LEMMA PatchGraph ==
  ASSUME NEW o \in Op, NEW m \in Manifest
  PROVE  Graph(Patch(o, m)) \subseteq
           {Patch(o, m)} \cup Files(m) \cup ({ChangeOf[o].content} \ {Absent})
  BY DEF Graph, Files, Patch, Manifest

(* The tree of a CAS is complete when it is sent. *)
LEMMA SentComplete ==
  ASSUME TypeOK, JobsOK, TenureOK, RootsComplete, NEW c \in Client, SendAdvance(c), Valid(c)
  PROVE  Complete(my[c].manifest)
  <1>1. pc[c] = "advance" /\ my[c].job = "publish" /\ my[c].op \in Op
    BY DEF SendAdvance, At, JobsOK, PublishOnly
  <1>2. /\ my[c].manifest = Patch(my[c].op, head.manifest)
        /\ {my[c].manifest} \cup ({ChangeOf[my[c].op].content} \ {Absent}) \subseteq Readable
    BY <1>1 DEF TenureOK, Merged, Staged
  <1>3. head.manifest \in Manifest /\ Files(head.manifest) \subseteq Readable
    BY DEF TypeOK, RowsType, RootsComplete, Roots, Complete, Graph
  <1>4. Graph(my[c].manifest) \subseteq Readable
    BY <1>1, <1>2, <1>3, PatchGraph
  <1> QED
    BY <1>4 DEF Complete

(* Statements keep WireOK: who sent a CAS writes nothing more (_advance). *)
LEMMA WireStatement ==
  ASSUME TypeOK, FencesOK, JobsOK, WireOK, TenureOK, RootsComplete,
         NEW c \in Client, Statement(c)
  PROVE  WireOK'
  <1>0. /\ lease' = lease /\ head' = head
        /\ pc[c] \notin Gate
        /\ \A d \in Client : my'[d].fence = my[d].fence
        /\ \A d \in Client : d # c => pc'[d] = pc[d]
    BY StatementMoves DEF Moves
  <1>1. ASSUME NEW s \in wire
        PROVE  /\ 0 < s.fence /\ s.fence <= lease'.fence
               /\ s.base <= head'.generation
               /\ \A d \in Client : my'[d].fence = s.fence => pc'[d] = "done"
               /\ s.fence = lease'.fence => lease'.purpose = "write"
               /\ Live(s.fence)' /\ head'.generation = s.base => Complete(s.manifest)'
    <2>1. \A d \in Client : my'[d].fence = s.fence => pc'[d] = "done"
      BY <1>0 DEF WireOK, Gate
    <2>2. ASSUME Live(s.fence), head.generation = s.base PROVE Complete(s.manifest)'
      <3>1. ~GcTenure
        BY <2>2 DEF WireOK, Live, GcTenure
      <3>2. Complete(s.manifest)
        BY <2>2 DEF WireOK
      <3> QED
        BY <3>1, <3>2, WritingKeeps DEF Complete, Readable
    <2> QED
      BY <1>0, <2>1, <2>2 DEF WireOK, Live
  <1>2. CASE SendAdvance(c)
    <2> DEFINE s == [fence |-> my[c].fence, op |-> my[c].op, base |-> my[c].base,
                     manifest |-> my[c].manifest]
    <2>1. wire' = wire \cup {s}
      BY <1>2 DEF SendAdvance
    <2>2. /\ pc[c] = "advance" /\ pc'[c] = "done" /\ my' = my
          /\ objects' = objects /\ chunks' = chunks
      BY <1>2 DEF SendAdvance, At, Goto, store, TypeOK, ClientsType
    <2>3. /\ my[c].job = "publish" /\ my[c].base <= head.generation
      BY <2>2 DEF JobsOK, PublishOnly, TypeOK, RowsType
    <2>4. my[c].fence \in Nat /\ my[c].fence # 0 /\ my[c].fence <= lease.fence
      BY <2>2 DEF FencesOK, Waiting, TypeOK, ClientsType, Values
    <2>5. my[c].fence = lease.fence => lease.purpose = "write"
      BY <2>2, <2>3 DEF FencesOK, Waiting, Purpose
    <2>6. \A d \in Client : my[d].fence = my[c].fence => d = c
      BY <2>4 DEF FencesOK
    <2>7. Live(my[c].fence) => Graph(my[c].manifest) \subseteq Readable
      BY <1>2, SentComplete DEF Valid, Complete
    <2>8. Readable' = Readable
      BY <2>2 DEF Readable
    <2>9. /\ 0 < s.fence /\ s.fence <= lease'.fence
          /\ s.base <= head'.generation
          /\ \A d \in Client : my'[d].fence = s.fence => pc'[d] = "done"
          /\ s.fence = lease'.fence => lease'.purpose = "write"
          /\ (lease'.live /\ lease'.fence = s.fence) => Graph(s.manifest) \subseteq Readable'
      BY <1>0, <2>2, <2>3, <2>4, <2>5, <2>6, <2>7, <2>8 DEF Live
    <2>10. ASSUME NEW x \in wire', x = s
           PROVE  /\ 0 < x.fence /\ x.fence <= lease'.fence
                  /\ x.base <= head'.generation
                  /\ \A d \in Client : my'[d].fence = x.fence => pc'[d] = "done"
                  /\ x.fence = lease'.fence => lease'.purpose = "write"
                  /\ Live(x.fence)' /\ head'.generation = x.base => Complete(x.manifest)'
      BY <2>9, <2>10 DEF Live, Complete
    <2> HIDE DEF s
    <2> QED
      BY <1>1, <2>1, <2>10 DEF WireOK
  <1>3. CASE ~SendAdvance(c)
    <2>1. wire' = wire
      BY <1>3 DEF Statement, PublishStep, AcknowledgeStep, PinStep, CollectStep, Staging,
         LookupReceipt, ReadHead, RecordUnchanged, LookupObjects, LookupChunks, LookupRows,
         StagingDone, PutChunk, PutObject, Verify, AckEvents, CheckProjection,
         InsertProjection, SettleOperation, FreezeEvidence, InsertEvidence, DeleteEvidence,
         PlanRoots, PlanReach, CollectEvents, StampEvents, DeleteEvents, DoomObjects, StampObjects,
         DeleteObjects, DoomChunks, StampChunks, DeleteChunks, ReadOnly
    <2> QED
      BY <1>1, <2>1 DEF WireOK
  <1> QED
    BY <1>2, <1>3
--------------------------------------------------------------------------------
(* TenureOK *)

(* What another client does leaves the tenure of the holder alone. *)
LEMMA TenureOfOthers ==
  ASSUME TypeOK, FencesOK, JobsOK, TenureOK, NEW c \in Client, Statement(c),
         NEW d \in Client, Valid(d), pc'[d] = pc[d], my'[d] = my[d]
  PROVE  Merged(d)' /\ Frozen(d)' /\ Staged(d)' /\ Planned(d)'
  <1>0. head' = head /\ Merged(d) /\ Frozen(d) /\ Staged(d) /\ Planned(d)
    BY StatementMoves DEF Moves, TenureOK
  <1>1. Merged(d)'
    BY <1>0 DEF Merged, Patch
  <1>2. ASSUME my[d].job \in {"publish", "pin"}, ~Waiting(d)
        PROVE  DOMAIN objects \subseteq DOMAIN objects' /\ DOMAIN chunks \subseteq DOMAIN chunks'
    <2>1. ~GcTenure
      BY <1>2 DEF FencesOK, Valid, Live, Purpose, GcTenure
    <2> QED
      BY <2>1, WritingKeeps
  <1>3. Frozen(d)'
    <2>1. SUFFICES ASSUME my[d].job = "pin", pc[d] \in StagingLabels \cup {"pin"}
                   PROVE  Frozen(d)'
      BY DEF Frozen
    <2>2. Readable \subseteq Readable'
      BY <1>2, <2>1 DEF Readable, Waiting, StagingLabels
    <2> QED
      BY <1>0, <2>1, <2>2 DEF Frozen, Files
  <1>4. Staged(d)'
    <2>1. SUFFICES ASSUME pc[d] \in StagingLabels \cup {"verify", "advance", "pin"}
                   PROVE  Staged(d)'
      BY DEF Staged, StagingLabels
    <2>2. my[d].job \in {"publish", "pin"} /\ ~Waiting(d)
      BY <2>1 DEF JobsOK, StagingLabels, PublishOnly, PinOnly, Waiting
    <2>3. /\ DOMAIN objects \subseteq DOMAIN objects' /\ DOMAIN chunks \subseteq DOMAIN chunks'
          /\ Readable \subseteq Readable'
      BY <1>2, <2>2 DEF Readable
    <2> QED
      BY <1>0, <2>3 DEF Staged
  <1>5. Planned(d)'
    <2>1. SUFFICES ASSUME pc[d] \in CollectLabels PROVE Planned(d)'
      BY DEF Planned, CollectLabels
    <2>2. GcTenure
      BY <2>1 DEF JobsOK, FencesOK, Valid, Live, Purpose, GcTenure, Waiting, CollectLabels
    <2>3. Roots' \subseteq Roots /\ DOMAIN objects' \subseteq DOMAIN objects
      BY <2>2, CollectingAddsNoRoot
    <2>4. ReachableFrom(Roots)' \subseteq ReachableFrom(Roots)
      BY <2>3 DEF ReachableFrom
    <2> QED
      BY <1>0, <2>3, <2>4 DEF Planned
  <1> QED
    BY <1>1, <1>3, <1>4, <1>5

(* What the holder does itself establishes what its next statement needs. *)
LEMMA TenureOfHolder ==
  ASSUME TypeOK, FencesOK, JobsOK, TenureOK, ObjectsHaveChunks, NEW c \in Client,
         Statement(c), Valid(c)
  PROVE  Merged(c)' /\ Frozen(c)' /\ Staged(c)' /\ Planned(c)'
  <1> DEFINE Goal == Merged(c)' /\ Frozen(c)' /\ Staged(c)' /\ Planned(c)'
  <1>a. /\ head' = head /\ my'[c].job = my[c].job /\ my'[c].op = my[c].op
        /\ Merged(c) /\ Frozen(c) /\ Staged(c) /\ Planned(c)
        /\ my \in [Client -> Values] /\ pc \in [Client -> Labels] /\ my[c] \in Values
    BY StatementMoves DEF Moves, TenureOK, TypeOK, ClientsType
  <1>b. JobOK(c) /\ JobOK(c)'
    BY LabelsFollow DEF JobsOK, JobOK
  <1>r. UNCHANGED store => Roots' = Roots /\ Readable' = Readable
    BY DEF store, Roots, RetainedRoots, UnackedRoots, Pending, Readable
  (* The staging statements, of a publication or a pin. *)
  <1>s. ASSUME pc[c] \in StagingLabels, pc'[c] \in StagingLabels \cup {"verify", "pin"},
               my'[c].need = my[c].need, my'[c].manifest = my[c].manifest,
               my'[c].base = my[c].base,
               DOMAIN objects \subseteq DOMAIN objects', DOMAIN chunks \subseteq DOMAIN chunks',
               Staged(c)'
        PROVE  Goal
    <2>1. Merged(c)'
      BY <1>a, <1>s DEF Merged, StagingLabels, Patch
    <2>2. Readable \subseteq Readable'
      BY <1>s DEF Readable
    <2>3. Frozen(c)'
      BY <1>a, <1>s, <2>2 DEF Frozen, Files, StagingLabels
    <2>4. Planned(c)'
      BY <1>s DEF Planned, CollectLabels, StagingLabels
    <2> QED
      BY <1>s, <2>1, <2>3, <2>4
  <1>1. CASE LookupObjects(c)
    <2>1. /\ pc[c] = "objects" /\ pc'[c] = "lookupChunks"
          /\ my'[c].need = my[c].need /\ my'[c].manifest = my[c].manifest
          /\ my'[c].base = my[c].base /\ my'[c].new = my[c].need \ DOMAIN objects
          /\ objects' = objects /\ chunks' = chunks
      BY <1>a, <1>1 DEF LookupObjects, At, Goto, ReadOnly, store, Values
    <2>2. Staged(c)'
      BY <2>1 DEF Staged
    <2> QED
      BY <1>s, <2>1, <2>2 DEF StagingLabels
  <1>2. CASE LookupChunks(c)
    <2>1. /\ pc[c] = "lookupChunks" /\ pc'[c] = "putChunks"
          /\ my'[c].need = my[c].need /\ my'[c].manifest = my[c].manifest
          /\ my'[c].base = my[c].base /\ my'[c].new = my[c].new
          /\ my'[c].fill = my[c].new \ DOMAIN chunks
          /\ objects' = objects /\ chunks' = chunks
      BY <1>a, <1>2 DEF LookupChunks, At, Goto, ReadOnly, store, Values
    <2>2. Staged(c)'
      BY <1>a, <2>1 DEF Staged
    <2> QED
      BY <1>s, <2>1, <2>2 DEF StagingLabels
  <1>3. ASSUME NEW d \in my[c].fill, PutChunk(c, d) PROVE Goal
    <2>1. /\ pc[c] = "putChunks" /\ pc'[c] = "putChunks"
          /\ my'[c].need = my[c].need /\ my'[c].manifest = my[c].manifest
          /\ my'[c].base = my[c].base /\ my'[c].new = my[c].new
          /\ my'[c].fill = my[c].fill \ {d}
          /\ objects' = objects /\ DOMAIN chunks' = DOMAIN chunks \cup {d}
      BY <1>a, <1>3 DEF PutChunk, At, Inserted, Values
    <2>2. Staged(c)'
      BY <1>a, <2>1 DEF Staged
    <2> QED
      BY <1>s, <2>1, <2>2 DEF StagingLabels
  <1>4. CASE LookupRows(c)
    <2>1. /\ pc[c] = "putChunks" /\ pc'[c] = "putObjects" /\ my[c].fill = {}
          /\ my'[c].need = my[c].need /\ my'[c].manifest = my[c].manifest
          /\ my'[c].base = my[c].base /\ my'[c].new = my[c].new
          /\ my'[c].fill = my[c].new \ DOMAIN objects
          /\ objects' = objects /\ chunks' = chunks
      BY <1>a, <1>4 DEF LookupRows, At, Goto, ReadOnly, store, Values
    <2>2. Staged(c)'
      BY <1>a, <2>1 DEF Staged
    <2> QED
      BY <1>s, <2>1, <2>2 DEF StagingLabels
  <1>5. ASSUME NEW d \in my[c].fill, PutObject(c, d) PROVE Goal
    <2>1. /\ pc[c] = "putObjects" /\ pc'[c] = "putObjects"
          /\ my'[c].need = my[c].need /\ my'[c].manifest = my[c].manifest
          /\ my'[c].base = my[c].base /\ my'[c].new = my[c].new
          /\ my'[c].fill = my[c].fill \ {d}
          /\ chunks' = chunks /\ DOMAIN objects' = DOMAIN objects \cup {d}
      BY <1>a, <1>5 DEF PutObject, At, Inserted, Values
    <2>2. Staged(c)'
      BY <1>a, <2>1 DEF Staged
    <2> QED
      BY <1>s, <2>1, <2>2 DEF StagingLabels
  <1>6. CASE StagingDone(c)
    <2>1. /\ pc[c] = "putObjects" /\ my[c].fill = {} /\ my' = my
          /\ pc'[c] = (IF my[c].job = "pin" THEN "pin" ELSE "verify")
          /\ objects' = objects /\ chunks' = chunks
      BY <1>a, <1>6 DEF StagingDone, At, Goto, ReadOnly, store
    <2>2. my[c].need \subseteq Readable
      BY <1>a, <2>1 DEF Staged, ObjectsHaveChunks, Readable
    <2>3. Staged(c)'
      BY <2>1, <2>2 DEF Staged, Readable
    <2> QED
      BY <1>s, <2>1, <2>3 DEF StagingLabels
  (* The statements that leave staging behind, or come before it. *)
  <1>7. CASE LookupReceipt(c)
    <2>1. pc'[c] \in {"head", "done"}
      BY <1>a, <1>7 DEF LookupReceipt, Goto
    <2> QED
      BY <2>1 DEF Merged, Frozen, Staged, Planned, StagingLabels, CollectLabels
  <1>8. CASE ReadHead(c)
    <2> DEFINE target == Patch(my[c].op, head.manifest)
    <2>1. /\ pc'[c] \in {"record", "objects"}
          /\ pc'[c] = "record" => target = head.manifest
          /\ my'[c].base = my[c].base /\ my[c].base = head.generation
          /\ my'[c].manifest = target
          /\ my'[c].need = {target} \cup ({ChangeOf[my[c].op].content} \ {Absent})
          /\ my[c].job = "publish"
      BY <1>a, <1>b, <1>8 DEF ReadHead, At, Goto, Values, JobOK, PublishOnly
    <2>2. Merged(c)'
      BY <1>a, <2>1 DEF Merged, Patch
    <2>3. my'[c].job = "publish" /\ pc'[c] \in {"record", "objects"}
      BY <1>a, <2>1
    <2>4. Frozen(c)' /\ Staged(c)' /\ Planned(c)'
      BY <2>3 DEF Frozen, Staged, Planned, CollectLabels
    <2> QED
      BY <2>2, <2>4
  <1>9. CASE \/ RecordUnchanged(c) \/ SendAdvance(c) \/ AckEvents(c) \/ SettleOperation(c)
             \/ InsertEvidence(c) \/ DeleteEvidence(c) \/ DeleteChunks(c)
    <2>1. pc'[c] = "done"
      BY <1>a, <1>9 DEF RecordUnchanged, SendAdvance, AckEvents, SettleOperation,
         InsertEvidence, DeleteEvidence, DeleteChunks, Goto
    <2> QED
      BY <2>1 DEF Merged, Frozen, Staged, Planned, StagingLabels, CollectLabels
  <1>10. CASE Verify(c)
    <2>1. /\ pc[c] = "verify" /\ pc'[c] = "advance" /\ my' = my
          /\ objects' = objects /\ chunks' = chunks
      BY <1>a, <1>10 DEF Verify, At, Goto, ReadOnly, store
    <2> QED
      BY <1>a, <2>1 DEF Merged, Frozen, Staged, Planned, StagingLabels, CollectLabels, Readable, Patch
  <1>11. CASE CheckProjection(c) \/ InsertProjection(c)
    <2>1. pc'[c] \in {"show", "settle"}
      BY <1>a, <1>11 DEF CheckProjection, InsertProjection, Goto
    <2> QED
      BY <2>1 DEF Merged, Frozen, Staged, Planned, StagingLabels, CollectLabels
  <1>12. ASSUME NEW n \in Resolvable, NEW p \in Path, FreezeEvidence(c, n, p) PROVE Goal
    <2> DEFINE m == n
    <2>1. /\ pc[c] = "freeze" /\ pc'[c] = "objects" /\ m[p] \in Readable
          /\ my'[c].manifest = Narrow(m, {p}) /\ my'[c].need = {Narrow(m, {p})}
          /\ objects' = objects /\ chunks' = chunks
      BY <1>a, <1>12 DEF FreezeEvidence, At, Goto, ReadOnly, store, Values
    <2>2. Files(Narrow(m, {p})) \subseteq {m[p]}
      BY DEF Files, Narrow
    <2>3. Frozen(c)'
      <3>1. Files(my'[c].manifest) \subseteq Readable'
        BY <2>1, <2>2 DEF Readable
      <3>2. Files(my[c].manifest)' = Files(my'[c].manifest)
        BY DEF Files
      <3> QED
        BY <2>1, <3>1, <3>2 DEF Frozen
    <2>4. my'[c].job = "pin"
      BY <1>a, <1>b, <2>1 DEF JobOK
    <2> QED
      BY <2>1, <2>3, <2>4 DEF Merged, Staged, Planned, CollectLabels
  (* The collector. *)
  <1>c. CollectLabels \cap (StagingLabels \cup {"record", "verify", "advance", "pin"}) = {}
    BY DEF CollectLabels, StagingLabels
  <1>13. CASE PlanRoots(c)
    <2>1. /\ pc[c] = "plan" /\ pc'[c] = "reach"
          /\ my'[c].need = Roots /\ UNCHANGED store
      BY <1>a, <1>13 DEF PlanRoots, At, Goto, Values, ReadOnly
    <2> QED
      BY <1>a, <1>r, <2>1 DEF Merged, Frozen, Staged, Planned, StagingLabels, CollectLabels
  <1>14. CASE PlanReach(c)
    <2>1. /\ pc[c] = "reach" /\ pc'[c] = "stampEvents"
          /\ my'[c].need = ReachableFrom(my[c].need) /\ UNCHANGED store
      BY <1>a, <1>14 DEF PlanReach, At, Goto, Values, ReadOnly
    <2>2. ReachableFrom(Roots)' \subseteq my'[c].need
      BY <1>a, <1>r, <2>1 DEF ReachableFrom, Planned
    <2> QED
      BY <1>a, <1>r, <2>1, <2>2 DEF Merged, Frozen, Staged, Planned, StagingLabels, CollectLabels
  <1>15. ASSUME NEW L \in EventBatches, StampEvents(c, L) PROVE Goal
    <2>1. /\ pc[c] = "stampEvents" /\ pc'[c] = "deleteEvents"
          /\ my' = my
      BY <1>a, <1>15 DEF StampEvents, At, Goto, Values
    <2>2. Roots' \subseteq Roots
      BY RootsShrink, <2>1 DEF RecordUnchanged, InsertEvidence, At
    <2>3. ReachableFrom(Roots)' \subseteq ReachableFrom(Roots)
      BY <2>2 DEF ReachableFrom
    <2> QED
      BY <1>a, <1>r, <2>1, <2>3 DEF Merged, Frozen, Staged, Planned, StagingLabels, CollectLabels
  <1>16. ASSUME NEW L \in EventBatches, DeleteEvents(c, L) PROVE Goal
    <2>1. /\ pc[c] = "deleteEvents" /\ pc'[c] = "doomObjects"
          /\ my' = my
      BY <1>a, <1>16 DEF DeleteEvents, At, Goto, Values
    <2>2. Roots' \subseteq Roots
      BY RootsShrink, <2>1 DEF RecordUnchanged, InsertEvidence, At
    <2>3. ReachableFrom(Roots)' \subseteq ReachableFrom(Roots)
      BY <2>2 DEF ReachableFrom
    <2> QED
      BY <1>a, <1>r, <2>1, <2>3 DEF Merged, Frozen, Staged, Planned, StagingLabels, CollectLabels
  <1>17. CASE DoomObjects(c)
    <2>1. PICK D \in Batch(DOMAIN objects \ my[c].need) : my' = [my EXCEPT ![c].fill = D]
      BY <1>17 DEF DoomObjects
    <2>2. /\ pc[c] = "doomObjects" /\ pc'[c] = "stampObjects" /\ my'[c].need = my[c].need
          /\ my'[c].fill = D /\ D \cap my[c].need = {} /\ UNCHANGED store
      BY <1>a, <1>17, <2>1 DEF DoomObjects, At, Goto, ReadOnly, Values, Batch
    <2>3. ReachableFrom(Roots)' = ReachableFrom(Roots)
      BY <1>r, <2>2 DEF ReachableFrom
    <2> QED
      BY <1>a, <2>2, <2>3 DEF Merged, Frozen, Staged, Planned, StagingLabels, CollectLabels
  <1>18. CASE StampObjects(c)
    <2>1. /\ pc[c] = "stampObjects" /\ pc'[c] = "deleteObjects"
          /\ my' = my
      BY <1>a, <1>18 DEF StampObjects, At, Goto, Values
    <2>2. Roots' \subseteq Roots
      BY RootsShrink, <2>1 DEF RecordUnchanged, InsertEvidence, At
    <2>3. ReachableFrom(Roots)' \subseteq ReachableFrom(Roots)
      BY <2>2 DEF ReachableFrom
    <2> QED
      BY <1>a, <1>r, <2>1, <2>3 DEF Merged, Frozen, Staged, Planned, StagingLabels, CollectLabels
  <1>19. CASE DeleteObjects(c)
    <2>1. /\ pc[c] = "deleteObjects" /\ pc'[c] = "doomChunks"
          /\ my' = my
      BY <1>a, <1>19 DEF DeleteObjects, At, Goto, Values
    <2>2. Roots' \subseteq Roots
      BY RootsShrink, <2>1 DEF RecordUnchanged, InsertEvidence, At
    <2>3. ReachableFrom(Roots)' \subseteq ReachableFrom(Roots)
      BY <2>2 DEF ReachableFrom
    <2> QED
      BY <1>a, <1>r, <2>1, <2>3 DEF Merged, Frozen, Staged, Planned, StagingLabels, CollectLabels
  <1>20. CASE DoomChunks(c)
    <2>1. PICK D \in Batch(DOMAIN chunks \ DOMAIN objects) : my' = [my EXCEPT ![c].fill = D]
      BY <1>20 DEF DoomChunks
    <2>2. /\ pc[c] = "doomChunks" /\ pc'[c] = "stampChunks" /\ my'[c].need = my[c].need
          /\ my'[c].fill = D /\ D \cap DOMAIN objects = {} /\ UNCHANGED store
      BY <1>a, <1>20, <2>1 DEF DoomChunks, At, Goto, ReadOnly, Values, Batch
    <2>3. ReachableFrom(Roots)' = ReachableFrom(Roots) /\ objects' = objects
      BY <1>r, <2>2 DEF ReachableFrom, store
    <2> QED
      BY <1>a, <2>2, <2>3 DEF Merged, Frozen, Staged, Planned, StagingLabels, CollectLabels
  <1>21. CASE StampChunks(c)
    <2>1. /\ pc[c] = "stampChunks" /\ pc'[c] = "deleteChunks"
          /\ my' = my /\ objects' = objects
      BY <1>a, <1>21 DEF StampChunks, At, Goto, Values
    <2>2. Roots' \subseteq Roots
      BY RootsShrink, <2>1 DEF RecordUnchanged, InsertEvidence, At
    <2>3. ReachableFrom(Roots)' \subseteq ReachableFrom(Roots)
      BY <2>2 DEF ReachableFrom
    <2> QED
      BY <1>a, <1>r, <2>1, <2>3 DEF Merged, Frozen, Staged, Planned, StagingLabels, CollectLabels
  <1> QED
    BY <1>1, <1>2, <1>3, <1>4, <1>5, <1>6, <1>7, <1>8, <1>9, <1>10, <1>11, <1>12, <1>13,
       <1>14, <1>15, <1>16, <1>17, <1>18, <1>19, <1>20, <1>21
       DEF Statement, PublishStep, AcknowledgeStep, PinStep, CollectStep, CollectEvents,
           Staging

(* Statements keep what the holder of the live lease relies on. *)
LEMMA TenureStatement ==
  ASSUME TypeOK, FencesOK, JobsOK, TenureOK, ObjectsHaveChunks, NEW c \in Client, Statement(c)
  PROVE  TenureOK'
  <1>1. /\ lease' = lease
        /\ \A d \in Client : my'[d].fence = my[d].fence
        /\ \A d \in Client : d # c => pc'[d] = pc[d] /\ my'[d] = my[d]
    BY StatementMoves DEF Moves
  <1>2. ASSUME NEW d \in Client, Valid(d)'
        PROVE  Merged(d)' /\ Frozen(d)' /\ Staged(d)' /\ Planned(d)'
    <2>1. Valid(d)
      BY <1>1, <1>2 DEF Valid, Live
    <2>2. CASE d = c
      BY <2>1, <2>2, TenureOfHolder
    <2>3. CASE d # c
      BY <1>1, <2>1, <2>3, TenureOfOthers
    <2> QED
      BY <2>2, <2>3
  <1> QED
    BY <1>2 DEF TenureOK
--------------------------------------------------------------------------------
(* The steps that are not statements: calls, the lease, a delivered CAS. *)

Rest == /\ WireOK /\ StampsOK /\ TenureOK
        /\ ObjectsHaveChunks /\ StampedUnrooted /\ RootsComplete

(* Calls change no table and keep the rest of the invariant. *)
LEMMA RestCalls ==
  ASSUME TypeOK, FencesOK, JobsOK, Rest, Calls
  PROVE  Rest'
  <1>1. PICK c \in Client, v \in Values : Begin(c, v) /\ ReadOnly /\ v.fence = 0
    BY CallBegins
  <1>2. /\ pc \in [Client -> Labels] /\ my \in [Client -> Values] /\ lease.fence \in Nat
        /\ pc' = [pc EXCEPT ![c] = "acquire"] /\ my' = [my EXCEPT ![c] = v]
        /\ UNCHANGED <<lease, wire, store>>
    BY <1>1 DEF TypeOK, ClientsType, RowsType, Begin, Goto, Keep, ReadOnly
  <1>3. my'[c].fence = 0 /\ \A d \in Client : d # c => my'[d] = my[d] /\ pc'[d] = pc[d]
    BY <1>1, <1>2
  <1>4. StampsOK' /\ ObjectsHaveChunks' /\ StampedUnrooted' /\ RootsComplete'
    BY <1>2 DEF Rest, store, StampsOK, ObjectsHaveChunks, StampedUnrooted, RootsComplete,
       GcLive, Live, Roots, RetainedRoots, UnackedRoots, Pending, ReachableFrom, Complete, Readable
  <1>5. WireOK'
    <2>1. \A s \in wire : s.fence # 0
      BY DEF Rest, WireOK, TypeOK, ClientsType
    <2>2. \A s \in wire, d \in Client : my'[d].fence = s.fence => pc'[d] = "done"
      BY <1>3, <2>1 DEF Rest, WireOK
    <2> QED
      BY <1>2, <2>2 DEF Rest, WireOK, Live, Complete, Readable, store
  <1>6. TenureOK'
    <2>1. ASSUME NEW d \in Client, Valid(d)'
          PROVE  Merged(d)' /\ Frozen(d)' /\ Staged(d)' /\ Planned(d)'
      <3>1. d # c
        BY <1>2, <1>3, <2>1 DEF FencesOK, Valid, Live
      <3>2. my'[d] = my[d] /\ pc'[d] = pc[d] /\ Valid(d)
        BY <1>2, <1>3, <2>1, <3>1 DEF Valid, Live
      <3>3. Merged(d) /\ Frozen(d) /\ Staged(d) /\ Planned(d)
        BY <3>2 DEF Rest, TenureOK
      <3> QED
        BY <1>2, <3>2, <3>3 DEF Merged, Frozen, Staged, Planned, store, Roots, RetainedRoots,
           UnackedRoots, Pending, ReachableFrom, Readable, Patch, Files
    <2> QED
      BY <2>1 DEF TenureOK
  <1> QED
    BY <1>4, <1>5, <1>6 DEF Rest

(* A new tenure starts with no promises, an ended one has none left (Lease). *)
LEMMA RestLeasing ==
  ASSUME TypeOK, FencesOK, JobsOK, Rest, Leasing
  PROVE  Rest'
  <1>0. /\ pc \in [Client -> Labels] /\ my \in [Client -> Values] /\ lease.fence \in Nat
        /\ \A d \in Client : my[d] \in Values
        /\ lease \in [fence : Fence, purpose : {"gc", "write"}, live : BOOLEAN]
        /\ UNCHANGED <<wire, store>>
    BY DEF TypeOK, ClientsType, RowsType, Leasing, Expire, Acquire, Leave
  <1>1. ObjectsHaveChunks' /\ RootsComplete'
    BY <1>0 DEF Rest, store, ObjectsHaveChunks, RootsComplete, Roots, RetainedRoots,
       UnackedRoots, Pending, Complete, Readable
  <1>t. ASSUME NEW d \in Client, Valid(d), my'[d] = my[d], pc'[d] = pc[d]
        PROVE  Merged(d)' /\ Frozen(d)' /\ Staged(d)' /\ Planned(d)'
    <2>1. Merged(d) /\ Frozen(d) /\ Staged(d) /\ Planned(d)
      BY <1>t DEF Rest, TenureOK
    <2> QED
      BY <1>0, <1>t, <2>1 DEF Merged, Frozen, Staged, Planned, store, Roots, RetainedRoots,
         UnackedRoots, Pending, ReachableFrom, Readable, Patch, Files
  <1>2. CASE Expire
    <2>1. /\ ~lease'.live /\ lease'.fence = lease.fence /\ lease'.purpose = lease.purpose
          /\ my' = my /\ pc' = pc
      BY <1>0, <1>2 DEF Expire
    <2>2. TenureOK' /\ StampedUnrooted'
      BY <2>1 DEF TenureOK, Valid, StampedUnrooted, GcLive, Live
    <2>3. WireOK'
      BY <1>0, <2>1 DEF Rest, WireOK, Live, store
    <2>4. StampsOK'
      BY <1>0, <2>1 DEF Rest, StampsOK, store
    <2> QED
      BY <1>1, <2>2, <2>3, <2>4 DEF Rest
  <1>3. ASSUME NEW c \in Client, Acquire(c) PROVE Rest'
    <2>1. /\ lease'.fence = lease.fence + 1 /\ my'[c].fence = lease.fence + 1
          /\ \A d \in Client : d # c => my'[d] = my[d] /\ pc'[d] = pc[d]
          /\ \A d \in Client : my[d].fence \in Nat /\ my[d].fence <= lease.fence
          /\ pc'[c] = FirstStatement[my[c].job]
      BY <1>0, <1>3 DEF Acquire, Goto, Values, FencesOK
    <2>2. StampsOK' /\ StampedUnrooted'
      <3>1. /\ \A x \in DOMAIN objects : objects[x] \in Nat /\ objects[x] < lease'.fence
            /\ \A x \in DOMAIN chunks : chunks[x] \in Nat /\ chunks[x] < lease'.fence
        BY <1>0, <2>1 DEF Rest, StampsOK, TypeOK, RowsType
      <3>2. objects' = objects /\ chunks' = chunks /\ lease'.fence \in Nat
        BY <1>0, <2>1 DEF store
      <3> QED
        BY <3>1, <3>2 DEF StampsOK, StampedUnrooted, GcLive, Live
    <2>3. WireOK'
      <3>1. \A s \in wire : s.fence \in Nat /\ 0 < s.fence /\ s.fence < lease'.fence
        BY <1>0, <2>1 DEF Rest, WireOK, TypeOK, ClientsType
      <3>2. \A s \in wire, d \in Client : my'[d].fence = s.fence => pc'[d] = "done"
        BY <2>1, <3>1 DEF Rest, WireOK
      <3>3. \A s \in wire : s.fence # lease'.fence /\ s.fence <= lease'.fence
        BY <1>0, <2>1, <3>1
      <3>4. \A s \in wire : s.base <= head'.generation
        BY <1>0 DEF Rest, WireOK, store
      <3> QED
        BY <1>0, <3>1, <3>2, <3>3, <3>4 DEF WireOK, Live
    <2>4. ASSUME NEW d \in Client, Valid(d)'
          PROVE  Merged(d)' /\ Frozen(d)' /\ Staged(d)' /\ Planned(d)'
      <3>1. d = c
        BY <1>0, <2>1, <2>4 DEF Valid, Live
      <3>2. my[c].job \in DOMAIN FirstStatement
        BY <1>0, <1>3 DEF Acquire, At, JobsOK, Values, Jobs
      <3>3. pc'[c] \in {"lookup", "plan", "ack", "check", "freeze", "unpin"}
        BY <2>1, <3>2 DEF FirstStatement
      <3> QED
        BY <3>1, <3>3 DEF Merged, Frozen, Staged, Planned, StagingLabels, CollectLabels
    <2> QED
      BY <1>1, <2>2, <2>3, <2>4 DEF Rest, TenureOK
  <1>4. ASSUME NEW c \in Client, Leave(c) PROVE Rest'
    <2>1. /\ lease'.fence = lease.fence /\ lease'.purpose = lease.purpose
          /\ lease'.live => lease.live
          /\ my'[c].fence = 0 /\ \A d \in Client : d # c => my'[d] = my[d] /\ pc'[d] = pc[d]
      BY <1>0, <1>4 DEF Leave, Goto, Keep, Idle
    <2>2. StampsOK'
      BY <1>0, <2>1 DEF Rest, StampsOK, store
    <2>3. StampedUnrooted'
      BY <1>0, <2>1 DEF Rest, StampedUnrooted, GcLive, Live, store, Roots, RetainedRoots,
         UnackedRoots, Pending, ReachableFrom
    <2>4. WireOK'
      <3>1. \A s \in wire, d \in Client : my'[d].fence = s.fence => pc'[d] = "done"
        BY <2>1 DEF Rest, WireOK, TypeOK, ClientsType
      <3>2. \A s \in wire : Live(s.fence)' => Live(s.fence)
        BY <2>1 DEF Live
      <3> QED
        BY <1>0, <2>1, <3>1, <3>2 DEF Rest, WireOK, Complete, Readable, store
    <2>5. ASSUME NEW d \in Client, Valid(d)'
          PROVE  Merged(d)' /\ Frozen(d)' /\ Staged(d)' /\ Planned(d)'
      <3>1. d # c
        BY <1>0, <2>1, <2>5 DEF FencesOK, Valid, Live
      <3>2. Valid(d)
        BY <2>1, <2>5, <3>1 DEF Valid, Live
      <3> QED
        BY <1>t, <2>1, <3>1, <3>2
    <2> QED
      BY <1>1, <2>2, <2>3, <2>4, <2>5 DEF Rest, TenureOK
  <1> QED
    BY <1>2, <1>3, <1>4 DEF Leasing

(* A CAS publishes a complete graph and nothing else (_advance). *)
LEMMA RestDeliver ==
  ASSUME TypeOK, FencesOK, JobsOK, Rest, NEW s \in wire, Deliver(s)
  PROVE  Rest' /\ FencesOK'
  <1>0. /\ lease' = lease /\ wire' = wire /\ my' = my /\ pc' = pc
        /\ objects' = objects /\ chunks' = chunks /\ evidence' = evidence
        /\ head' = [generation |-> s.base + 1, manifest |-> s.manifest]
        /\ Live(s.fence) /\ head.generation = s.base /\ head.generation \in Nat
        /\ operations \in [Op -> Receipt] /\ s.op \in Op
    BY DEF Deliver, Applicable, TypeOK, RowsType, ClientsType
  <1>1. FencesOK'
    BY <1>0 DEF FencesOK, Waiting
  <1>2. StampsOK' /\ ObjectsHaveChunks'
    BY <1>0 DEF Rest, StampsOK, ObjectsHaveChunks
  <1>3. WireOK'
    <2>1. \A x \in wire : x.base \in Nat /\ x.base <= head.generation
      BY DEF Rest, WireOK, TypeOK, ClientsType
    <2>2. \A x \in wire : x.base # head'.generation /\ x.base <= head'.generation
      BY <1>0, <2>1
    <2> QED
      BY <1>0, <2>2 DEF Rest, WireOK, Live
  <1>4. lease.purpose = "write"
    BY <1>0 DEF Rest, WireOK, Live
  <1>5. StampedUnrooted'
    BY <1>0, <1>4 DEF StampedUnrooted, GcLive, Live
  <1>6. TenureOK'
    <2>1. \A d \in Client : Valid(d)' => pc'[d] = "done"
      BY <1>0 DEF Rest, WireOK, Valid, Live
    <2> QED
      BY <2>1 DEF TenureOK, Merged, Frozen, Staged, Planned, StagingLabels, CollectLabels
  <1>7. RootsComplete'
    <2>1. Complete(s.manifest) /\ \A m \in Roots : Complete(m)
      BY <1>0 DEF Rest, WireOK, RootsComplete
    <2>2. UnackedRoots' \subseteq UnackedRoots \cup {s.manifest}
      BY DEF Deliver, Applicable, UnackedRoots
    <2>3. \A o \in Op : operations'[o] = operations[o] \/ operations'[o].manifest = s.manifest
      BY <1>0 DEF Deliver, Applicable
    <2>4. RetainedRoots' \subseteq RetainedRoots \cup {s.manifest}
      BY <1>0, <2>3 DEF RetainedRoots, Pending
    <2>5. Roots' \subseteq Roots \cup {s.manifest}
      BY <1>0, <2>2, <2>4 DEF Roots
    <2>6. ASSUME NEW m \in Roots' PROVE Complete(m)'
      BY <1>0, <2>1, <2>5 DEF Complete, Readable
    <2> QED
      BY <2>6 DEF RootsComplete
  <1> QED
    BY <1>1, <1>2, <1>3, <1>5, <1>6, <1>7 DEF Rest
--------------------------------------------------------------------------------
(* The inductive invariant *)

LEMMA InvInit == Init => IInv
  <1> SUFFICES ASSUME Init PROVE IInv
    OBVIOUS
  <1>0. TypeOK
    BY TypeInit
  <1>1. /\ \A c \in Client : pc[c] = "idle" /\ my[c] = Idle
        /\ lease.fence = 0 /\ ~lease.live /\ wire = {} /\ evidence = {}
        /\ head.manifest = InitialManifest
        /\ \A o \in Op : operations[o] = NoReceipt
        /\ DOMAIN objects = Graph(InitialManifest) /\ DOMAIN chunks = Graph(InitialManifest)
        /\ \A d \in Graph(InitialManifest) : objects[d] = 0 /\ chunks[d] = 0
        /\ DOMAIN outbox = {1} /\ outbox[1].manifest = InitialManifest
    BY DEF Init
  <1>2. Idle.fence = 0 /\ Idle.job = None
    BY DEF Idle
  <1>3. FencesOK
    BY <1>1, <1>2 DEF FencesOK, Waiting
  <1>4. JobsOK
    BY <1>1, <1>2 DEF JobsOK, None, PublishOnly, PinOnly, CourierLabels, StagingLabels,
       CollectLabels
  <1>5. WireOK /\ StampsOK /\ TenureOK /\ ObjectsHaveChunks /\ StampedUnrooted
    BY <1>1 DEF WireOK, StampsOK, TenureOK, Valid, GcLive, Live, ObjectsHaveChunks,
       StampedUnrooted
  <1>6. RootsComplete
    <2>1. Roots = {InitialManifest}
      BY <1>1 DEF Roots, RetainedRoots, UnackedRoots, Pending, Init
    <2> QED
      BY <1>1, <2>1 DEF RootsComplete, Complete, Readable
  <1> QED
    BY <1>0, <1>3, <1>4, <1>5, <1>6 DEF IInv

(* Every statement keeps the types. *)
LEMMA TypeStatement ==
  ASSUME TypeOK, JobsOK, NEW c \in Client, Statement(c)
  PROVE  TypeOK'
  BY PublishingType, AcknowledgingType, PinningType, CollectingType DEF Statement

(* IInv is inductive: one step per disjunct of Next. *)
LEMMA InvNext == IInv /\ [Next]_vars => IInv'
  <1> SUFFICES ASSUME IInv, [Next]_vars PROVE IInv'
    OBVIOUS
  <1>0. TypeOK /\ FencesOK /\ JobsOK /\ Rest
    BY DEF IInv, Rest
  <1>1. CASE Calls
    BY <1>0, <1>1, CallsType, FencesCalls, JobsCalls, RestCalls DEF IInv, Rest
  <1>2. CASE Leasing
    BY <1>0, <1>2, LeasingType, FencesLeasing, JobsLeasing, RestLeasing DEF IInv, Rest
  <1>3. ASSUME NEW c \in Client, Statement(c) PROVE IInv'
    BY <1>0, <1>3, TypeStatement, FencesStatement, JobsStatement, WireStatement,
       StampsStatement, TenureStatement, ChunksStatement, GarbageStatement, RetainedStatement
       DEF IInv, Rest
  <1>4. ASSUME NEW s \in wire, Deliver(s) PROVE IInv'
    BY <1>0, <1>4, DeliverType, JobsDeliver, RestDeliver DEF IInv, Rest
  <1>5. CASE UNCHANGED vars
    <2>1. TypeOK' /\ FencesOK' /\ JobsOK' /\ StampsOK' /\ ObjectsHaveChunks'
      BY <1>0, <1>5 DEF vars, TypeOK, RowsType, ClientsType, FencesOK, Waiting, JobsOK, StampsOK,
         ObjectsHaveChunks, Rest
    <2>2. Roots' = Roots /\ Readable' = Readable /\ ReachableFrom(Roots)' = ReachableFrom(Roots)
      BY <1>5 DEF vars, Roots, RetainedRoots, UnackedRoots, Pending, Readable, ReachableFrom
    <2>3. WireOK' /\ RootsComplete' /\ StampedUnrooted'
      BY <1>0, <1>5, <2>2 DEF vars, WireOK, RootsComplete, StampedUnrooted, GcLive, Live,
         Complete, Rest
    <2>4. TenureOK'
      BY <1>0, <1>5, <2>2 DEF vars, TenureOK, Valid, Live, Merged, Frozen, Staged, Planned,
         Patch, Files, Rest
    <2> QED
      BY <2>1, <2>3, <2>4 DEF IInv
  <1> QED
    BY <1>1, <1>2, <1>3, <1>4, <1>5 DEF Next

(* IInv holds in every execution: at each moment the holder of the lease finds
   what it read, merged, staged or planned unchanged where it matters, for any
   number of clients (publish_patch, pin_evidence, garbage_collect). *)
THEOREM InvAlways == Spec => []IInv
  BY InvInit, InvNext, PTL DEF Spec

(* Every reachable state has only rows and values of the schema's types. *)
THEOREM TypeCorrect == Spec => []TypeOK
  <1>1. IInv => TypeOK
    BY DEF IInv
  <1> QED
    BY <1>1, InvAlways, PTL

(* What readers may ask for is what the collector computes (retained_roots). *)
LEMMA PromisedAreRoots == Promised = Roots
  BY DEF Promised, Roots, RetainedRoots, UnackedRoots, Pending

(* Whatever is retained can be decoded, for any number of publishers,
   collectors, couriers and pinners, whenever each is delayed, fenced out or
   stopped (publish_patch, pin_evidence, garbage_collect). *)
THEOREM RetainedAlways == Spec => []RetainedComplete
  <1>1. IInv => RetainedComplete
    BY PromisedAreRoots DEF IInv, RootsComplete, RetainedComplete
  <1> QED
    BY <1>1, InvAlways, PTL

(* An object row never names a missing chunk (_put_graph, garbage_collect). *)
THEOREM ChunksAlways == Spec => []ObjectsHaveChunks
  <1>1. IInv => ObjectsHaveChunks
    BY DEF IInv
  <1> QED
    BY <1>1, InvAlways, PTL

(* A row that the live collection has stamped is garbage when it is deleted,
   however long ago it was planned (garbage_collect). *)
THEOREM StampedAlways == Spec => []StampedIsGarbage
  <1>1. IInv => StampedIsGarbage
    BY PromisedAreRoots DEF IInv, StampedUnrooted, StampedIsGarbage
  <1> QED
    BY <1>1, InvAlways, PTL
--------------------------------------------------------------------------------
(* What is remembered *)

(* A courier offers a commit for a generation that contains its operation,
   and nobody else gives the commit a meaning in the courier's tenure. *)
ShownOK ==
  \A c \in Client :
    /\ my[c].job = "project" => my[c].base <= head.generation
    /\ pc[c] \in {"show", "settle"} => operations[my[c].op].generation <= my[c].base
    /\ pc[c] = "show" /\ Valid(c) => CanMean(my[c].commit, my[c].base, my[c].manifest)
    /\ pc[c] = "settle" => /\ my[c].commit \in DOMAIN projections
                           /\ projections[my[c].commit].generation = my[c].base

Made(o, g) == operations[o].state = "changed" /\ operations[o].generation = g

HistoryOK ==
  /\ \A g \in 2..head.generation : \E o \in Op : Made(o, g)
  /\ \A o, p \in Op : \A g \in 2..head.generation : Made(o, g) /\ Made(p, g) => o = p
  /\ \A o \in Op : operations[o] # NoReceipt => operations[o].generation <= head.generation
  /\ \A o \in Op : operations[o].state = "changed" => operations[o].generation >= 2
  /\ \A o \in Op : Made(o, head.generation) => operations[o].manifest = head.manifest
  /\ head.generation = 1 => head.manifest = InitialManifest

Successor(o, m) == m = Patch(o, head.manifest) /\ m # head.manifest
MergedOK ==
  /\ \A c \in Client :
       /\ my[c].job = "publish" /\ pc[c] \in StagingLabels \cup {"verify", "advance"}
       /\ my[c].base = head.generation
       => Successor(my[c].op, my[c].manifest)
  /\ \A s \in wire : s.base = head.generation => Successor(s.op, s.manifest)

LedgerInv == QueueIsSuffix /\ ProjectionResolves /\ ShownOK /\ HistoryOK /\ MergedOK
--------------------------------------------------------------------------------
(* The activated source has one generation and no receipt (activate_primary). *)
LEMMA LedgerInit == Init => LedgerInv
  <1> SUFFICES ASSUME Init PROVE LedgerInv
    OBVIOUS
  <1>1. /\ \A c \in Client : pc[c] = "idle" /\ my[c].job = "none"
        /\ head.generation = 1 /\ head.manifest = InitialManifest /\ wire = {}
        /\ \A o \in Op : operations[o] = NoReceipt
        /\ DOMAIN outbox = {1} /\ ~outbox[1].acked
    BY DEF Init, Idle, None
  <1>2. \A o \in Op : operations[o].state = "none"
    BY <1>1 DEF NoReceipt
  <1>3. QueueIsSuffix /\ ProjectionResolves /\ HistoryOK
    BY <1>1, <1>2 DEF QueueIsSuffix, ProjectionResolves, HistoryOK, Made
  <1>4. ShownOK /\ MergedOK
    BY <1>1 DEF ShownOK, MergedOK, StagingLabels
  <1> QED
    BY <1>3, <1>4 DEF LedgerInv

(* A receipt keeps its generation and its manifest, and is never taken back;
   only the commit that shows it is recorded later (radar_operations). *)
LEMMA ReceiptsFixed ==
  ASSUME TypeOK, JobsOK, NEW c \in Client, Statement(c), NEW o \in Op,
         operations[o] # NoReceipt
  PROVE  /\ operations'[o] # NoReceipt
         /\ operations'[o].state = operations[o].state
         /\ operations'[o].generation = operations[o].generation
         /\ operations'[o].manifest = operations[o].manifest
  <1>0. operations \in [Op -> Receipt]
    BY DEF TypeOK, RowsType
  <1>1. CASE UNCHANGED store
    BY <1>1 DEF store
  <1>2. CASE RecordUnchanged(c)
    BY <1>0, <1>2 DEF RecordUnchanged
  <1>3. CASE SettleOperation(c)
    <2>1. my[c].op \in Op /\ operations[my[c].op] # NoReceipt
      BY <1>3 DEF SettleOperation, At, JobsOK
    <2> QED
      BY <1>0, <1>3, <2>1 DEF SettleOperation, Receipt, NoReceipt
  <1>4. CASE Writes(c) /\ ~RecordUnchanged(c) /\ ~SettleOperation(c)
    BY <1>4 DEF Writes, PutChunk, PutObject, AckEvents, InsertProjection, InsertEvidence,
         DeleteEvidence, CollectEvents, StampEvents, DeleteEvents, StampObjects, DeleteObjects, StampChunks,
         DeleteChunks
  <1> QED
    BY <1>1, <1>2, <1>3, <1>4, StatementWrites
--------------------------------------------------------------------------------
(* QueueIsSuffix *)

(* Acknowledging takes a prefix of the queue, collecting takes only what is
   acknowledged (_ack, garbage_collect). *)
LEMMA QueueStatement ==
  ASSUME TypeOK, QueueIsSuffix, NEW c \in Client, Statement(c)
  PROVE  QueueIsSuffix'
  <1>0. /\ head' = head /\ head.generation \in Nat
        /\ \A g \in DOMAIN outbox : g \in Nat
        /\ my[c].base \in Nat
    BY StatementMoves DEF Moves, TypeOK, RowsType, ClientsType, Values
  <1>1. CASE outbox' = outbox
    BY <1>0, <1>1 DEF QueueIsSuffix
  <1>2. CASE AckEvents(c)
    <2>1. /\ DOMAIN outbox' = DOMAIN outbox
          /\ \A g \in DOMAIN outbox : outbox'[g].acked <=> outbox[g].acked \/ g <= my[c].base
      BY <1>2 DEF AckEvents, AckedThrough, TypeOK, RowsType
    <2> QED
      BY <1>0, <2>1 DEF QueueIsSuffix
  <1>3. ASSUME NEW L \in EventBatches, StampEvents(c, L) PROVE QueueIsSuffix'
    <2>1. /\ DOMAIN outbox' = DOMAIN outbox
          /\ \A g \in DOMAIN outbox : outbox'[g].acked = outbox[g].acked
      BY <1>3 DEF StampEvents, TypeOK, RowsType
    <2> QED
      BY <1>0, <2>1 DEF QueueIsSuffix
  <1>4. ASSUME NEW L \in EventBatches, DeleteEvents(c, L) PROVE QueueIsSuffix'
    <2>1. \A g \in L : outbox[g].acked
      BY DEF EventBatches, Batch
    <2>2. /\ DOMAIN outbox' = DOMAIN outbox \ L
          /\ \A g \in DOMAIN outbox' : outbox'[g] = outbox[g]
      BY <1>4 DEF DeleteEvents, Without
    <2> QED
      BY <1>0, <2>1, <2>2 DEF QueueIsSuffix
  <1>5. CASE Writes(c) /\ ~AckEvents(c) /\ ~CollectEvents(c)
    BY <1>1, <1>5 DEF Writes, PutChunk, PutObject, RecordUnchanged, InsertProjection,
         SettleOperation, InsertEvidence, DeleteEvidence, StampObjects, DeleteObjects,
         StampChunks, DeleteChunks
  <1> QED
    BY <1>1, <1>2, <1>3, <1>4, <1>5, StatementWrites DEF store, CollectEvents

(* A new event is the last one (the source_event trigger). *)
LEMMA QueueDeliver ==
  ASSUME TypeOK, QueueIsSuffix, NEW s \in wire, Deliver(s)
  PROVE  QueueIsSuffix'
  <1>0. /\ head.generation \in Nat /\ head.generation = s.base
        /\ head'.generation = s.base + 1
        /\ DOMAIN outbox' = DOMAIN outbox \cup {s.base + 1}
        /\ ~outbox'[s.base + 1].acked
        /\ \A g \in DOMAIN outbox : g # s.base + 1 => outbox'[g] = outbox[g]
    BY DEF Deliver, Applicable, TypeOK, RowsType
  <1>1. \A g \in 1..head'.generation : g \in 1..head.generation \/ g = s.base + 1
    BY <1>0
  <1>2. \A g \in 1..head.generation : g # s.base + 1 /\ g < s.base + 1
    BY <1>0
  <1> QED
    BY <1>0, <1>1, <1>2 DEF QueueIsSuffix
--------------------------------------------------------------------------------
(* ProjectionResolves *)

(* Receipts and projections that stay keep ProjectionResolves, as long as no
   operation becomes shown and the head does not move back. *)
LEMMA ResolvesKept ==
  ASSUME TypeOK, ProjectionResolves, head'.generation \in Nat,
         head'.generation >= head.generation,
         \A k \in DOMAIN projections : k \in DOMAIN projections' /\ projections'[k] = projections[k],
         \A o \in Op : \/ operations'[o] = operations[o]
                       \/ operations'[o].projected = None
  PROVE  ProjectionResolves'
  <1>1. ASSUME NEW o \in Op, operations'[o] # NoReceipt, operations'[o].projected # None
        PROVE  /\ operations'[o].projected \in DOMAIN projections'
               /\ projections'[operations'[o].projected].generation = operations'[o].shown
               /\ operations'[o].shown \in operations'[o].generation .. head'.generation
    <2>1. operations'[o] = operations[o]
      BY <1>1
    <2>2. /\ operations[o].projected \in DOMAIN projections
          /\ projections[operations[o].projected].generation = operations[o].shown
          /\ operations[o].shown \in operations[o].generation .. head.generation
      BY <1>1, <2>1 DEF ProjectionResolves
    <2>3. head.generation \in Nat /\ operations[o].generation \in Nat
      BY <1>1, <2>1 DEF TypeOK, RowsType, Receipt
    <2> QED
      BY <2>1, <2>2, <2>3
  <1> QED
    BY <1>1 DEF ProjectionResolves

(* A commit keeps its meaning, and only one statement gives it one
   (acknowledge_projection). *)
LEMMA ProjectionsStay ==
  ASSUME NEW c \in Client, Statement(c)
  PROVE  /\ InsertProjection(c) \/ projections' = projections
         /\ \A k \in DOMAIN projections : k \in DOMAIN projections' /\ projections'[k] = projections[k]
  <1>1. CASE InsertProjection(c)
    BY <1>1 DEF InsertProjection
  <1>2. CASE Writes(c) /\ ~InsertProjection(c)
    BY <1>2 DEF Writes, RecordUnchanged, PutChunk, PutObject, AckEvents, SettleOperation,
         InsertEvidence, DeleteEvidence, CollectEvents, StampEvents, DeleteEvents, StampObjects,
         DeleteObjects, StampChunks, DeleteChunks
  <1> QED
    BY <1>1, <1>2, StatementWrites DEF store

(* What a courier itself does (acknowledge_projection). *)
LEMMA ShownOfCourier ==
  ASSUME IInv, ProjectionResolves, ShownOK, NEW c \in Client, Statement(c),
         my[c].job = "project"
  PROVE  /\ pc'[c] \in {"show", "settle"} => operations'[my'[c].op].generation <= my'[c].base
         /\ pc'[c] = "show" /\ Valid(c)' => CanMean(my[c].commit, my[c].base, my[c].manifest)'
         /\ pc'[c] = "settle" => /\ my'[c].commit \in DOMAIN projections'
                                 /\ projections'[my'[c].commit].generation = my'[c].base
         /\ my'[c].base = my[c].base
  <1>0. /\ TypeOK /\ JobsOK /\ pc \in [Client -> Labels]
        /\ my[c].op \in Op /\ my[c].base \in Nat /\ my[c].commit \in Commit
    BY DEF IInv, JobsOK, TypeOK, ClientsType, Values
  <1>1. CASE CheckProjection(c)
    BY <1>0, <1>1 DEF CheckProjection, At, Goto, ReadOnly, store, CanMean, TypeOK, RowsType, Receipt
  <1>2. CASE InsertProjection(c)
    <2>1. /\ At(c, "show") /\ Valid(c) /\ my' = my /\ operations' = operations
          /\ pc'[c] = "settle"
          /\ projections' = [k \in DOMAIN projections \cup {my[c].commit} |->
                 IF k \in DOMAIN projections THEN projections[k]
                 ELSE [generation |-> my[c].base, manifest |-> my[c].manifest]]
      BY <1>0, <1>2 DEF InsertProjection, Goto
    <2>2. my[c].commit \in DOMAIN projections => projections[my[c].commit].generation = my[c].base
      <3>1. CanMean(my[c].commit, my[c].base, my[c].manifest)
        BY <2>1 DEF ShownOK, At
      <3> QED
        BY <3>1 DEF CanMean
    <2>3. operations[my[c].op].generation <= my[c].base
      BY <2>1 DEF ShownOK, At
    <2> QED
      BY <2>1, <2>2, <2>3
  <1>3. CASE ~CheckProjection(c) /\ ~InsertProjection(c)
    <2>1. pc[c] \notin PublishOnly \cup StagingLabels \cup CollectLabels \cup {"freeze", "pin"}
      BY <1>0 DEF JobsOK
    <2>2. DeleteEvidence(c) \/ AckEvents(c) \/ SettleOperation(c)
      BY <1>3, <2>1 DEF Statement, PublishStep, AcknowledgeStep, PinStep, CollectStep, Staging,
         CollectEvents, LookupReceipt, ReadHead, RecordUnchanged, LookupObjects, LookupChunks,
         LookupRows, StagingDone, PutChunk, PutObject, Verify, SendAdvance, FreezeEvidence,
         InsertEvidence, PlanRoots, PlanReach, StampEvents, DeleteEvents, DoomObjects,
         StampObjects, DeleteObjects, DoomChunks, StampChunks, DeleteChunks, At, PublishOnly,
         StagingLabels, CollectLabels
    <2> QED
      BY <1>0, <2>2 DEF DeleteEvidence, AckEvents, SettleOperation, Goto
  <1> QED
    BY <1>1, <1>2, <1>3

(* Couriers' promises survive the statements of all clients. *)
LEMMA ShownStatement ==
  ASSUME IInv, ProjectionResolves, ShownOK, NEW c \in Client, Statement(c)
  PROVE  ShownOK'
  <1>0. /\ TypeOK /\ JobsOK /\ FencesOK
        /\ head' = head /\ lease' = lease
        /\ \A d \in Client : my'[d].fence = my[d].fence /\ my'[d].job = my[d].job
        /\ my'[c].op = my[c].op /\ my'[c].commit = my[c].commit
    BY StatementMoves DEF IInv, Moves
  <1>1. JobsOK'
    BY <1>0, JobsStatement
  <1>2. ASSUME NEW d \in Client, my[d].job = "project"
        PROVE  /\ my'[d].base <= head.generation
               /\ pc'[d] \in {"show", "settle"} => operations'[my'[d].op].generation <= my'[d].base
               /\ pc'[d] = "show" /\ Valid(d)' => CanMean(my[d].commit, my[d].base, my[d].manifest)'
               /\ pc'[d] = "settle" => /\ my'[d].commit \in DOMAIN projections'
                                       /\ projections'[my'[d].commit].generation = my'[d].base
    <2>1. CASE d = c
      <3> QED
        BY <1>0, <1>2, <2>1, ShownOfCourier DEF ShownOK
    <2>2. CASE d # c
      <3>1. pc'[d] = pc[d] /\ my'[d] = my[d] /\ my[d].op \in Op
        BY <1>0, <1>2, <2>2, StatementMoves DEF Moves, JobsOK
      <3>2. pc[d] \in {"show", "settle"} => operations'[my[d].op].generation <= my[d].base
        BY <1>0, <3>1, ReceiptsFixed DEF ShownOK, JobsOK
      <3>3. InsertProjection(c) => ~Valid(d)
        <4>1. InsertProjection(c) => Valid(c) /\ my[c].fence # 0
          BY <1>0 DEF InsertProjection, At, FencesOK, Waiting
        <4> QED
          BY <1>0, <2>2, <4>1 DEF FencesOK, Valid, Live
      <3>4. \A k \in DOMAIN projections : k \in DOMAIN projections' /\ projections'[k] = projections[k]
        BY ProjectionsStay
      <3>5. Valid(d)' <=> Valid(d)
        BY <1>0 DEF Valid, Live
      <3>6. InsertProjection(c) \/ projections' = projections
        BY ProjectionsStay
      <3> QED
        BY <1>0, <1>2, <3>1, <3>2, <3>3, <3>4, <3>5, <3>6 DEF ShownOK, CanMean
    <2> QED
      BY <2>1, <2>2
  <1>3. \A d \in Client : pc'[d] \in {"show", "settle"} => my[d].job = "project"
    BY <1>0, <1>1 DEF JobsOK
  <1> QED
    BY <1>0, <1>2, <1>3 DEF ShownOK

(* An operation counts as shown only by the commit its courier inserted
   (acknowledge_projection). *)
LEMMA ResolvesStatement ==
  ASSUME IInv, ProjectionResolves, ShownOK, NEW c \in Client, Statement(c)
  PROVE  ProjectionResolves'
  <1>0. /\ TypeOK /\ JobsOK /\ head' = head /\ head.generation \in Nat
        /\ operations \in [Op -> Receipt]
    BY StatementMoves DEF IInv, Moves, TypeOK, RowsType
  <1>1. CASE SettleOperation(c)
    <2>1. /\ pc[c] = "settle" /\ my[c].job = "project" /\ my[c].op \in Op
          /\ my[c].base \in Nat /\ my[c].base <= head.generation
          /\ operations[my[c].op] \in Receipt \ {NoReceipt}
          /\ projections' = projections
      BY <1>0, <1>1 DEF SettleOperation, At, JobsOK, ShownOK, TypeOK, ClientsType, Values
    <2>2. /\ my[c].commit \in DOMAIN projections
          /\ projections[my[c].commit].generation = my[c].base
          /\ operations[my[c].op].generation <= my[c].base
      BY <2>1 DEF ShownOK
    <2>3. /\ operations'[my[c].op].projected = my[c].commit
          /\ operations'[my[c].op].shown = my[c].base
          /\ operations'[my[c].op].generation = operations[my[c].op].generation
          /\ \A o \in Op : o # my[c].op => operations'[o] = operations[o]
      BY <1>0, <1>1, <2>1 DEF SettleOperation, Receipt
    <2>4. operations[my[c].op].generation \in Nat
      BY <2>1 DEF Receipt
    <2> QED
      BY <1>0, <2>1, <2>2, <2>3, <2>4 DEF ProjectionResolves
  <1>2. CASE ~SettleOperation(c)
    <2>1. RecordUnchanged(c) \/ operations' = operations
      BY <1>2, StatementWrites DEF store, Writes, PutChunk, PutObject, AckEvents,
         InsertProjection, InsertEvidence, DeleteEvidence, CollectEvents, StampEvents,
         DeleteEvents, StampObjects, DeleteObjects, StampChunks, DeleteChunks
    <2>2. \A o \in Op : operations'[o] = operations[o] \/ operations'[o].projected = None
      BY <1>0, <2>1 DEF RecordUnchanged
    <2> QED
      BY <1>0, <2>2, ProjectionsStay, ResolvesKept
  <1> QED
    BY <1>1, <1>2

(* A courier offers the head that it read (acknowledge_projection). *)
LEMMA ShownCalls ==
  ASSUME TypeOK, ShownOK, Calls
  PROVE  ShownOK'
  <1>1. PICK c \in Client, v \in Values :
          /\ Begin(c, v) /\ ReadOnly
          /\ v.job = "project" => v.base <= head.generation
    BY CallBegins
  <1>2. /\ pc[c] = "idle" /\ pc' = [pc EXCEPT ![c] = "acquire"]
        /\ my' = [my EXCEPT ![c] = v] /\ UNCHANGED <<lease, head, operations, projections>>
    BY <1>1 DEF Begin, At, Goto, Keep, ReadOnly, store
  <1>3. pc \in [Client -> Labels] /\ my \in [Client -> Values]
    BY DEF TypeOK, ClientsType
  <1>4. /\ pc'[c] = "acquire" /\ my'[c] = v
        /\ \A d \in Client : d # c => pc'[d] = pc[d] /\ my'[d] = my[d]
    BY <1>2, <1>3
  <1> QED
    BY <1>1, <1>2, <1>4 DEF ShownOK, CanMean, Valid, Live

(* A takeover starts no courier at "show"; who leaves has no promise. *)
LEMMA ShownLeasing ==
  ASSUME TypeOK, JobsOK, FencesOK, ShownOK, Leasing
  PROVE  ShownOK'
  <1>0. /\ pc \in [Client -> Labels] /\ my \in [Client -> Values]
        /\ \A d \in Client : my[d] \in Values /\ my[d].fence <= lease.fence
        /\ lease \in [fence : Nat, purpose : {"gc", "write"}, live : BOOLEAN]
    BY DEF TypeOK, ClientsType, RowsType, FencesOK
  <1>1. CASE Expire
    BY <1>0, <1>1 DEF Expire, ShownOK, CanMean, Valid, Live, store
  <1>2. ASSUME NEW c \in Client, Acquire(c) PROVE ShownOK'
    <2>1. /\ pc'[c] = FirstStatement[my[c].job] /\ my[c].job \in DOMAIN FirstStatement
          /\ lease'.fence = lease.fence + 1
          /\ UNCHANGED <<head, operations, projections>>
      BY <1>0, <1>2 DEF Acquire, Goto, At, JobsOK, Values, Jobs, store
    <2>2. pc'[c] \notin {"show", "settle"}
      BY <2>1 DEF FirstStatement
    <2>2a. my[c].job = "project" => my[c].base <= head.generation
      BY DEF ShownOK
    <2>3. /\ my'[c].job = my[c].job /\ my'[c].base = my[c].base
          /\ \A d \in Client : d # c => pc'[d] = pc[d] /\ my'[d] = my[d]
      BY <1>0, <1>2 DEF Acquire, Goto, Values
    <2>4. \A d \in Client : d # c => ~Valid(d)'
      <3>1. \A d \in Client : my[d].fence \in Nat /\ my[d].fence # lease.fence + 1
        BY <1>0 DEF Values
      <3> QED
        BY <2>1, <2>3, <3>1 DEF Valid, Live
    <2> QED
      BY <2>1, <2>2, <2>2a, <2>3, <2>4 DEF ShownOK, CanMean
  <1>3. ASSUME NEW c \in Client, Leave(c) PROVE ShownOK'
    <2>1. /\ pc'[c] = "idle" /\ my'[c].job = "none"
          /\ \A d \in Client : d # c => pc'[d] = pc[d] /\ my'[d] = my[d]
          /\ UNCHANGED <<head, operations, projections>>
          /\ lease'.fence = lease.fence /\ (lease'.live => lease.live)
      BY <1>0, <1>3, IdleType DEF Leave, Goto, Keep, Idle, None, store
    <2> QED
      BY <2>1 DEF ShownOK, CanMean, Valid, Live
  <1> QED
    BY <1>1, <1>2, <1>3 DEF Leasing

(* A new generation is later than all that couriers offer (_advance). *)
LEMMA ShownDeliver ==
  ASSUME TypeOK, JobsOK, ShownOK, NEW s \in wire, Deliver(s)
  PROVE  ShownOK'
  <1>0. /\ head.generation \in Nat /\ head'.generation = head.generation + 1
        /\ \A d \in Client : my[d].base \in Nat
        /\ UNCHANGED <<lease, projections, pc, my>>
        /\ \A o \in Op : operations[o] # NoReceipt => operations'[o] = operations[o]
    BY DEF Deliver, Applicable, TypeOK, RowsType, ClientsType, Values
  <1>1. \A d \in Client : pc[d] \in {"show", "settle"} =>
          my[d].op \in Op /\ operations[my[d].op] # NoReceipt
    BY DEF JobsOK
  <1> QED
    BY <1>0, <1>1 DEF ShownOK, CanMean, Valid, Live
--------------------------------------------------------------------------------
(* MergedOK *)

PatchLabels == StagingLabels \cup {"verify", "advance"}

(* A publisher keeps the tree it merged until it sends it (publish_patch). *)
LEMMA MergedOfPublisher ==
  ASSUME TypeOK, JobsOK, MergedOK, NEW c \in Client, Statement(c),
         my[c].job = "publish", pc'[c] \in PatchLabels, my'[c].base = head.generation
  PROVE  Successor(my'[c].op, my'[c].manifest)
  <1>0. /\ pc \in [Client -> Labels] /\ my \in [Client -> Values] /\ my[c] \in Values
        /\ pc[c] \notin CollectLabels \cup CourierLabels \cup PinOnly
    BY DEF TypeOK, ClientsType, JobsOK
  <1>1. CASE ReadHead(c)
    BY <1>0, <1>1 DEF ReadHead, At, Goto, Values, Successor, PatchLabels, StagingLabels
  <1>2. CASE Staging(c) \/ Verify(c)
    <2>1. /\ pc[c] \in PatchLabels
          /\ my'[c].op = my[c].op /\ my'[c].base = my[c].base /\ my'[c].manifest = my[c].manifest
      BY <1>0, <1>2 DEF Staging, Verify, LookupObjects, LookupChunks, LookupRows, StagingDone,
         PutChunk, PutObject, At, Values, PatchLabels, StagingLabels
    <2> QED
      BY <2>1 DEF MergedOK, PatchLabels
  <1>3. CASE LookupReceipt(c) \/ RecordUnchanged(c) \/ SendAdvance(c)
    BY <1>0, <1>3 DEF LookupReceipt, RecordUnchanged, SendAdvance, Goto, PatchLabels, StagingLabels
  <1>4. \/ ReadHead(c) \/ Staging(c) \/ Verify(c)
        \/ LookupReceipt(c) \/ RecordUnchanged(c) \/ SendAdvance(c)
    BY <1>0 DEF Statement, PublishStep, AcknowledgeStep, PinStep, CollectStep, CollectEvents,
       AckEvents, CheckProjection, InsertProjection, SettleOperation, FreezeEvidence,
       InsertEvidence, DeleteEvidence, PlanRoots, PlanReach, StampEvents, DeleteEvents,
       DoomObjects, StampObjects, DeleteObjects, DoomChunks, StampChunks, DeleteChunks,
       At, CollectLabels, CourierLabels, PinOnly
  <1> QED
    BY <1>1, <1>2, <1>3, <1>4

(* A statement that grows the wire is the publisher's last (_advance). *)
LEMMA SendOnly ==
  ASSUME NEW c \in Client, Statement(c), NEW s \in wire', s \notin wire
  PROVE  /\ SendAdvance(c)
         /\ s = [fence |-> my[c].fence, op |-> my[c].op, base |-> my[c].base,
                 manifest |-> my[c].manifest]
  <1>1. CASE SendAdvance(c)
    BY <1>1 DEF SendAdvance
  <1>2. CASE ~SendAdvance(c)
    <2>1. wire' = wire
      BY <1>2 DEF Statement, PublishStep, AcknowledgeStep, PinStep, CollectStep, Staging,
         LookupReceipt, ReadHead, RecordUnchanged, LookupObjects, LookupChunks, LookupRows,
         StagingDone, PutChunk, PutObject, Verify, AckEvents, CheckProjection,
         InsertProjection, SettleOperation, FreezeEvidence, InsertEvidence, DeleteEvidence,
         PlanRoots, PlanReach, CollectEvents, StampEvents, DeleteEvents, DoomObjects, StampObjects,
         DeleteObjects, DoomChunks, StampChunks, DeleteChunks, ReadOnly
    <2> QED
      BY <2>1
  <1> QED
    BY <1>1, <1>2

(* Only its own client sends a merged tree (_advance). *)
LEMMA MergedStatement ==
  ASSUME TypeOK, JobsOK, MergedOK, NEW c \in Client, Statement(c)
  PROVE  MergedOK'
  <1>0. /\ head' = head /\ \A d \in Client : my'[d].job = my[d].job
        /\ \A d \in Client : d # c => pc'[d] = pc[d] /\ my'[d] = my[d]
    BY StatementMoves DEF Moves
  <1>1. ASSUME NEW d \in Client, my'[d].job = "publish", pc'[d] \in PatchLabels,
               my'[d].base = head'.generation
        PROVE  Successor(my'[d].op, my'[d].manifest)
    <2>1. CASE d = c
      BY <1>0, <1>1, <2>1, MergedOfPublisher
    <2>2. CASE d # c
      BY <1>0, <1>1, <2>2 DEF MergedOK, PatchLabels
    <2> QED
      BY <2>1, <2>2
  <1>2. ASSUME NEW s \in wire', s.base = head'.generation
        PROVE  Successor(s.op, s.manifest)
    <2>1. CASE s \in wire
      BY <1>0, <1>2, <2>1 DEF MergedOK
    <2>2. CASE s \notin wire
      <3>1. /\ SendAdvance(c)
            /\ s = [fence |-> my[c].fence, op |-> my[c].op, base |-> my[c].base,
                    manifest |-> my[c].manifest]
        BY <1>2, <2>2, SendOnly
      <3>2. pc[c] = "advance" /\ my[c].job = "publish"
        BY <3>1 DEF SendAdvance, At, JobsOK, PublishOnly
      <3>3. my[c].base = head.generation
        BY <1>0, <1>2, <3>1
      <3>4. s.op = my[c].op /\ s.manifest = my[c].manifest
        BY <3>1
      <3> QED
        BY <3>2, <3>3, <3>4 DEF MergedOK
    <2> QED
      BY <2>1, <2>2
  <1>3. \A m, o : Successor(o, m)' <=> Successor(o, m)
    BY <1>0 DEF Successor, Patch
  <1> QED
    BY <1>1, <1>2, <1>3 DEF MergedOK, PatchLabels

(* A call has merged nothing yet (maintenance). *)
LEMMA MergedCalls ==
  ASSUME TypeOK, MergedOK, Calls
  PROVE  MergedOK'
  <1>1. PICK c \in Client, v \in Values : Begin(c, v) /\ ReadOnly
    BY CallBegins
  <1>2. /\ pc'[c] = "acquire" /\ UNCHANGED <<head, wire>>
        /\ \A d \in Client : d # c => pc'[d] = pc[d] /\ my'[d] = my[d]
    BY <1>1 DEF Begin, Goto, Keep, ReadOnly, store, TypeOK, ClientsType
  <1> QED
    BY <1>2 DEF MergedOK, Successor, Patch, StagingLabels

(* The lease merges nothing (Lease). *)
LEMMA MergedLeasing ==
  ASSUME TypeOK, JobsOK, MergedOK, Leasing
  PROVE  MergedOK'
  <1>0. pc \in [Client -> Labels] /\ my \in [Client -> Values] /\ \A d \in Client : my[d] \in Values
    BY DEF TypeOK, ClientsType
  <1>1. CASE Expire
    BY <1>1 DEF Expire, MergedOK, Successor, Patch, store
  <1>2. ASSUME NEW c \in Client, Acquire(c) PROVE MergedOK'
    <2>1. /\ pc'[c] = FirstStatement[my[c].job] /\ my[c].job \in DOMAIN FirstStatement
          /\ UNCHANGED <<head, wire>>
          /\ \A d \in Client : d # c => pc'[d] = pc[d] /\ my'[d] = my[d]
      BY <1>0, <1>2 DEF Acquire, Goto, At, JobsOK, Values, Jobs, store
    <2>2. pc'[c] \notin PatchLabels
      BY <2>1 DEF FirstStatement, PatchLabels, StagingLabels
    <2> QED
      BY <2>1, <2>2 DEF MergedOK, Successor, Patch, PatchLabels
  <1>3. ASSUME NEW c \in Client, Leave(c) PROVE MergedOK'
    <2>1. /\ pc'[c] = "idle" /\ UNCHANGED <<head, wire>>
          /\ \A d \in Client : d # c => pc'[d] = pc[d] /\ my'[d] = my[d]
      BY <1>0, <1>3 DEF Leave, Goto, Keep, store
    <2> QED
      BY <2>1 DEF MergedOK, Successor, Patch, StagingLabels
  <1> QED
    BY <1>1, <1>2, <1>3 DEF Leasing

(* A new generation makes every older merge stale (_advance). *)
LEMMA MergedDeliver ==
  ASSUME TypeOK, JobsOK, WireOK, NEW s \in wire, Deliver(s)
  PROVE  MergedOK'
  <1>1. /\ head.generation \in Nat /\ head'.generation = head.generation + 1
        /\ UNCHANGED <<wire, pc, my>>
    BY DEF Deliver, Applicable, TypeOK, RowsType
  <1>2. \A d \in Client : my[d].job = "publish" =>
          my[d].base \in Nat /\ my[d].base <= head.generation
    BY <1>1 DEF JobsOK
  <1>3. \A x \in wire : x.base \in Nat /\ x.base <= head.generation
    BY DEF WireOK, TypeOK, ClientsType
  <1> QED
    BY <1>1, <1>2, <1>3 DEF MergedOK
--------------------------------------------------------------------------------
(* HistoryOK *)

(* A statement changes nothing of what the receipts say, except that a patch
   which changes no file gets one (publish_patch). *)
LEMMA OperationsStatement ==
  ASSUME TypeOK, JobsOK, NEW c \in Client, Statement(c)
  PROVE  \/ \A o \in Op : /\ operations'[o] = NoReceipt <=> operations[o] = NoReceipt
                          /\ operations'[o].state = operations[o].state
                          /\ operations[o] # NoReceipt =>
                               /\ operations'[o].generation = operations[o].generation
                               /\ operations'[o].manifest = operations[o].manifest
         \/ /\ RecordUnchanged(c) /\ my[c].op \in Op /\ operations[my[c].op] = NoReceipt
            /\ operations' = [operations EXCEPT ![my[c].op] =
                 [state |-> "unchanged", generation |-> my[c].base,
                  manifest |-> my[c].manifest, projected |-> None, shown |-> 0]]
  <1>0. operations \in [Op -> Receipt]
    BY DEF TypeOK, RowsType
  <1>1. CASE RecordUnchanged(c)
    <2>1. my[c].op \in Op
      BY <1>1 DEF RecordUnchanged, At, JobsOK, PublishOnly
    <2> QED
      BY <1>1, <2>1 DEF RecordUnchanged
  <1>2. CASE SettleOperation(c)
    <2>1. my[c].op \in Op /\ operations[my[c].op] \in Receipt \ {NoReceipt}
      BY <1>0, <1>2 DEF SettleOperation, At, JobsOK
    <2>2. \A o \in Op : o # my[c].op => operations'[o] = operations[o]
      BY <1>0, <1>2, <2>1 DEF SettleOperation
    <2>3. operations'[my[c].op] # NoReceipt
      BY <2>1, ReceiptsFixed
    <2> QED
      BY <2>1, <2>2, <2>3, ReceiptsFixed
  <1>3. CASE ~RecordUnchanged(c) /\ ~SettleOperation(c)
    <2>1. operations' = operations
      BY <1>3, StatementWrites DEF store, Writes, PutChunk, PutObject, AckEvents,
         InsertProjection, InsertEvidence, DeleteEvidence, CollectEvents, StampEvents,
         DeleteEvents, StampObjects, DeleteObjects, StampChunks, DeleteChunks
    <2> QED
      BY <2>1
  <1> QED
    BY <1>1, <1>2, <1>3

(* So no statement makes or unmakes a generation. *)
LEMMA MadeStatement ==
  ASSUME TypeOK, JobsOK, NEW c \in Client, Statement(c), NEW o \in Op
  PROVE  /\ operations'[o].state = "changed" <=> operations[o].state = "changed"
         /\ operations[o].state = "changed" =>
              /\ operations'[o].generation = operations[o].generation
              /\ operations'[o].manifest = operations[o].manifest
  <1>1. /\ operations \in [Op -> Receipt]
        /\ operations[o].state = "changed" => operations[o] # NoReceipt
    BY DEF TypeOK, RowsType, NoReceipt
  <1>2. CASE /\ RecordUnchanged(c) /\ my[c].op \in Op /\ operations[my[c].op] = NoReceipt
             /\ operations' = [operations EXCEPT ![my[c].op] =
                  [state |-> "unchanged", generation |-> my[c].base,
                   manifest |-> my[c].manifest, projected |-> None, shown |-> 0]]
    <2>1. CASE o = my[c].op
      BY <1>1, <1>2, <2>1 DEF NoReceipt
    <2>2. CASE o # my[c].op
      BY <1>1, <1>2, <2>2
    <2> QED
      BY <2>1, <2>2
  <1> QED
    BY <1>1, <1>2, OperationsStatement

(* The history survives the statements of all clients (radar_operations). *)
LEMMA HistoryStatement ==
  ASSUME TypeOK, JobsOK, HistoryOK, NEW c \in Client, Statement(c)
  PROVE  HistoryOK'
  <1> USE DEF Made
  <1>0. head' = head /\ head.generation \in Nat
    BY StatementMoves DEF Moves, TypeOK, RowsType
  <1>2. ASSUME NEW o \in Op, operations'[o] # NoReceipt
        PROVE  operations'[o].generation <= head.generation
    <2>1. CASE operations[o] # NoReceipt
      BY <2>1, ReceiptsFixed DEF HistoryOK
    <2>2. CASE operations[o] = NoReceipt
      <3>1. /\ RecordUnchanged(c) /\ my[c].op \in Op
            /\ operations' = [operations EXCEPT ![my[c].op] =
                 [state |-> "unchanged", generation |-> my[c].base,
                  manifest |-> my[c].manifest, projected |-> None, shown |-> 0]]
        BY <1>2, <2>2, OperationsStatement
      <3>2. o = my[c].op /\ operations'[o].generation = my[c].base
        BY <1>2, <2>2, <3>1 DEF TypeOK, RowsType
      <3>3. my[c].base \in 1..head.generation
        BY <3>1 DEF RecordUnchanged, At, JobsOK, PublishOnly
      <3> QED
        BY <1>0, <3>2, <3>3
    <2> QED
      BY <2>1, <2>2
  <1>3. \A g \in 2..head'.generation : \E o \in Op : Made(o, g)'
    <2>1. ASSUME NEW g \in 2..head.generation
          PROVE  \E o \in Op : operations'[o].state = "changed" /\ operations'[o].generation = g
      <3>1. PICK o \in Op : operations[o].state = "changed" /\ operations[o].generation = g
        BY DEF HistoryOK
      <3> QED
        BY <3>1, MadeStatement
    <2> QED
      BY <1>0, <2>1
  <1>4. \A o, p \in Op : \A g \in 2..head'.generation : Made(o, g)' /\ Made(p, g)' => o = p
    <2>1. ASSUME NEW o \in Op, NEW p \in Op, NEW g \in 2..head.generation,
                 operations'[o].state = "changed", operations'[o].generation = g,
                 operations'[p].state = "changed", operations'[p].generation = g
          PROVE  o = p
      <3>1. /\ operations[o].state = "changed" /\ operations[o].generation = g
            /\ operations[p].state = "changed" /\ operations[p].generation = g
        BY <2>1, MadeStatement
      <3> QED
        BY <3>1 DEF HistoryOK
    <2> QED
      BY <1>0, <2>1
  <1>5. /\ \A o \in Op : operations'[o].state = "changed" => operations'[o].generation >= 2
        /\ \A o \in Op : Made(o, head.generation)' => operations'[o].manifest = head'.manifest
        /\ head'.generation = 1 => head'.manifest = InitialManifest
    BY <1>0, MadeStatement DEF HistoryOK
  <1> QED
    BY <1>0, <1>2, <1>3, <1>4, <1>5 DEF HistoryOK

(* What an evaluated CAS does to the receipts and the head (_advance). *)
LEMMA DeliverEffect ==
  ASSUME IInv, NEW s \in wire, Deliver(s)
  PROVE  /\ head.generation \in Nat \ {0} /\ s.base = head.generation /\ s.op \in Op
         /\ head'.generation = head.generation + 1 /\ head'.manifest = s.manifest
         /\ operations[s.op] = NoReceipt
         /\ operations'[s.op].state = "changed" /\ operations'[s.op] # NoReceipt
         /\ operations'[s.op].generation = head.generation + 1
         /\ operations'[s.op].manifest = s.manifest
         /\ operations'[s.op].projected = None
         /\ \A o \in Op : o # s.op => operations'[o] = operations[o]
  BY DEF IInv, Deliver, Applicable, TypeOK, RowsType, ClientsType, NoReceipt

(* The new generation is made by the operation of the CAS, and no other. *)
LEMMA HistoryDeliver ==
  ASSUME IInv, HistoryOK, NEW s \in wire, Deliver(s)
  PROVE  HistoryOK'
  <1> USE DEF Made
  <1> DEFINE n == head.generation
  <1>0. /\ n \in Nat \ {0} /\ s.op \in Op
        /\ head'.generation = n + 1 /\ head'.manifest = s.manifest
        /\ operations'[s.op].state = "changed" /\ operations'[s.op] # NoReceipt
        /\ operations'[s.op].generation = n + 1
        /\ operations'[s.op].manifest = s.manifest
        /\ \A o \in Op : o # s.op => operations'[o] = operations[o]
        /\ operations[s.op].state = "none"
    BY DeliverEffect DEF NoReceipt
  <1>t. \A o \in Op : operations[o].state = "changed" =>
          operations[o] # NoReceipt /\ operations[o].generation \in Nat
    BY DEF IInv, TypeOK, RowsType, Receipt, NoReceipt
  <1>1. \A o \in Op : operations[o].state = "changed" =>
          operations[o].generation <= n /\ operations[o].generation # n + 1
    BY <1>0, <1>t DEF HistoryOK
  <1>2. \A g \in 2..head'.generation : \E o \in Op : Made(o, g)'
    <2>1. ASSUME NEW g \in 2..n
          PROVE  \E o \in Op : operations'[o].state = "changed" /\ operations'[o].generation = g
      <3>1. PICK o \in Op : operations[o].state = "changed" /\ operations[o].generation = g
        BY DEF HistoryOK
      <3> QED
        BY <1>0, <3>1
    <2>2. \A g \in 2..n+1 : g \in 2..n \/ g = n + 1
      BY <1>0
    <2> QED
      BY <1>0, <2>1, <2>2
  <1>3. \A o, p \in Op : \A g \in 2..head'.generation : Made(o, g)' /\ Made(p, g)' => o = p
    <2>1. ASSUME NEW o \in Op, NEW p \in Op, NEW g \in 2..n+1,
                 operations'[o].state = "changed", operations'[o].generation = g,
                 operations'[p].state = "changed", operations'[p].generation = g
          PROVE  o = p
      <3>1. CASE g = n + 1
        BY <1>0, <1>1, <2>1, <3>1
      <3>2. CASE g # n + 1
        <4>1. g \in 2..n /\ o # s.op /\ p # s.op
          BY <1>0, <2>1, <3>2
        <4>2. /\ operations[o].state = "changed" /\ operations[o].generation = g
              /\ operations[p].state = "changed" /\ operations[p].generation = g
          BY <1>0, <2>1, <4>1
        <4> QED
          BY <4>1, <4>2 DEF HistoryOK
      <3> QED
        BY <3>1, <3>2
    <2> QED
      BY <1>0, <2>1
  <1>4. \A o \in Op : operations'[o] # NoReceipt => operations'[o].generation <= head'.generation
    <2>1. ASSUME NEW o \in Op, o # s.op, operations'[o] # NoReceipt
          PROVE  operations'[o].generation <= n + 1
      <3>1. operations[o].generation <= n /\ operations[o].generation \in Nat
        BY <1>0, <2>1 DEF HistoryOK, IInv, TypeOK, RowsType, Receipt
      <3> QED
        BY <1>0, <2>1, <3>1
    <2> QED
      BY <1>0, <2>1
  <1>5. /\ \A o \in Op : operations'[o].state = "changed" => operations'[o].generation >= 2
        /\ \A o \in Op : Made(o, head.generation)' => operations'[o].manifest = head'.manifest
        /\ head'.generation = 1 => head'.manifest = InitialManifest
    BY <1>0, <1>1 DEF HistoryOK
  <1> QED
    BY <1>2, <1>3, <1>4, <1>5 DEF HistoryOK
--------------------------------------------------------------------------------
(* LedgerInv is inductive, given IInv: one step per disjunct of Next. *)
LEMMA LedgerNext == IInv /\ LedgerInv /\ [Next]_vars => LedgerInv'
  <1> SUFFICES ASSUME IInv, LedgerInv, [Next]_vars PROVE LedgerInv'
    OBVIOUS
  <1>0. /\ TypeOK /\ FencesOK /\ JobsOK /\ WireOK
        /\ QueueIsSuffix /\ ProjectionResolves /\ ShownOK /\ HistoryOK /\ MergedOK
    BY DEF IInv, LedgerInv
  <1>s. ASSUME UNCHANGED store PROVE QueueIsSuffix' /\ ProjectionResolves' /\ HistoryOK'
    BY <1>0, <1>s DEF store, QueueIsSuffix, ProjectionResolves, HistoryOK, Made
  <1>1. CASE Calls
    <2>1. UNCHANGED store
      BY <1>0, <1>1, CallBegins DEF ReadOnly
    <2> QED
      BY <1>0, <1>1, <1>s, <2>1, ShownCalls, MergedCalls DEF LedgerInv
  <1>2. CASE Leasing
    <2>1. UNCHANGED store
      BY <1>2 DEF Leasing, Expire, Acquire, Leave
    <2> QED
      BY <1>0, <1>2, <1>s, <2>1, ShownLeasing, MergedLeasing DEF LedgerInv
  <1>3. ASSUME NEW c \in Client, Statement(c) PROVE LedgerInv'
    BY <1>0, <1>3, QueueStatement, ResolvesStatement, ShownStatement, HistoryStatement,
       MergedStatement DEF LedgerInv
  <1>4. ASSUME NEW s \in wire, Deliver(s) PROVE LedgerInv'
    <2>1. ProjectionResolves'
      <3>1. head'.generation \in Nat /\ head'.generation >= head.generation
        BY <1>4, DeliverEffect
      <3>2. \A o \in Op : operations'[o] = operations[o] \/ operations'[o].projected = None
        BY <1>4, DeliverEffect
      <3>3. projections' = projections
        BY <1>4 DEF Deliver
      <3> QED
        BY <1>0, <3>1, <3>2, <3>3, ResolvesKept
    <2> QED
      BY <1>0, <1>4, <2>1, QueueDeliver, ShownDeliver, HistoryDeliver, MergedDeliver DEF LedgerInv
  <1>5. CASE UNCHANGED vars
    <2>1. ShownOK' /\ MergedOK'
      BY <1>0, <1>5 DEF vars, ShownOK, CanMean, Valid, Live, MergedOK, Successor, Patch
    <2> QED
      BY <1>5, <1>s, <2>1 DEF vars, store, LedgerInv
  <1> QED
    BY <1>1, <1>2, <1>3, <1>4, <1>5 DEF Next

(* LedgerInv holds in every execution. *)
LEMMA LedgerAlways == Spec => [](IInv /\ LedgerInv)
  <1>1. Init => IInv /\ LedgerInv
    BY InvInit, LedgerInit
  <1>2. (IInv /\ LedgerInv) /\ [Next]_vars => (IInv /\ LedgerInv)'
    BY InvNext, LedgerNext
  <1> QED
    BY <1>1, <1>2, PTL DEF Spec

(* What the standby has not acknowledged is an unbroken suffix of the
   history, whoever acknowledges or collects, and when (_ack,
   garbage_collect, the source_event trigger). *)
THEOREM SuffixAlways == Spec => []QueueIsSuffix
  <1>1. LedgerInv => QueueIsSuffix
    BY DEF LedgerInv
  <1> QED
    BY <1>1, LedgerAlways, PTL

(* A commit that an operation names resolves to a generation that contains
   the operation (acknowledge_projection, resolve_git_revision). *)
THEOREM ResolvesAlways == Spec => []ProjectionResolves
  <1>1. LedgerInv => ProjectionResolves
    BY DEF LedgerInv
  <1> QED
    BY <1>1, LedgerAlways, PTL
--------------------------------------------------------------------------------
(* The refinement of VersionedSource *)

(* The tree of a generation, as the receipts remember it. *)
Entry(g) == IF g = 1 THEN InitialManifest ELSE operations[ChangeAt(g)].manifest
Published == [o \in Op |-> IF operations[o] = NoReceipt THEN 0 ELSE operations[o].generation]

(* The receipt of a generation is the one that made it. *)
LEMMA TheOneThatMade ==
  ASSUME NEW f, NEW g, NEW o \in Op, f[o].state = "changed", f[o].generation = g,
         \A p \in Op : f[p].state = "changed" /\ f[p].generation = g => p = o
  PROVE  (CHOOSE x \in Op : f[x].state = "changed" /\ f[x].generation = g) = o
  OBVIOUS

(* The history is the entries of its generations and ends with the head. *)
LEMMA HistoryShape ==
  ASSUME TypeOK, HistoryOK
  PROVE  /\ History \in Seq(Manifest)
         /\ Len(History) = head.generation
         /\ \A g \in 1..head.generation : History[g] = Entry(g) /\ Entry(g) \in Manifest
         /\ History[Len(History)] = head.manifest
  <1>0. /\ head.generation \in Nat \ {0} /\ operations \in [Op -> Receipt]
        /\ InitialManifest \in Manifest
    BY DEF TypeOK, RowsType
  <1>1. ASSUME NEW g \in 2..head.generation
        PROVE  /\ Entry(g) \in Manifest
               /\ g = head.generation => Entry(g) = head.manifest
    <2>1. PICK o \in Op : operations[o].state = "changed" /\ operations[o].generation = g
      BY DEF HistoryOK, Made
    <2>2. \A p \in Op : operations[p].state = "changed" /\ operations[p].generation = g => p = o
      BY <2>1 DEF HistoryOK, Made
    <2>3. ChangeAt(g) = o
      BY <2>1, <2>2, TheOneThatMade DEF ChangeAt
    <2>4. operations[o] \in Receipt \ {NoReceipt}
      BY <1>0, <2>1 DEF NoReceipt
    <2>5. g # 1
      BY <1>0
    <2>6. Entry(g) = operations[o].manifest
      BY <2>3, <2>5 DEF Entry
    <2> QED
      BY <2>1, <2>4, <2>6 DEF Receipt, HistoryOK, Made
  <1>2. Entry(1) = InitialManifest /\ (head.generation = 1 => head.manifest = InitialManifest)
    BY DEF Entry, HistoryOK
  <1>3. \A g \in 1..head.generation : Entry(g) \in Manifest /\ (g = 1 \/ g \in 2..head.generation)
    BY <1>0, <1>1, <1>2
  <1>4. Entry(head.generation) = head.manifest
    BY <1>0, <1>1, <1>2
  <1>5. History = [g \in 1..head.generation |-> Entry(g)]
    BY DEF History, Entry
  <1>6. History \in [1..head.generation -> Manifest]
    BY <1>3, <1>5
  <1>7. History \in Seq(Manifest) /\ Len(History) = head.generation
    BY <1>0, <1>5, <1>6
  <1> HIDE DEF Entry
  <1> QED
    BY <1>0, <1>3, <1>4, <1>5, <1>7

(* Old generations keep their trees: the history is append-only. *)
LEMMA EntriesStay ==
  ASSUME TypeOK, HistoryOK, HistoryOK', head'.generation \in Nat,
         head'.generation >= head.generation,
         \A o \in Op : operations[o].state = "changed" =>
            /\ operations'[o].state = "changed"
            /\ operations'[o].generation = operations[o].generation
            /\ operations'[o].manifest = operations[o].manifest,
         NEW g \in 1..head.generation
  PROVE  Entry(g)' = Entry(g)
  <1>0. head.generation \in Nat
    BY DEF TypeOK, RowsType
  <1>1. CASE g = 1
    BY <1>1 DEF Entry
  <1>2. CASE g # 1
    <2>0. g \in 2..head.generation /\ g \in 2..head'.generation
      BY <1>0, <1>2
    <2>1. PICK o \in Op : operations[o].state = "changed" /\ operations[o].generation = g
      BY <2>0 DEF HistoryOK, Made
    <2>2. \A p \in Op : operations[p].state = "changed" /\ operations[p].generation = g => p = o
      BY <2>0, <2>1 DEF HistoryOK, Made
    <2>3. operations'[o].state = "changed" /\ operations'[o].generation = g
      BY <2>1
    <2>4. \A p \in Op : operations'[p].state = "changed" /\ operations'[p].generation = g => p = o
      BY <2>0, <2>3 DEF HistoryOK, Made
    <2>5. ChangeAt(g) = o
      BY <2>1, <2>2, TheOneThatMade DEF ChangeAt
    <2>6. (CHOOSE x \in Op : operations'[x].state = "changed" /\ operations'[x].generation = g) = o
      BY <2>3, <2>4, TheOneThatMade
    <2>7. ChangeAt(g)' = o
      BY <2>6 DEF ChangeAt
    <2> QED
      BY <1>2, <2>1, <2>5, <2>7 DEF Entry
  <1> QED
    BY <1>1, <1>2

(* A step that neither makes a generation nor writes a new receipt is a
   stutter of the abstract source. *)
LEMMA SourceStutters ==
  ASSUME TypeOK, HistoryOK, HistoryOK', head' = head,
         \A o \in Op : /\ operations'[o] = NoReceipt <=> operations[o] = NoReceipt
                       /\ operations'[o].state = operations[o].state
                       /\ operations[o] # NoReceipt =>
                            /\ operations'[o].generation = operations[o].generation
                            /\ operations'[o].manifest = operations[o].manifest
  PROVE  History' = History /\ Published' = Published
  <1>0. head.generation \in Nat
    BY DEF TypeOK, RowsType
  <1>1. \A o \in Op : operations[o].state = "changed" => operations[o] # NoReceipt
    BY DEF NoReceipt
  <1>2. ASSUME NEW g \in 1..head.generation PROVE Entry(g)' = Entry(g)
    <2>1. \A o \in Op : operations[o].state = "changed" =>
            /\ operations'[o].state = "changed"
            /\ operations'[o].generation = operations[o].generation
            /\ operations'[o].manifest = operations[o].manifest
      BY <1>1
    <2>2. head'.generation \in Nat /\ head'.generation >= head.generation
      BY <1>0
    <2> QED
      BY <2>1, <2>2, EntriesStay
  <1>3. History' = History
    <2>1. /\ History = [g \in 1..head.generation |-> Entry(g)]
          /\ History' = [g \in 1..head.generation |-> Entry(g)']
      BY DEF History, Entry
    <2>2. \A g \in 1..head.generation : Entry(g)' = Entry(g)
      BY <1>2
    <2> QED
      BY <2>1, <2>2
  <1> QED
    BY <1>3 DEF Published

(* An evaluated CAS is the effect of its operation (_advance). *)
LEMMA SourceEffect ==
  ASSUME IInv, LedgerInv, HistoryOK', NEW s \in wire, Deliver(s)
  PROVE  /\ Published[s.op] = 0
         /\ Patch(s.op, History[Len(History)]) # History[Len(History)]
         /\ History' = Append(History, Patch(s.op, History[Len(History)]))
         /\ Published' = [Published EXCEPT ![s.op] = Len(History) + 1]
  <1> DEFINE n == head.generation
  <1>0. /\ n \in Nat \ {0} /\ s.base = n /\ s.op \in Op
        /\ head'.generation = n + 1 /\ head'.manifest = s.manifest
        /\ operations[s.op] = NoReceipt
        /\ operations'[s.op].state = "changed" /\ operations'[s.op] # NoReceipt
        /\ operations'[s.op].generation = n + 1
        /\ operations'[s.op].manifest = s.manifest
        /\ \A o \in Op : o # s.op => operations'[o] = operations[o]
    BY DeliverEffect
  <1>1. TypeOK /\ HistoryOK /\ s.manifest \in Manifest
    BY DEF IInv, LedgerInv, TypeOK, ClientsType
  <1>2. /\ History \in Seq(Manifest) /\ Len(History) = n
        /\ History[Len(History)] = head.manifest
        /\ \A g \in 1..n : History[g] = Entry(g)
    BY <1>1, HistoryShape
  <1>3. s.manifest = Patch(s.op, head.manifest) /\ s.manifest # head.manifest
    BY <1>0 DEF LedgerInv, MergedOK, Successor
  <1>4. ASSUME NEW g \in 1..n PROVE Entry(g)' = Entry(g)
    <2>1. \A o \in Op : operations[o].state = "changed" =>
            /\ operations'[o].state = "changed"
            /\ operations'[o].generation = operations[o].generation
            /\ operations'[o].manifest = operations[o].manifest
      BY <1>0 DEF NoReceipt
    <2>2. head'.generation \in Nat /\ head'.generation >= n
      BY <1>0
    <2> QED
      BY <1>1, <2>1, <2>2, EntriesStay
  <1>5. PICK k \in Nat : k = n + 1
    BY <1>0
  <1>6. Entry(k)' = s.manifest
    <2>1. k \in 2..head'.generation /\ k # 1
      BY <1>0, <1>5
    <2>2. \A p \in Op : operations'[p].state = "changed" /\ operations'[p].generation = k => p = s.op
      BY <1>0, <1>5, <2>1 DEF HistoryOK, Made
    <2>3. (CHOOSE x \in Op : operations'[x].state = "changed" /\ operations'[x].generation = k) = s.op
      BY <1>0, <1>5, <2>2, TheOneThatMade
    <2>4. ChangeAt(k)' = s.op
      BY <2>3 DEF ChangeAt
    <2> QED
      BY <1>0, <2>1, <2>4 DEF Entry
  <1>7. History' = Append(History, s.manifest)
    <2>1. History' = [g \in 1..head'.generation |-> Entry(g)']
      BY DEF History, Entry
    <2>2. History' = [g \in 1..k |-> IF g = k THEN s.manifest ELSE History[g]]
      <3>1. \A g \in 1..k : g = k \/ g \in 1..n
        BY <1>0, <1>5
      <3>2. \A g \in 1..k : Entry(g)' = IF g = k THEN s.manifest ELSE History[g]
        BY <1>2, <1>4, <1>6, <3>1
      <3> QED
        BY <1>0, <1>5, <2>1, <3>2
    <2>3. /\ Append(History, s.manifest) \in Seq(Manifest)
          /\ Len(Append(History, s.manifest)) = k
          /\ \A g \in 1..n : Append(History, s.manifest)[g] = History[g]
          /\ Append(History, s.manifest)[k] = s.manifest
      BY <1>1, <1>2, <1>5, AppendProperties
    <2>4. \A g \in 1..k : g = k \/ g \in 1..n
      BY <1>0, <1>5
    <2>5. Append(History, s.manifest) =
            [g \in 1..k |-> Append(History, s.manifest)[g]]
      BY <2>3, LenProperties
    <2> QED
      BY <2>2, <2>3, <2>4, <2>5
  <1>8. Published' = [Published EXCEPT ![s.op] = n + 1]
    BY <1>0, <1>5 DEF Published
  <1> QED
    BY <1>0, <1>2, <1>3, <1>7, <1>8 DEF Published

(* The receipt of a patch that changes no file names the head (publish_patch). *)
LEMMA SourceNoEffect ==
  ASSUME IInv, LedgerInv, HistoryOK', NEW c \in Client, RecordUnchanged(c),
         Statement(c), NEW o \in Op, o = my[c].op, operations[o] = NoReceipt
  PROVE  /\ Published[o] = 0
         /\ Patch(o, History[Len(History)]) = History[Len(History)]
         /\ Published' = [Published EXCEPT ![o] = Len(History)]
         /\ History' = History
  <1>0. /\ TypeOK /\ JobsOK /\ HistoryOK /\ head' = head
        /\ head.generation \in Nat \ {0} /\ operations \in [Op -> Receipt]
    BY DEF IInv, LedgerInv, RecordUnchanged, TypeOK, RowsType
  <1>1. /\ History \in Seq(Manifest) /\ Len(History) = head.generation
        /\ History[Len(History)] = head.manifest
    BY <1>0, HistoryShape
  <1>2. Merged(c) /\ pc[c] = "record" /\ my[c].job = "publish"
    BY <1>0 DEF IInv, TenureOK, RecordUnchanged, At, JobsOK, PublishOnly
  <1>3. /\ my[c].base = head.generation
        /\ Patch(o, head.manifest) = head.manifest
    BY <1>2 DEF Merged
  <1>4. operations' = [operations EXCEPT ![o] =
                         [state |-> "unchanged", generation |-> my[c].base,
                          manifest |-> my[c].manifest, projected |-> None, shown |-> 0]]
    BY DEF RecordUnchanged
  <1>5. Published' = [Published EXCEPT ![o] = head.generation]
    <2>1. /\ operations'[o] # NoReceipt
          /\ operations'[o].generation = head.generation
          /\ \A x \in Op : x # o => operations'[x] = operations[x]
      BY <1>0, <1>3, <1>4 DEF NoReceipt
    <2> QED
      BY <2>1 DEF Published
  <1>6. History' = History
    <2>1. ASSUME NEW g \in 1..head.generation PROVE Entry(g)' = Entry(g)
      <3>1. \A x \in Op : operations[x].state = "changed" =>
              /\ operations'[x].state = "changed"
              /\ operations'[x].generation = operations[x].generation
              /\ operations'[x].manifest = operations[x].manifest
        BY <1>0, MadeStatement
      <3>2. head'.generation \in Nat /\ head'.generation >= head.generation
        BY <1>0
      <3> QED
        BY <1>0, <3>1, <3>2, EntriesStay
    <2>2. /\ History = [g \in 1..head.generation |-> Entry(g)]
          /\ History' = [g \in 1..head.generation |-> Entry(g)']
      BY <1>0 DEF History, Entry
    <2>3. \A g \in 1..head.generation : Entry(g)' = Entry(g)
      BY <2>1
    <2> QED
      BY <2>2, <2>3
  <1> QED
    BY <1>0, <1>1, <1>3, <1>5, <1>6 DEF Published

(* Every execution of the store is one of the append-only source, in which an
   operation takes effect at most once and on the generation before it
   (publish_patch, _advance, radar_operations). *)
THEOREM StoreIsVersioned == Spec => ImplementsSource
  <1>1. Init => Source!AInit
    <2> SUFFICES ASSUME Init PROVE Source!AInit
      OBVIOUS
    <2>1. head.generation = 1 /\ \A o \in Op : operations[o] = NoReceipt
      BY DEF Init
    <2>2. History = <<InitialManifest>>
      BY <2>1 DEF History
    <2> QED
      BY <2>1, <2>2 DEF Source!AInit
  <1>2. IInv /\ LedgerInv /\ LedgerInv' /\ [Next]_vars => [Source!ANext]_(Source!absVars)
    <2> SUFFICES ASSUME IInv, LedgerInv, LedgerInv', [Next]_vars
                 PROVE  Source!ANext \/ (History' = History /\ Published' = Published)
      BY DEF Source!absVars, Published
    <2>0. TypeOK /\ JobsOK /\ HistoryOK /\ HistoryOK'
      BY DEF IInv, LedgerInv
    <2>1. ASSUME NEW c \in Client, Statement(c)
          PROVE  Source!ANext \/ (History' = History /\ Published' = Published)
      <3>1. CASE RecordUnchanged(c) /\ my[c].op \in Op /\ operations[my[c].op] = NoReceipt
        <4>1. PICK o \in Op : o = my[c].op
          BY <3>1
        <4>2. Source!NoEffect(o)
          BY <2>0, <2>1, <3>1, <4>1, SourceNoEffect DEF Source!NoEffect, Source!Current, Published
        <4> QED
          BY <4>2 DEF Source!ANext
      <3>2. CASE ~(RecordUnchanged(c) /\ my[c].op \in Op /\ operations[my[c].op] = NoReceipt)
        <4>1. head' = head
          BY <2>0, <2>1, StatementMoves DEF Moves
        <4> QED
          BY <2>0, <2>1, <3>2, <4>1, OperationsStatement, SourceStutters
      <3> QED
        BY <3>1, <3>2
    <2>2. ASSUME NEW s \in wire, Deliver(s)
          PROVE  Source!ANext
      <3>1. s.op \in Op
        BY <2>2, DeliverEffect
      <3>2. Source!Effect(s.op)
        BY <2>0, <2>2, SourceEffect DEF Source!Effect, Source!Current, Published
      <3> QED
        BY <3>1, <3>2 DEF Source!ANext
    <2>3. CASE Calls \/ Leasing \/ UNCHANGED vars
      <3>1. UNCHANGED store
        BY <2>0, <2>3, CallBegins DEF ReadOnly, Leasing, Expire, Acquire, Leave, vars, store
      <3> QED
        BY <3>1 DEF store, History, ChangeAt, Published
    <2> QED
      BY <2>1, <2>2, <2>3 DEF Next
  <1> QED
    BY <1>1, <1>2, LedgerAlways, PTL DEF Spec, ImplementsSource, Source!ASpec
================================================================================
