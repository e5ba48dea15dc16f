------------------------------ MODULE PrimaryStore ------------------------------
(***************************************************************************)
(* The authoritative document store of one ACTIVATED source namespace      *)
(* (radar_core/storage/documents.py and primary_store.py): the head row,   *)
(* the content-addressed objects and chunks, the outbox, the operation     *)
(* receipts, the evidence pins, and the clients that publish, acknowledge, *)
(* project, pin and collect garbage against it.                            *)
(*                                                                         *)
(* One action is one SQL statement (a transport batch is not a             *)
(* transaction), evaluated by the database with the schema v2 triggers.    *)
(* A client may be suspended between any two statements for longer than    *)
(* its lease lives, may stop at any point, and a head CAS it sent may be   *)
(* evaluated late or more than once.                                       *)
(*                                                                         *)
(* Abstractions: a fence stands for the pair (owner, fence), since every   *)
(* takeover increments the fence; time is the step Expire; an object is    *)
(* stored in one chunk named like it; capture times are left out because   *)
(* publish_patch clamps them to the head's; a client reads several tables  *)
(* in one step where only holders of the live lease can change them.       *)
(***************************************************************************)
EXTENDS Naturals, FiniteSets, Sequences

CONSTANTS
  Publisher,        \* processes that call publish_patch
  Collector,        \* processes that call garbage_collect
  Courier,          \* processes that acknowledge: _ack, acknowledge_projection
  Pinner,           \* processes that call pin_evidence and release_evidence
  Op,               \* operation identifiers, one frozen payload each
  GitOp,            \* the operations with delivery_target = 'git'
  Path, Content,    \* file names and file bytes
  Absent,           \* the value of a path that is not in a manifest
  ChangeOf,         \* ChangeOf[op]: the path an operation writes or deletes
  InitialManifest,  \* the tree of generation 1, the one that was activated
  Commit,           \* Git revisions a projection can be acknowledged at
  MaxFence,         \* BOUND on the number of lease acquisitions
  MaxDelete         \* max_delete of garbage_collect

Client == Publisher \cup Collector \cup Courier \cup Pinner
Manifest == [Path -> Content \cup {Absent}]
Digest == Content \cup Manifest
NoReceipt == [state |-> "none"]
None == "none"

ASSUME ConstantsAssumption ==
  /\ GitOp \subseteq Op
  /\ ChangeOf \in [Op -> [path : Path, content : Content \cup {Absent}]]
  /\ InitialManifest \in Manifest
  /\ None \notin Commit
  /\ MaxFence \in Nat
  /\ MaxDelete \in Nat \ {0}

VARIABLES
  lease,        \* the radar_leases row: fence, purpose, and whether it is unexpired
  head,         \* the radar_sources row: generation and manifest
  objects,      \* radar_objects: digest -> gc_fence (0 when never stamped)
  chunks,       \* radar_chunks: digest -> gc_fence
  outbox,       \* radar_outbox: generation -> manifest, acked, gc_fence
  operations,   \* radar_operations: op -> receipt
  projections,  \* radar_projections: Git revision -> generation and manifest
  evidence,     \* radar_evidence: the pinned manifests
  wire,         \* head CAS statements that were sent and may still be evaluated
  pc,           \* client -> the statement it executes next
  my            \* client -> the values it carries between statements

store == <<head, objects, chunks, outbox, operations, projections, evidence>>
vars == <<lease, head, objects, chunks, outbox, operations, projections,
          evidence, wire, pc, my>>

--------------------------------------------------------------------------------
(* Manifests and reachability *)

Files(m) == {m[p] : p \in Path} \ {Absent}
Graph(m) == {m} \cup Files(m)
Patch(o, m) == [m EXCEPT ![ChangeOf[o].path] = ChangeOf[o].content]
Narrow(m, P) == [p \in Path |-> IF p \in P THEN m[p] ELSE Absent]

(* An object can be decoded: its row and its chunk are both there. *)
Readable == DOMAIN objects \cap DOMAIN chunks
Complete(m) == Graph(m) \subseteq Readable

(* retained_roots: evidence pins and operations that Git has not shown yet. *)
Pending == {o \in GitOp : operations[o] # NoReceipt /\ operations[o].projected = None}
PendingOnly == {operations[o].manifest : o \in Pending}            \* a slip
RetainedRoots == evidence \cup {operations[o].manifest : o \in Pending}
UnackedRoots == {outbox[g].manifest : g \in {h \in DOMAIN outbox : ~outbox[h].acked}}
Roots == {head.manifest} \cup RetainedRoots \cup UnackedRoots
ReachableFrom(S) == UNION {Graph(m) : m \in S}

(* Rows of a table: insert (OR IGNORE), delete, and the gc stamp. *)
Inserted(table, d) ==
  [x \in DOMAIN table \cup {d} |-> IF x \in DOMAIN table THEN table[x] ELSE 0]
Without(table, D) == [x \in DOMAIN table \ D |-> table[x]]
Stamped(table, D, f) == [x \in DOMAIN table |-> IF x \in D THEN f ELSE table[x]]

(* garbage_collect takes the first max_delete candidates. *)
Batch(S) == {D \in SUBSET S : \/ D = S /\ Cardinality(D) <= MaxDelete
                              \/ Cardinality(D) = MaxDelete}
--------------------------------------------------------------------------------
(* The lease row, as the trigger conditions read it *)

Live(f) == lease.live /\ lease.fence = f
GcLive(f) == Live(f) /\ lease.purpose \in {"gc", "maintenance"}
AnyLease(c) == c \in Client /\ lease.live                          \* a slip
Valid(c) == Live(my[c].fence)

(* What a client carries from one statement to the next. *)
Idle == [job |-> None, fence |-> 0, op |-> None, base |-> 0,
         manifest |-> InitialManifest, commit |-> None,
         need |-> {}, new |-> {}, fill |-> {}]

FirstStatement ==
  [publish |-> "lookup", collect |-> "plan", ack |-> "ack",
   project |-> "check", pin |-> "freeze", unpin |-> "unpin"]

Purpose(job) == IF job = "collect" THEN "gc" ELSE "write"

At(c, label) == pc[c] = label
Goto(c, label) == pc' = [pc EXCEPT ![c] = label]
Keep(c, values) == my' = [my EXCEPT ![c] = values]
Begin(c, values) == At(c, "idle") /\ Goto(c, "acquire") /\ Keep(c, values)

(* Nothing but the client's own position and values changes. *)
ReadOnly == UNCHANGED <<lease, wire, store>>
--------------------------------------------------------------------------------
Init ==
  /\ lease = [fence |-> 0, purpose |-> "write", live |-> FALSE]
  /\ head = [generation |-> 1, manifest |-> InitialManifest]
  /\ objects = [d \in Graph(InitialManifest) |-> 0]
  /\ chunks = [d \in Graph(InitialManifest) |-> 0]
  /\ outbox = [g \in {1} |-> [manifest |-> InitialManifest, acked |-> FALSE, gc |-> 0]]
  /\ operations = [o \in Op |-> NoReceipt]
  /\ projections = [k \in {} |-> head]
  /\ evidence = {}
  /\ wire = {}
  /\ pc = [c \in Client |-> "idle"]
  /\ my = [c \in Client |-> Idle]

(* Calls.  The caller read the head it names before it asked for the lease. *)

PublishPatch(c, o) ==
  /\ Begin(c, [Idle EXCEPT !.job = "publish", !.op = o, !.base = head.generation])
  /\ ReadOnly

GarbageCollect(c) == Begin(c, [Idle EXCEPT !.job = "collect"]) /\ ReadOnly

(* sync_replica acknowledges up to a generation that the standby verified. *)
Acknowledge(c, g) ==
  /\ g \in DOMAIN outbox
  /\ Begin(c, [Idle EXCEPT !.job = "ack", !.base = g])
  /\ ReadOnly

(* A commit that shows the head's tree was pushed; which operations await it
   is read after the push, and may have changed by then. *)
AcknowledgeProjection(c, o, k) ==
  /\ Begin(c, [Idle EXCEPT !.job = "project", !.op = o, !.commit = k,
                           !.base = head.generation, !.manifest = head.manifest])
  /\ ReadOnly

PinEvidence(c) == Begin(c, [Idle EXCEPT !.job = "pin"]) /\ ReadOnly

ReleaseEvidence(c, m) ==
  /\ m \in evidence
  /\ Begin(c, [Idle EXCEPT !.job = "unpin", !.manifest = m])
  /\ ReadOnly
--------------------------------------------------------------------------------
(* The lease: takeover of an expired row, expiry, and the end of the with  *)
(* block, normal or exceptional, whose release may be lost.                *)

Acquire(c) ==
  /\ At(c, "acquire")
  /\ ~lease.live
  /\ lease.fence < MaxFence
  /\ lease' = [fence |-> lease.fence + 1, purpose |-> Purpose(my[c].job), live |-> TRUE]
  /\ my' = [my EXCEPT ![c].fence = lease.fence + 1]
  /\ Goto(c, FirstStatement[my[c].job])
  /\ UNCHANGED <<wire, store>>

Expire ==
  /\ lease.live
  /\ lease' = [lease EXCEPT !.live = FALSE]
  /\ UNCHANGED <<wire, store, pc, my>>

Leave(c) ==
  /\ ~At(c, "idle")
  /\ \/ Valid(c) /\ lease' = [lease EXCEPT !.live = FALSE]
     \/ UNCHANGED lease
  /\ Goto(c, "idle")
  /\ Keep(c, Idle)
  /\ UNCHANGED <<wire, store>>
--------------------------------------------------------------------------------
(* publish_patch *)

(* A repeated operation returns its receipt. *)
LookupReceipt(c) ==
  /\ At(c, "lookup")
  /\ Goto(c, IF operations[my[c].op] = NoReceipt THEN "head" ELSE "done")
  /\ UNCHANGED my
  /\ ReadOnly

(* HISTORY_PRUNED and STALE_GENERATION leave; otherwise merge into the head. *)
ReadHead(c) ==
  /\ At(c, "head")
  /\ head.manifest \in Readable
  /\ head.generation = my[c].base
  /\ LET target == Patch(my[c].op, head.manifest) IN
       /\ my' = [my EXCEPT ![c].manifest = target,
                           ![c].need = {target} \cup ({ChangeOf[my[c].op].content} \ {Absent})]
       /\ Goto(c, IF target = head.manifest THEN "record" ELSE "objects")
  /\ ReadOnly

(* The operation changes nothing: its receipt is written at the head it read. *)
RecordUnchanged(c) ==
  /\ At(c, "record")
  /\ Valid(c)
  /\ operations' = IF operations[my[c].op] # NoReceipt THEN operations
                   ELSE [operations EXCEPT ![my[c].op] =
                          [state |-> "unchanged", generation |-> my[c].base,
                           manifest |-> my[c].manifest, projected |-> None, shown |-> 0]]
  /\ Goto(c, "done")
  /\ UNCHANGED <<lease, head, objects, chunks, outbox, projections, evidence, wire, my>>

(* _ensure_raw_objects and _put_graph: chunks before the rows that name them. *)

LookupObjects(c) ==
  /\ At(c, "objects")
  /\ my' = [my EXCEPT ![c].new = my[c].need \ DOMAIN objects]
  /\ Goto(c, "lookupChunks")
  /\ ReadOnly

LookupChunks(c) ==
  /\ At(c, "lookupChunks")
  /\ my' = [my EXCEPT ![c].fill = my[c].new \ DOMAIN chunks]
  /\ Goto(c, "putChunks")
  /\ ReadOnly

PutChunk(c, d) ==
  /\ At(c, "putChunks")
  /\ d \in my[c].fill
  /\ Valid(c)
  /\ chunks' = Inserted(chunks, d)
  /\ my' = [my EXCEPT ![c].fill = @ \ {d}]
  /\ UNCHANGED <<lease, head, objects, outbox, operations, projections, evidence, wire, pc>>

LookupRows(c) ==
  /\ At(c, "putChunks")
  /\ my[c].fill = {}
  /\ my' = [my EXCEPT ![c].fill = my[c].new \ DOMAIN objects]
  /\ Goto(c, "putObjects")
  /\ ReadOnly

PutObject(c, d) ==
  /\ At(c, "putObjects")
  /\ d \in my[c].fill
  /\ Valid(c)
  /\ objects' = Inserted(objects, d)
  /\ my' = [my EXCEPT ![c].fill = @ \ {d}]
  /\ UNCHANGED <<lease, head, chunks, outbox, operations, projections, evidence, wire, pc>>

StagingDone(c) ==
  /\ At(c, "putObjects")
  /\ my[c].fill = {}
  /\ Goto(c, IF my[c].job = "pin" THEN "pin" ELSE "verify")
  /\ UNCHANGED my
  /\ ReadOnly

(* Server readback of everything this patch brought. *)
Verify(c) ==
  /\ At(c, "verify")
  /\ my[c].need \subseteq Readable
  /\ Goto(c, "advance")
  /\ UNCHANGED my
  /\ ReadOnly

(* _advance: the CAS is sent; Deliver says when the database evaluates it. *)
SendAdvance(c) ==
  /\ At(c, "advance")
  /\ wire' = wire \cup {[fence |-> my[c].fence, op |-> my[c].op,
                         base |-> my[c].base, manifest |-> my[c].manifest]}
  /\ Goto(c, "done")
  /\ UNCHANGED <<lease, my, store>>

(* The WHERE clause of the CAS, and the receipt's primary key, which rejects a
   second effect of one operation. *)
Unfenced(s) == head.generation = s.base /\ operations[s.op] = NoReceipt  \* a slip
Applicable(s) ==
  Live(s.fence) /\ head.generation = s.base /\ operations[s.op] = NoReceipt

(* The head, its outbox event and its receipt change in one statement. *)
Deliver(s) ==
  /\ s \in wire
  /\ Applicable(s)
  /\ head' = [generation |-> s.base + 1, manifest |-> s.manifest]
  /\ outbox' = [g \in DOMAIN outbox \cup {s.base + 1} |->
                  IF g = s.base + 1
                  THEN [manifest |-> s.manifest, acked |-> FALSE, gc |-> 0]
                  ELSE outbox[g]]
  /\ operations' = [operations EXCEPT ![s.op] =
                      [state |-> "changed", generation |-> s.base + 1,
                       manifest |-> s.manifest, projected |-> None, shown |-> 0]]
  /\ UNCHANGED <<lease, objects, chunks, projections, evidence, wire, pc, my>>
--------------------------------------------------------------------------------
(* Acknowledgements *)

AckedAlone(upto) ==                                                \* a slip
  [g \in DOMAIN outbox |-> [outbox[g] EXCEPT !.acked = @ \/ g = upto]]
AckedThrough(upto) ==
  [g \in DOMAIN outbox |-> [outbox[g] EXCEPT !.acked = @ \/ g <= upto]]

AckEvents(c) ==
  /\ At(c, "ack")
  /\ (\E g \in DOMAIN outbox : g <= my[c].base /\ ~outbox[g].acked) => Valid(c)
  /\ outbox' = AckedThrough(my[c].base)
  /\ Goto(c, "done")
  /\ UNCHANGED <<lease, head, objects, chunks, operations, projections, evidence, wire, my>>

(* A commit keeps the snapshot it was first acknowledged for. *)
MeansLatest(k, g, m) == k \in Commit /\ g > 0 /\ m \in Manifest     \* a slip
CanMean(k, g, m) ==
  k \in DOMAIN projections => projections[k] = [generation |-> g, manifest |-> m]

(* The commit must show a committed generation that contains the operation. *)
CheckProjection(c) ==
  LET g == my[c].base
      m == my[c].manifest
  IN /\ At(c, "check")
     /\ operations[my[c].op] # NoReceipt
     /\ \/ g \in DOMAIN outbox /\ outbox[g].manifest = m
        \/ \E o \in Op : /\ operations[o] # NoReceipt
                         /\ operations[o].generation = g
                         /\ operations[o].manifest = m
     /\ g >= operations[my[c].op].generation
     /\ CanMean(my[c].commit, g, m)
     /\ Goto(c, "show")
     /\ UNCHANGED my
     /\ ReadOnly

InsertProjection(c) ==
  /\ At(c, "show")
  /\ Valid(c)
  /\ projections' = [k \in DOMAIN projections \cup {my[c].commit} |->
                       IF k \in DOMAIN projections THEN projections[k]
                       ELSE [generation |-> my[c].base, manifest |-> my[c].manifest]]
  /\ Goto(c, "settle")
  /\ UNCHANGED <<lease, head, objects, chunks, outbox, operations, evidence, wire, my>>

SettleOperation(c) ==
  /\ At(c, "settle")
  /\ Valid(c)
  /\ operations' = [operations EXCEPT ![my[c].op] =
                      [@ EXCEPT !.projected = my[c].commit, !.shown = my[c].base]]
  /\ Goto(c, "done")
  /\ UNCHANGED <<lease, head, objects, chunks, outbox, projections, evidence, wire, my>>
--------------------------------------------------------------------------------
(* pin_evidence freezes one path of a readable snapshot; release_evidence *)

(* The snapshots that a revision resolves to with their generation. *)
Resolvable ==
  {outbox[g].manifest : g \in DOMAIN outbox}
  \cup {projections[k].manifest : k \in DOMAIN projections}

FreezeEvidence(c, m, p) ==
  /\ At(c, "freeze")
  /\ m[p] # Absent
  /\ {m, m[p]} \subseteq Readable
  /\ my' = [my EXCEPT ![c].manifest = Narrow(m, {p}), ![c].need = {Narrow(m, {p})}]
  /\ Goto(c, "objects")
  /\ ReadOnly

InsertEvidence(c) ==
  /\ At(c, "pin")
  /\ Valid(c)
  /\ evidence' = evidence \cup {my[c].manifest}
  /\ Goto(c, "done")
  /\ UNCHANGED <<lease, head, objects, chunks, outbox, operations, projections, wire, my>>

(* No trigger guards this DELETE, so an expired client may still execute it. *)
DeleteEvidence(c) ==
  /\ At(c, "unpin")
  /\ evidence' = evidence \ {my[c].manifest}
  /\ Goto(c, "done")
  /\ UNCHANGED <<lease, head, objects, chunks, outbox, operations, projections, wire, my>>
--------------------------------------------------------------------------------
(* garbage_collect *)

(* The LIMIT picks max_delete acknowledged events, of which the head's stays;
   the stamp and the delete pick for themselves. *)
EventBatches ==
  {L \ {head.generation} : L \in Batch({g \in DOMAIN outbox : outbox[g].acked})}

PlanRoots(c) ==
  /\ At(c, "plan")
  /\ my' = [my EXCEPT ![c].need = Roots, ![c].base = head.generation]
  /\ Goto(c, "reach")
  /\ ReadOnly

PlanReach(c) ==
  /\ At(c, "reach")
  /\ \A m \in my[c].need : Complete(m)
  /\ head.generation = my[c].base
  /\ my' = [my EXCEPT ![c].need = ReachableFrom(my[c].need)]
  /\ Goto(c, "stampEvents")
  /\ ReadOnly

StampEvents(c, L) ==
  /\ At(c, "stampEvents")
  /\ L # {} => GcLive(my[c].fence)
  /\ outbox' = [g \in DOMAIN outbox |->
                  IF g \in L THEN [outbox[g] EXCEPT !.gc = my[c].fence] ELSE outbox[g]]
  /\ Goto(c, "deleteEvents")
  /\ UNCHANGED <<lease, head, objects, chunks, operations, projections, evidence, wire, my>>

DeleteEvents(c, L) ==
  /\ At(c, "deleteEvents")
  /\ \A g \in L : GcLive(outbox[g].gc)
  /\ outbox' = Without(outbox, L)
  /\ Goto(c, "doomObjects")
  /\ UNCHANGED <<lease, head, objects, chunks, operations, projections, evidence, wire, my>>

CollectEvents(c) == \E L \in EventBatches : StampEvents(c, L) \/ DeleteEvents(c, L)

DoomObjects(c) ==
  /\ At(c, "doomObjects")
  /\ \E D \in Batch(DOMAIN objects \ my[c].need) : my' = [my EXCEPT ![c].fill = D]
  /\ Goto(c, "stampObjects")
  /\ ReadOnly

StampObjects(c) ==
  /\ At(c, "stampObjects")
  /\ my[c].fill \cap DOMAIN objects # {} => GcLive(my[c].fence)
  /\ objects' = Stamped(objects, my[c].fill, my[c].fence)
  /\ Goto(c, "deleteObjects")
  /\ UNCHANGED <<lease, head, chunks, outbox, operations, projections, evidence, wire, my>>

DeleteObjects(c) ==
  /\ At(c, "deleteObjects")
  /\ \A d \in my[c].fill \cap DOMAIN objects : GcLive(objects[d])
  /\ objects' = Without(objects, my[c].fill)
  /\ Goto(c, "doomChunks")
  /\ UNCHANGED <<lease, head, chunks, outbox, operations, projections, evidence, wire, my>>

(* Chunks of objects that await a later pass stay. *)
DoomChunks(c) ==
  /\ At(c, "doomChunks")
  /\ \E D \in Batch(DOMAIN chunks \ DOMAIN objects) : my' = [my EXCEPT ![c].fill = D]
  /\ Goto(c, "stampChunks")
  /\ ReadOnly

StampChunks(c) ==
  /\ At(c, "stampChunks")
  /\ my[c].fill \cap DOMAIN chunks # {} => GcLive(my[c].fence)
  /\ chunks' = Stamped(chunks, my[c].fill, my[c].fence)
  /\ Goto(c, "deleteChunks")
  /\ UNCHANGED <<lease, head, objects, outbox, operations, projections, evidence, wire, my>>

DeleteChunks(c) ==
  /\ At(c, "deleteChunks")
  /\ \A d \in my[c].fill \cap DOMAIN chunks : GcLive(chunks[d])
  /\ chunks' = Without(chunks, my[c].fill)
  /\ Goto(c, "done")
  /\ UNCHANGED <<lease, head, objects, outbox, operations, projections, evidence, wire, my>>
--------------------------------------------------------------------------------
Calls ==
  \/ \E c \in Publisher, o \in Op : PublishPatch(c, o)
  \/ \E c \in Collector : GarbageCollect(c)
  \/ \E c \in Courier, g \in DOMAIN outbox : Acknowledge(c, g)
  \/ \E c \in Courier, o \in GitOp, k \in Commit : AcknowledgeProjection(c, o, k)
  \/ \E c \in Pinner : PinEvidence(c)
  \/ \E c \in Pinner, m \in evidence : ReleaseEvidence(c, m)

Leasing == Expire \/ \E c \in Client : Acquire(c) \/ Leave(c)

Staging(c) ==
  \/ LookupObjects(c) \/ LookupChunks(c) \/ LookupRows(c) \/ StagingDone(c)
  \/ \E d \in my[c].fill : PutChunk(c, d) \/ PutObject(c, d)

PublishStep(c) ==
  \/ LookupReceipt(c) \/ ReadHead(c) \/ RecordUnchanged(c)
  \/ Staging(c) \/ Verify(c) \/ SendAdvance(c)

AcknowledgeStep(c) ==
  AckEvents(c) \/ CheckProjection(c) \/ InsertProjection(c) \/ SettleOperation(c)

PinStep(c) ==
  \/ \E m \in Resolvable, p \in Path : FreezeEvidence(c, m, p)
  \/ Staging(c) \/ InsertEvidence(c) \/ DeleteEvidence(c)

CollectStep(c) ==
  \/ PlanRoots(c) \/ PlanReach(c)
  \/ CollectEvents(c)
  \/ DoomObjects(c) \/ StampObjects(c) \/ DeleteObjects(c)
  \/ DoomChunks(c) \/ StampChunks(c) \/ DeleteChunks(c)

Statement(c) ==
  \/ c \in Publisher /\ PublishStep(c)
  \/ c \in Courier /\ AcknowledgeStep(c)
  \/ c \in Pinner /\ PinStep(c)
  \/ c \in Collector /\ CollectStep(c)

Next ==
  \/ Calls \/ Leasing
  \/ \E c \in Client : Statement(c)
  \/ \E s \in wire : Deliver(s)

Spec == Init /\ [][Next]_vars
--------------------------------------------------------------------------------
(* Properties *)

Gate == {"idle", "acquire", "done"}
Labels == Gate \cup
  {"lookup", "head", "record", "objects", "lookupChunks", "putChunks", "putObjects",
   "verify", "advance", "pin", "freeze", "unpin", "ack", "check", "show", "settle",
   "plan", "reach", "stampEvents", "deleteEvents", "doomObjects", "stampObjects",
   "deleteObjects", "doomChunks", "stampChunks", "deleteChunks"}
Jobs == DOMAIN FirstStatement \cup {None}
Fence == Nat
Generation == Nat \ {0}

Receipt == {NoReceipt} \cup
  [state : {"changed", "unchanged"}, generation : Generation, manifest : Manifest,
   projected : Commit \cup {None}, shown : Nat]
Values == [job : Jobs, fence : Fence, op : Op \cup {None}, base : Nat,
           manifest : Manifest, commit : Commit \cup {None}, need : SUBSET Digest,
           new : SUBSET Digest, fill : SUBSET Digest]

RowsType ==
  /\ lease \in [fence : Fence, purpose : {"gc", "write"}, live : BOOLEAN]
  /\ head \in [generation : Generation, manifest : Manifest]
  /\ DOMAIN objects \subseteq Digest /\ \A d \in DOMAIN objects : objects[d] \in Fence
  /\ DOMAIN chunks \subseteq Digest /\ \A d \in DOMAIN chunks : chunks[d] \in Fence
  /\ DOMAIN outbox \subseteq Generation
  /\ \A g \in DOMAIN outbox :
       outbox[g] \in [manifest : Manifest, acked : BOOLEAN, gc : Fence]
  /\ operations \in [Op -> Receipt]
  /\ DOMAIN projections \subseteq Commit
  /\ \A k \in DOMAIN projections : projections[k] \in [generation : Generation, manifest : Manifest]
  /\ evidence \subseteq Manifest
ClientsType ==
  /\ wire \subseteq [fence : Fence, op : Op, base : Nat, manifest : Manifest]
  /\ pc \in [Client -> Labels]
  /\ my \in [Client -> Values]

(* Every variable ranges over the rows the schema admits and the values a
   client can carry (migrate_schema). *)
TypeOK == RowsType /\ ClientsType

(* What a reader may still ask for: the head, a pinned snapshot, a snapshot
   Git has not shown, a snapshot the standby has not acknowledged. *)
Promised ==
  {head.manifest} \cup evidence
  \cup {operations[o].manifest :
          o \in {x \in GitOp : operations[x] # NoReceipt /\ operations[x].projected = None}}
  \cup {outbox[g].manifest : g \in {h \in DOMAIN outbox : ~outbox[h].acked}}

(* All of it can be decoded.  A collector whose plan is stale, a writer whose
   staging was reclaimed and a late CAS must all be harmless (garbage_collect,
   publish_patch, pin_evidence). *)
RetainedComplete == \A m \in Promised : Complete(m)

(* No object row names a missing chunk, in whichever order uploads and
   collections stop half way (_put_graph, garbage_collect). *)
ObjectsHaveChunks == DOMAIN objects \subseteq DOMAIN chunks

(* What the standby has not acknowledged is an unbroken suffix of the
   history: no event is skipped or collected early (_ack, garbage_collect,
   the source_event trigger). *)
QueueIsSuffix ==
  \A g, h \in 1..head.generation :
    /\ g \in DOMAIN outbox /\ ~outbox[g].acked
    /\ g <= h
    => h \in DOMAIN outbox /\ ~outbox[h].acked

(* A row that the current collection has stamped for deletion is garbage now,
   not only when it was planned: publishing cannot revive it. *)
StampedIsGarbage ==
  /\ \A d \in DOMAIN objects : GcLive(objects[d]) => d \notin ReachableFrom(Promised)
  /\ \A d \in DOMAIN chunks : GcLive(chunks[d]) => d \notin DOMAIN objects

(* An operation that counts as shown by Git names a commit that resolves to a
   generation which contains it, and every commit keeps one meaning
   (acknowledge_projection, resolve_git_revision). *)
ProjectionResolves ==
  \A o \in Op :
    operations[o] # NoReceipt /\ operations[o].projected # None =>
      /\ operations[o].projected \in DOMAIN projections
      /\ projections[operations[o].projected].generation = operations[o].shown
      /\ operations[o].shown \in operations[o].generation .. head.generation

(* The history the tables record, as the receipts remember it. *)
ChangeAt(g) == CHOOSE o \in Op : operations[o].state = "changed" /\ operations[o].generation = g
History == [g \in 1..head.generation |->
              IF g = 1 THEN InitialManifest ELSE operations[ChangeAt(g)].manifest]

(* The store is an append-only source in which each operation takes effect at
   most once, on top of the generation before it, with no other file touched,
   whatever was retried, delayed, fenced or lost. *)
Source == INSTANCE VersionedSource WITH
  Changed <- Patch,
  history <- History,
  receipt <- [o \in Op |-> IF operations[o] = NoReceipt THEN 0 ELSE operations[o].generation]
ImplementsSource == Source!ASpec
================================================================================
