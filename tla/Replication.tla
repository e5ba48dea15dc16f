------------------------------ MODULE Replication ------------------------------
(***************************************************************************)
(* Asynchronous replication of the primary to the standby database         *)
(* (documents.py: sync_replica, _replicate_one; scripts/storage_sync.py:   *)
(* verify_heads; primary_store.py: metadata_snapshot, install_metadata).   *)
(* A pass captures heads and events, copies and acknowledges one source    *)
(* after the other, sweeps the metadata and verifies what it captured,     *)
(* while publishers, pins, projections, both collectors and other passes   *)
(* go on.                                                                  *)
(*                                                                         *)
(* The primary is the one PrimaryStore describes: each of its calls is one *)
(* step here, and a graph is one digest.  A pass is sequential and each    *)
(* acquisition gets a fresh fence, so "the live lease is of pass p" stands *)
(* for a valid proof.  A read lease only keeps other clients away while it *)
(* is live: nothing notices when it lapses.                                *)
(***************************************************************************)
EXTENDS Naturals, FiniteSets, Sequences, FiniteSetsExt

CONSTANTS
  Source,         \* the namespaces, all activated
  Pass,           \* sync_replica passes that may overlap
  Manifest,       \* manifest digests
  Pinned,         \* the manifests that evidence may pin
  Delivery,       \* the delivery targets that publications use
  MaxEvents,      \* max_events of sync_replica
  MaxGeneration,  \* BOUND on the generations of a source
  MaxFault,       \* BOUND on errors, lost responses and lapses of standby leases
  MaxLapse        \* BOUND on lapses of a primary read lease

None == "none"

ASSUME ReplicationAssumption ==
  /\ None \notin Pass
  /\ Pinned \subseteq Manifest /\ Delivery \subseteq {"git", "database_only"}
  /\ MaxEvents \in Nat \ {0} /\ MaxGeneration \in Nat \ {0}
  /\ MaxFault \in Nat /\ MaxLapse \in Nat

VARIABLES
  history,   \* primary: source -> the manifest of each generation
  outbox,    \* primary: source -> the generations with an outbox row
  acked,     \* primary: source -> those of them that are acknowledged
  pending,   \* primary: operations <<source, generation>> that Git has not shown
  pins,      \* primary: evidence
  reader,    \* the pass whose read lease on the primary is live
  rhead,     \* standby: source -> [generation, manifest], generation 0 without a row
  stored,    \* standby: the manifests whose graph is there
  rpending,  \* standby: the same as pending
  rpins,     \* standby: the same as pins
  rholder,   \* the pass whose lease on the standby is live
  pc, my,    \* pass -> its next statement and its values
  faults, lapses

primary == <<history, outbox, acked, pending, pins>>
standby == <<rhead, stored, rpending, rpins>>
vars == <<primary, reader, standby, rholder, pc, my, faults, lapses>>

Generations(s) == 1..Len(history[s])
HeadGeneration(s) == Len(history[s])
Unacked(s) == outbox[s] \ acked[s]
Row(s, g) == [generation |-> g, manifest |-> history[s][g]]
Heads == [s \in Source |-> Row(s, HeadGeneration(s))]
ManifestOf(op) == history[op[1]][op[2]]

PinsOnly == pins                                                   \* a slip, see README
RetainedRoots == pins \cup {ManifestOf(op) : op \in pending}
RetainedOnly == rpins \cup {ManifestOf(op) : op \in rpending}      \* a slip
StandbyRoots ==
  {rhead[s].manifest : s \in {x \in Source : rhead[x].generation > 0}}
  \cup rpins \cup {ManifestOf(op) : op \in rpending}

(* The values a pass carries. *)
Start == [heads |-> [s \in Source |-> 0], todo |-> [s \in Source |-> 0],
          source |-> None, seen |-> 0, upto |-> 0, rows |-> {}, wasPending |-> {},
          wasPinned |-> {}, roots |-> {}, failed |-> FALSE]

Init ==
  /\ history \in [Source -> {<<m>> : m \in Manifest}]
  /\ outbox = [s \in Source |-> {1}]
  /\ acked = [s \in Source |-> {}]
  /\ pending = {} /\ pins = {}
  /\ reader = None /\ rholder = None
  /\ rhead = [s \in Source |-> [generation |-> 0, manifest |-> history[s][1]]]
  /\ stored = {} /\ rpending = {} /\ rpins = {}
  /\ pc = [p \in Pass |-> "idle"]
  /\ my = [p \in Pass |-> Start]
  /\ faults = 0 /\ lapses = 0
--------------------------------------------------------------------------------
(* The primary's other clients: one step under a lease of their own *)

PrimaryFree == reader = None
PrimaryOnly == UNCHANGED <<reader, standby, rholder, pc, my, faults, lapses>>

Publish(s, m, delivery) ==
  /\ PrimaryFree
  /\ HeadGeneration(s) < MaxGeneration
  /\ m # history[s][HeadGeneration(s)]
  /\ LET g == HeadGeneration(s) + 1 IN
       /\ history' = [history EXCEPT ![s] = Append(@, m)]
       /\ outbox' = [outbox EXCEPT ![s] = @ \cup {g}]
       /\ pending' = IF delivery = "git" THEN pending \cup {<<s, g>>} ELSE pending
  /\ UNCHANGED <<acked, pins>>
  /\ PrimaryOnly

(* acknowledge_projection *)
Show(op) ==
  /\ PrimaryFree
  /\ pending' = pending \ {op}
  /\ UNCHANGED <<history, outbox, acked, pins>>
  /\ PrimaryOnly

PinEvidence(m) ==
  /\ PrimaryFree
  /\ \E s \in Source : \E g \in outbox[s] : m = history[s][g]
  /\ pins' = pins \cup {m}
  /\ UNCHANGED <<history, outbox, acked, pending>>
  /\ PrimaryOnly

ReleaseEvidence(m) ==
  /\ PrimaryFree
  /\ pins' = pins \ {m}
  /\ UNCHANGED <<history, outbox, acked, pending>>
  /\ PrimaryOnly

CollectPrimary(s, g) ==
  /\ PrimaryFree
  /\ g \in acked[s] /\ g # HeadGeneration(s)
  /\ outbox' = [outbox EXCEPT ![s] = @ \ {g}]
  /\ acked' = [acked EXCEPT ![s] = @ \ {g}]
  /\ UNCHANGED <<history, pending, pins>>
  /\ PrimaryOnly

(* garbage_collect with replica_mode; it stops when a root is missing. *)
CollectStandby ==
  /\ rholder = None
  /\ StandbyRoots \subseteq stored
  /\ stored' \in {stored \ {m} : m \in stored \ StandbyRoots}
  /\ UNCHANGED <<primary, reader, rhead, rpending, rpins, rholder, pc, my, faults, lapses>>
--------------------------------------------------------------------------------
(* A pass *)

At(p, label) == pc[p] = label
Goto(p, label) == pc' = [pc EXCEPT ![p] = label]
Released(lease, p) == IF lease = p THEN None ELSE lease

(* The first max_events events by capture time: per source a prefix. *)
Selections ==
  LET queue == {<<s, g>> : s \in Source, g \in 1..MaxGeneration}
      open == {e \in queue : e[2] \in Unacked(e[1])}
  IN {E \in SUBSET open :
        /\ Cardinality(E) = Min({MaxEvents, Cardinality(open)})
        /\ \A e \in E, f \in open : f[1] = e[1] /\ f[2] < e[2] => f \in E}
Latest(E, s) == Max({0} \cup {e[2] : e \in {x \in E : x[1] = s}})

CaptureHeads(p) ==
  /\ At(p, "idle") /\ reader = None
  /\ reader' = p
  /\ my' = [my EXCEPT ![p] = [Start EXCEPT !.heads = [s \in Source |-> HeadGeneration(s)]]]
  /\ Goto(p, "events")
  /\ UNCHANGED <<primary, standby, rholder, faults, lapses>>

CaptureEvents(p) ==
  /\ At(p, "events")
  /\ \E E \in Selections : my' = [my EXCEPT ![p].todo = [s \in Source |-> Latest(E, s)]]
  /\ reader' = Released(reader, p)
  /\ Goto(p, "loop")
  /\ UNCHANGED <<primary, standby, rholder, faults, lapses>>

(* The graph was read from the primary; now the standby's lease is taken. *)
BeginReplicate(p, s) ==
  /\ At(p, "loop")
  /\ my[p].todo[s] > 0
  /\ reader = None /\ rholder = None
  /\ rholder' = p
  /\ my' = [my EXCEPT ![p].source = s]
  /\ Goto(p, "compare")
  /\ UNCHANGED <<primary, reader, standby, faults, lapses>>

(* An overlapping pass acknowledged the event and the collector took its graph,
   which nothing else retains. *)
Collected(s, g) ==
  /\ g \notin outbox[s]
  /\ history[s][g] \notin RetainedRoots
  /\ \A t \in Source : \A h \in outbox[t] \cup {HeadGeneration(t)} : history[t][h] # history[s][g]

GraphMissing(p, s) ==
  /\ At(p, "loop")
  /\ my[p].todo[s] > 0
  /\ reader = None
  /\ Collected(s, my[p].todo[s])
  /\ my' = [my EXCEPT ![p].todo[s] = 0, ![p].failed = TRUE]
  /\ UNCHANGED <<primary, reader, standby, rholder, pc, faults, lapses>>

(* The row that proves a generation: its outbox event, else its receipt (which
   every generation but the activated one has), else the head. *)
OutboxOnly(s, g) == IF g \in outbox[s] THEN Row(s, g) ELSE Heads[s]     \* a slip
Authoritative(s, g) ==
  IF g \in outbox[s] \/ g \in 2..HeadGeneration(s) THEN Row(s, g) ELSE Heads[s]

HeadChanged(s, g) == rhead[s].generation # g                            \* a slip
AtLeast(s, g) == rhead[s].generation >= g

(* _replicate_one: the standby is at the target or beyond it. *)
CompareAhead(p) ==
  LET s == my[p].source
      e == rhead[s]
  IN /\ At(p, "compare")
     /\ AtLeast(s, my[p].todo[s])
     /\ IF /\ e.generation <= HeadGeneration(s)
           /\ e = IF e.generation = my[p].todo[s] THEN Row(s, e.generation)
                                                  ELSE Authoritative(s, e.generation)
        THEN /\ e.manifest \in stored
             /\ Goto(p, "ack")
        ELSE Goto(p, "alarm")
     /\ my' = [my EXCEPT ![p].upto = e.generation]
     /\ rholder' = Released(rholder, p)
     /\ UNCHANGED <<primary, reader, standby, faults, lapses>>

CompareBehind(p) ==
  LET s == my[p].source IN
  /\ At(p, "compare")
  /\ ~AtLeast(s, my[p].todo[s])
  /\ my' = [my EXCEPT ![p].seen = rhead[s].generation]
  /\ Goto(p, "put")
  /\ UNCHANGED <<primary, reader, standby, rholder, faults, lapses>>

NewestManifest(p) == Heads[my[p].source].manifest                       \* a slip
TargetManifest(p) == history[my[p].source][my[p].todo[my[p].source]]

PutGraph(p) ==
  /\ At(p, "put") /\ rholder = p
  /\ stored' = stored \cup {TargetManifest(p)}
  /\ Goto(p, "readback")
  /\ UNCHANGED <<primary, reader, rhead, rpending, rpins, rholder, my, faults, lapses>>

Readback(p) ==
  /\ At(p, "readback")
  /\ TargetManifest(p) \in stored
  /\ Goto(p, "advance")
  /\ UNCHANGED <<primary, reader, standby, rholder, my, faults, lapses>>

(* The trigger's lease test and the CAS on the generation that was read. *)
Unfenced(p) == At(p, "advance")                                         \* a slip
MayAdvance(p) == rholder = p /\ rhead[my[p].source].generation = my[p].seen

Advance(p) ==
  LET s == my[p].source IN
  /\ At(p, "advance")
  /\ MayAdvance(p)
  /\ rhead' = [rhead EXCEPT ![s] = [generation |-> my[p].todo[s], manifest |-> TargetManifest(p)]]
  /\ rholder' = Released(rholder, p)
  /\ \/ /\ my' = [my EXCEPT ![p].upto = my[p].todo[s]]
        /\ Goto(p, "ack")
        /\ UNCHANGED faults
     \/ /\ faults < MaxFault                             \* the response is lost
        /\ faults' = faults + 1
        /\ my' = [my EXCEPT ![p].todo[s] = 0, ![p].failed = TRUE]
        /\ Goto(p, "loop")
  /\ UNCHANGED <<primary, reader, stored, rpending, rpins, lapses>>

AckCaptured(s, upto) == acked[s] \cup {g \in outbox[s] : g <= HeadGeneration(s) /\ upto > 0}  \* a slip
AckEvery(s, upto) == acked[s] \cup 1..upto                              \* a slip
AckThrough(s, upto) == acked[s] \cup {g \in outbox[s] : g <= upto}

Ack(p) ==
  LET s == my[p].source IN
  /\ At(p, "ack")
  /\ PrimaryFree
  /\ acked' = [acked EXCEPT ![s] = AckThrough(s, my[p].upto)]
  /\ my' = [my EXCEPT ![p].todo[s] = 0]
  /\ Goto(p, "loop")
  /\ UNCHANGED <<history, outbox, pending, pins, reader, standby, rholder, faults, lapses>>

(* A StorageError of one source is recorded and the next source tried.  It is
   certain when the lease was lost before a fenced write, or a readback or the
   CAS fails; otherwise it is a fault. *)
Doomed(p) ==
  \/ pc[p] \in {"put", "advance"} /\ rholder # p
  \/ pc[p] = "advance" /\ ~MayAdvance(p)
  \/ pc[p] = "readback" /\ TargetManifest(p) \notin stored
  \/ pc[p] = "compare" /\ AtLeast(my[p].source, my[p].todo[my[p].source])
                       /\ rhead[my[p].source].manifest \notin stored

FailSource(p) ==
  /\ pc[p] \in {"compare", "put", "readback", "advance", "ack"}
  /\ \/ Doomed(p) /\ UNCHANGED faults
     \/ faults < MaxFault /\ faults' = faults + 1
  /\ my' = [my EXCEPT ![p].todo[my[p].source] = 0, ![p].failed = TRUE]
  /\ rholder' = Released(rholder, p)
  /\ Goto(p, "loop")
  /\ UNCHANGED <<primary, reader, standby, lapses>>
--------------------------------------------------------------------------------
(* The metadata sweep *)

Known == {<<s, g>> : s \in Source, g \in 2..MaxGeneration}
Operations == {op \in Known : op[2] <= HeadGeneration(op[1])}

(* metadata_snapshot reads the tables, retained_roots reads them once more. *)
ReadMetadata(p) ==
  /\ At(p, "loop")
  /\ \A s \in Source : my[p].todo[s] = 0
  /\ reader = None
  /\ reader' = p
  /\ my' = [my EXCEPT ![p].rows = Operations, ![p].wasPending = pending, ![p].wasPinned = pins]
  /\ Goto(p, "roots")
  /\ UNCHANGED <<primary, standby, rholder, faults, lapses>>

ReadRoots(p) ==
  /\ At(p, "roots")
  /\ my' = [my EXCEPT ![p].roots = RetainedRoots]
  /\ reader' = Released(reader, p)
  /\ Goto(p, "sweep")
  /\ UNCHANGED <<primary, standby, rholder, faults, lapses>>

PutRoots(p) ==
  /\ At(p, "sweep") /\ rholder = None
  /\ rholder' = p
  /\ stored' = stored \cup my[p].roots
  /\ Goto(p, "readRoots")
  /\ UNCHANGED <<primary, reader, rhead, rpending, rpins, my, faults, lapses>>

ReadbackRoots(p) ==
  /\ At(p, "readRoots")
  /\ my[p].roots \subseteq stored
  /\ Goto(p, "install")
  /\ UNCHANGED <<primary, reader, standby, rholder, my, faults, lapses>>

(* install_metadata: one statement per row that differs, table after table. *)
Differing(p) == {op \in my[p].rows : op \in my[p].wasPending <=> op \notin rpending}

InstallOperation(p, op) ==
  /\ At(p, "install") /\ rholder = p
  /\ op \in Differing(p)
  /\ rpending' = IF op \in my[p].wasPending THEN rpending \cup {op} ELSE rpending \ {op}
  /\ UNCHANGED <<primary, reader, rhead, stored, rpins, rholder, pc, my, faults, lapses>>

InstallEvidence(p, m) ==
  /\ At(p, "install") /\ rholder = p
  /\ Differing(p) = {}
  /\ m \in my[p].wasPinned \ rpins
  /\ rpins' = rpins \cup {m}
  /\ UNCHANGED <<primary, reader, rhead, stored, rpending, rholder, pc, my, faults, lapses>>

SelectReleased(p) ==
  /\ At(p, "install")
  /\ Differing(p) = {} /\ my[p].wasPinned \subseteq rpins
  /\ my' = [my EXCEPT ![p].roots = rpins \ my[p].wasPinned]
  /\ Goto(p, "drop")
  /\ UNCHANGED <<primary, reader, standby, rholder, faults, lapses>>

(* No trigger guards this DELETE either. *)
DropEvidence(p, m) ==
  /\ At(p, "drop")
  /\ m \in my[p].roots
  /\ rpins' = rpins \ {m}
  /\ my' = [my EXCEPT ![p].roots = @ \ {m}]
  /\ UNCHANGED <<primary, reader, rhead, stored, rpending, rholder, pc, faults, lapses>>

SweepDone(p) ==
  /\ At(p, "drop")
  /\ my[p].roots = {}
  /\ rholder' = Released(rholder, p)
  /\ Goto(p, "count")
  /\ UNCHANGED <<primary, reader, standby, my, faults, lapses>>

(* An error of the sweep is recorded; what it installed stays. *)
FailSweep(p) ==
  /\ \/ pc[p] = "install" /\ rholder # p /\ UNCHANGED faults
     \/ pc[p] = "readRoots" /\ ~(my[p].roots \subseteq stored) /\ UNCHANGED faults
     \/ pc[p] \in {"roots", "sweep", "readRoots", "install", "drop"}
        /\ faults < MaxFault /\ faults' = faults + 1
  /\ my' = [my EXCEPT ![p].failed = TRUE]
  /\ reader' = Released(reader, p)
  /\ rholder' = Released(rholder, p)
  /\ Goto(p, "count")
  /\ UNCHANGED <<primary, standby, lapses>>
--------------------------------------------------------------------------------
(* The report, verify_heads and the end of a pass *)

CountPending(p) ==
  /\ At(p, "count")
  /\ my' = [my EXCEPT ![p].failed =
              @ \/ \E s \in Source : \E g \in Unacked(s) : g <= my[p].heads[s]]
  /\ Goto(p, "verify")
  /\ UNCHANGED <<primary, reader, standby, rholder, faults, lapses>>

(* Ahead of its target the standby must match the authoritative history. *)
Matches(p, s) ==
  IF rhead[s].generation > my[p].heads[s]
  THEN /\ rhead[s].generation <= HeadGeneration(s)
       /\ rhead[s] = Authoritative(s, rhead[s].generation)
  ELSE rhead[s] = Row(s, my[p].heads[s])

VerifyHeads(p) ==
  /\ At(p, "verify") /\ reader = None
  /\ Goto(p, IF my[p].failed \/ \A s \in Source : Matches(p, s) THEN "idle" ELSE "alarm")
  /\ my' = [my EXCEPT ![p] = Start]
  /\ UNCHANGED <<primary, reader, standby, rholder, faults, lapses>>

(* The job dies, or its budget is spent. *)
Crash(p) ==
  /\ ~At(p, "idle") /\ faults < MaxFault
  /\ faults' = faults + 1
  /\ reader' = Released(reader, p) /\ rholder' = Released(rholder, p)
  /\ my' = [my EXCEPT ![p] = Start]
  /\ Goto(p, "idle")
  /\ UNCHANGED <<primary, standby, lapses>>

LapseStandby ==
  /\ rholder # None /\ faults < MaxFault
  /\ rholder' = None /\ faults' = faults + 1
  /\ UNCHANGED <<primary, reader, standby, pc, my, lapses>>

LapsePrimary ==
  /\ reader # None /\ lapses < MaxLapse
  /\ reader' = None /\ lapses' = lapses + 1
  /\ UNCHANGED <<primary, standby, rholder, pc, my, faults>>
--------------------------------------------------------------------------------
PrimaryNext ==
  \/ \E s \in Source, m \in Manifest, delivery \in Delivery : Publish(s, m, delivery)
  \/ \E op \in pending : Show(op)
  \/ \E m \in Pinned \ pins : PinEvidence(m)
  \/ \E m \in pins : ReleaseEvidence(m)
  \/ \E s \in Source, g \in 1..MaxGeneration : CollectPrimary(s, g)

Replicate(p) ==
  \/ CaptureHeads(p) \/ CaptureEvents(p)
  \/ \E s \in Source : BeginReplicate(p, s) \/ GraphMissing(p, s)
  \/ CompareAhead(p) \/ CompareBehind(p) \/ PutGraph(p) \/ Readback(p)
  \/ Advance(p) \/ Ack(p) \/ FailSource(p)

Sweep(p) ==
  \/ ReadMetadata(p) \/ ReadRoots(p) \/ PutRoots(p) \/ ReadbackRoots(p)
  \/ \E op \in my[p].rows : InstallOperation(p, op)
  \/ \E m \in my[p].wasPinned : InstallEvidence(p, m)
  \/ SelectReleased(p)
  \/ \E m \in my[p].roots : DropEvidence(p, m)
  \/ SweepDone(p) \/ FailSweep(p)

PassStep(p) == Replicate(p) \/ Sweep(p) \/ CountPending(p) \/ VerifyHeads(p)

Next ==
  \/ PrimaryNext \/ CollectStandby
  \/ \E p \in Pass : PassStep(p) \/ Crash(p)
  \/ LapseStandby \/ LapsePrimary

Spec == Init /\ [][Next]_vars

(* The workflow is scheduled every hour and a job keeps running until it ends;
   errors are bounded by MaxFault. *)
FairSpec == Spec /\ \A p \in Pass : WF_vars(PassStep(p))
--------------------------------------------------------------------------------
(* Properties *)

Labels == {"idle", "events", "loop", "compare", "put", "readback", "advance", "ack",
           "roots", "sweep", "readRoots", "install", "drop", "count", "verify", "alarm"}

(* Every variable has its type; the two sets of generations nest. *)
TypeOK ==
  /\ history \in [Source -> Seq(Manifest)]
  /\ \A s \in Source : acked[s] \subseteq outbox[s] /\ outbox[s] \subseteq Generations(s)
  /\ pending \subseteq Operations /\ rpending \subseteq Operations
  /\ pins \cup rpins \subseteq Pinned /\ stored \subseteq Manifest
  /\ rhead \in [Source -> [generation : 0..MaxGeneration, manifest : Manifest]]
  /\ reader \in Pass \cup {None} /\ rholder \in Pass \cup {None}
  /\ pc \in [Pass -> Labels]

(* An event counts as replicated, and may be collected, only when the standby
   has that generation or a later one, however passes overlap, fail half way
   or lose a response (_ack after _replicate_one). *)
AckedIsOnStandby ==
  \A s \in Source : \A g \in Generations(s) :
    g \notin Unacked(s) => g <= rhead[s].generation

(* The standby's head is a generation of the primary, with its manifest. *)
StandbyIsHistory ==
  \A s \in Source :
    rhead[s].generation > 0 =>
      rhead[s].generation <= HeadGeneration(s) /\ rhead[s] = Row(s, rhead[s].generation)

(* The standby's heads can be decoded although its collector runs between any
   two steps of a pass (_put_graph, garbage_collect with replica_mode). *)
StandbyHeadsDecode ==
  \A s \in Source : rhead[s].generation > 0 => rhead[s].manifest \in stored

(* So can every root its metadata retains, and its collector never finds one
   missing (install_metadata after the readback of the roots). *)
StandbyRootsDecode == StandbyRoots \subseteq stored

(* A pass that reports success has read back all that the standby's rows name.
   It does not hold when the primary's lease lapses between the two reads. *)
SyncVerified ==
  \A p \in Pass : At(p, "verify") /\ ~my[p].failed => StandbyRoots \subseteq stored

(* The standby never goes back, whichever of two passes advances it last. *)
NeverBack ==
  [][\A s \in Source : rhead'[s].generation >= rhead[s].generation]_vars

(* REPLICA_AHEAD, REPLICA_CONFLICT and REPLICA_MISMATCH are never reported of
   two healthy databases by a pass that had no other error: captured targets,
   collected events and overlapping passes are told apart from damage. *)
NoFalseAlarm == \A p \in Pass : pc[p] # "alarm"

(* Every event is acknowledged in the end once errors stop, although each
   pass takes max_events of them. *)
EventsDrain ==
  \A s \in Source, g \in 1..MaxGeneration : g \in Unacked(s) ~> g \notin Unacked(s)
================================================================================
