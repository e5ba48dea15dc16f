-------------------------------- MODULE Cutover --------------------------------
(***************************************************************************)
(* Moving the authority from Git to the database: the control job           *)
(* (scripts/database_primary_control.py), the import of the Git sources     *)
(* (ingest() of scripts/storage_sync.py, publish_snapshot of                *)
(* storage/documents.py), activate_primary of storage/primary_store.py, and *)
(* the writers of the runtimes, which the two variables of each repository  *)
(* pause and direct.                                                        *)
(*                                                                         *)
(* A run decides on both variables when its job begins, and keeps them.     *)
(* The control job is one at a time; it can fail at any step.               *)
(***************************************************************************)
EXTENDS Integers, Sequences

CONSTANTS
  Repos, Sources,   \* how many runtimes and sources; both are gone through in order
  Writes,           \* the sources a writer of each runtime saves
  MaxWrites,        \* BOUND on what the writers save in Git, per source
  MaxControls,      \* BOUND on control jobs
  MaxImports        \* BOUND on generations of the import, per source

CutoverAssumption ==
  /\ Repos \in Nat \ {0} /\ Sources \in Nat \ {0}
  /\ MaxWrites \in Nat \ {0} /\ MaxControls \in Nat /\ MaxImports \in Nat

VARIABLES
  flags,      \* the variables of each repository
  control,    \* the control job
  writers,    \* the run of each repository, if any
  sync,       \* the import of source-storage-sync.yml, a workflow of the first repository
  git,        \* per source, how much the writers have saved in Git
  sources     \* per source: active, its generation and how much of Git it holds

cutover == <<flags, control, writers, sync, git, sources>>

Repo == 1..Repos
Source == 1..Sources
NoRun == [status |-> "none", primary |-> FALSE, gated |-> TRUE]
NoClone == [source |-> 0, revision |-> 0, generation |-> 0]
NoControl == [mode |-> "none", stage |-> "idle", at |-> 1, busy |-> FALSE, clone |-> NoClone,
              wanted |-> FALSE, jobs |-> 0]

(* After "prepare", before the first cutover: some of the runtimes may not have the
   reviewed workflows yet, which heed the two variables. *)
Init ==
  /\ flags \in [Repo -> [primary : {FALSE}, pause : {FALSE}, gated : BOOLEAN]]
  /\ control = NoControl
  /\ writers = [r \in Repo |-> NoRun]
  /\ sync = [run |-> NoRun, clone |-> NoClone]
  /\ git = [s \in Source |-> 1]
  /\ sources = [s \in Source |-> [active |-> FALSE, generation |-> 0, holds |-> 0]]

AllActive == \A s \in Source : sources[s].active
SomeActive == \E s \in Source : sources[s].active
--------------------------------------------------------------------------------
(* The runtimes *)

Queued(run) == run.status = "none"
(* A run has the workflow of the commit that triggered it; jobs.<id>.if and env are
   evaluated when the job begins. *)
Triggered(r) == [NoRun EXCEPT !.status = "queued", !.gated = flags[r].gated]
Begun(run, r) ==
  IF run.gated /\ flags[r].pause THEN NoRun
  ELSE [run EXCEPT !.status = "in_progress", !.primary = run.gated /\ flags[r].primary]

Queue(r) ==
  /\ Queued(writers[r])
  /\ writers' = [writers EXCEPT ![r] = Triggered(r)]
  /\ UNCHANGED <<flags, control, sync, git, sources>>

Begin(r) ==
  /\ writers[r].status = "queued"
  /\ writers' = [writers EXCEPT ![r] = Begun(writers[r], r)]
  /\ UNCHANGED <<flags, control, sync, git, sources>>

(* A reviewed workflow is deployed while no run of the old one is queued: drain() asks
   for the runs in progress first, and would not see one that begins before it asks
   for the queued ones. *)
Deploy(r) ==
  /\ ~flags[r].gated /\ "queued" \notin {writers[r].status, sync.run.status}
  /\ flags' = [flags EXCEPT ![r].gated = TRUE]
  /\ UNCHANGED <<control, writers, sync, git, sources>>

(* A writer whose flag is not set takes Git for the authority. *)
Save(r, s) ==
  /\ writers[r].status = "in_progress" /\ ~writers[r].primary /\ s \in Writes[r]
  /\ git[s] < MaxWrites
  /\ git' = [git EXCEPT ![s] = @ + 1]
  /\ UNCHANGED <<flags, control, writers, sync, sources>>

Finish(r) ==
  /\ writers[r].status = "in_progress"
  /\ writers' = [writers EXCEPT ![r] = NoRun]
  /\ UNCHANGED <<flags, control, sync, git, sources>>
--------------------------------------------------------------------------------
(* The import *)

(* A source is cloned outside the lease, with the generation read before, if it
   is not active and its revision is not the one already held.  (The code reads
   all the generations when its import begins; it is the only one that runs.) *)
Cloneable(s) ==
  ~sources[s].active /\ ~(sources[s].generation > 0 /\ sources[s].holds = git[s])
Cloned(s) == [source |-> s, revision |-> git[s], generation |-> sources[s].generation]

(* publish_snapshot, under the lease that an activation needs too: the mode, and
   the generation. *)
Importable(clone) ==
  /\ ~sources[clone.source].active
  /\ sources[clone.source].generation = clone.generation /\ clone.generation < MaxImports
Imported(clone) ==
  [sources EXCEPT ![clone.source].generation = @ + 1, ![clone.source].holds = clone.revision]

SyncQueues ==
  /\ Queued(sync.run)
  /\ sync' = [sync EXCEPT !.run = Triggered(1)]
  /\ UNCHANGED <<flags, control, writers, git, sources>>

SyncBegins ==
  /\ sync.run.status = "queued"
  /\ sync' = [sync EXCEPT !.run = Begun(sync.run, 1)]
  /\ UNCHANGED <<flags, control, writers, git, sources>>

SyncClones(s) ==
  /\ sync.run.status = "in_progress" /\ sync.clone = NoClone /\ Cloneable(s)
  /\ sync' = [sync EXCEPT !.clone = Cloned(s)]
  /\ UNCHANGED <<flags, control, writers, git, sources>>

(* Imported or refused; an error leaves the other sources alone. *)
SyncImports ==
  /\ sync.run.status = "in_progress" /\ sync.clone # NoClone
  /\ sync' = [sync EXCEPT !.clone = NoClone]
  /\ sources' = IF Importable(sync.clone) THEN Imported(sync.clone) ELSE sources
  /\ UNCHANGED <<flags, control, writers, git>>

SyncFinishes ==
  /\ sync.run.status = "in_progress"
  /\ sync' = [run |-> NoRun, clone |-> NoClone]
  /\ UNCHANGED <<flags, control, writers, git, sources>>
--------------------------------------------------------------------------------
(* The control job *)

Stage(mode, stage) == control.mode = mode /\ control.stage = stage
To(stage) == control' = [control EXCEPT !.stage = stage, !.at = 1, !.busy = FALSE, !.clone = NoClone]
(* The next of n items, or the next stage. *)
Step(n, stage) ==
  IF control.at < n THEN control' = [control EXCEPT !.at = @ + 1, !.clone = NoClone] ELSE To(stage)
Others == UNCHANGED <<writers, sync, git>>

(* validate_deployments: every workflow that writes is a reviewed one, and heeds the
   variables; "resume" does not ask. *)
Validated == \A r \in Repo : flags[r].gated

Start(mode) ==
  /\ control.stage = "idle" /\ control.jobs < MaxControls
  /\ mode = "cutover" => Validated
  /\ control' = [NoControl EXCEPT !.mode = mode, !.jobs = control.jobs + 1,
                                  !.stage = IF mode = "cutover" THEN "pause" ELSE "inspect"]
  /\ UNCHANGED <<flags, sources>> /\ Others

Pause ==
  /\ Stage("cutover", "pause")
  /\ flags' = [flags EXCEPT ![control.at].pause = TRUE]
  /\ Step(Repos, "drain")
  /\ UNCHANGED sources /\ Others

(* drain: each repository, and in it one status after the other; its pass counts
   only when nothing was found in it. *)
Runs(r) == {writers[r].status} \cup (IF r = 1 THEN {sync.run.status} ELSE {})
Listed(at) == Runs((at + 1) \div 2)
Found(at) == (IF at % 2 = 1 THEN "in_progress" ELSE "queued") \in Listed(at)
Drain ==
  /\ Stage("cutover", "drain")
  /\ LET busy == control.busy \/ Found(control.at)
     IN IF control.at < 2 * Repos
        THEN control' = [control EXCEPT !.at = @ + 1, !.busy = busy]
        ELSE To(IF busy THEN "drain" ELSE "import")
  /\ UNCHANGED <<flags, sources>> /\ Others

(* The final import: an active source, or one whose revision is held, is left. *)
Import ==
  /\ Stage("cutover", "import") /\ UNCHANGED flags /\ Others
  /\ IF control.clone # NoClone
     THEN /\ Importable(control.clone)
          /\ sources' = Imported(control.clone) /\ Step(Sources, "activate")
     ELSE /\ UNCHANGED sources
          /\ IF Cloneable(control.at)
             THEN control' = [control EXCEPT !.clone = Cloned(control.at)]
             ELSE Step(Sources, "activate")

Activate ==
  /\ Stage("cutover", "activate") /\ sources[control.at].generation > 0
  /\ sources' = [sources EXCEPT ![control.at].active = TRUE]
  /\ Step(Sources, "flag")
  /\ UNCHANGED flags /\ Others

(* resume: all of the sources are active, or none. *)
Inspected == AllActive \/ ~SomeActive
Inspect ==
  /\ Stage("resume", "inspect") /\ Inspected
  /\ control' = [control EXCEPT !.stage = "flag", !.at = 1, !.wanted = AllActive]
  /\ UNCHANGED <<flags, sources>> /\ Others

Flag ==
  /\ control.stage = "flag"
  /\ flags' = [flags EXCEPT ![control.at].primary =
                 IF control.mode = "cutover" THEN TRUE ELSE control.wanted]
  /\ Step(Repos, IF control.mode = "cutover" THEN "verify" ELSE "unpause")
  /\ UNCHANGED sources /\ Others

Verify ==
  /\ Stage("cutover", "verify") /\ \A r \in Repo : flags[r].primary
  /\ To("unpause")
  /\ UNCHANGED <<flags, sources>> /\ Others

Unpause ==
  /\ control.stage = "unpause"
  /\ flags' = [flags EXCEPT ![control.at].pause = FALSE]
  /\ IF control.at < Repos THEN Step(Repos, "unpause")
                           ELSE control' = [NoControl EXCEPT !.jobs = control.jobs]
  /\ UNCHANGED sources /\ Others

(* An error, the deadline of drain(), or the job's time limit. *)
Stop ==
  /\ control.stage # "idle"
  /\ control' = [NoControl EXCEPT !.jobs = control.jobs]
  /\ UNCHANGED <<flags, sources>> /\ Others

Next ==
  \/ \E r \in Repo : Queue(r) \/ Begin(r) \/ Finish(r) \/ Deploy(r) \/ \E s \in Source : Save(r, s)
  \/ SyncQueues \/ SyncBegins \/ (\E s \in Source : SyncClones(s)) \/ SyncImports \/ SyncFinishes
  \/ \E mode \in {"cutover", "resume"} : Start(mode)
  \/ Pause \/ Drain \/ Import \/ Activate \/ Inspect \/ Flag \/ Verify \/ Unpause \/ Stop

Spec == Init /\ [][Next]_cutover
--------------------------------------------------------------------------------
(* Properties *)

(* The runs, the job and the sources. *)
TypeOK ==
  /\ \A r \in Repo : writers[r].status \in {"none", "queued", "in_progress"}
  /\ control.at \in 1..(2 * Repos) \cup Source
  /\ control.stage \in {"idle", "pause", "drain", "import", "activate", "inspect", "flag",
                        "verify", "unpause"}
  /\ git \in [Source -> 1..MaxWrites]
  /\ \A s \in Source : sources[s].holds \in 0..git[s] /\ sources[s].generation \in 0..MaxImports

(* Nothing that a writer saved in Git is missing from a source that is active,
   whatever was running when the cutover began and wherever it failed: the last
   import follows the last writer, and no later import replaces it ("after
   activation the database refuses an import from Git", docs/database-storage.md). *)
NothingIsLeftBehind == \A s \in Source : sources[s].active => sources[s].holds = git[s]

(* Old and new writers never run together: no writer takes Git for the
   authority once a source is active, and none runs for the database before all
   are, although a job can fail between two sources, two flags or two
   repositories and be retried or resumed ("a failed cutover stays paused",
   docs/database-storage.md). *)
OneAuthority ==
  \A r \in Repo :
    /\ writers[r].status = "in_progress" =>
         writers[r].primary = SomeActive /\ (SomeActive => AllActive)
    /\ ~flags[r].pause => flags[r].primary = SomeActive /\ (SomeActive => AllActive)
================================================================================
