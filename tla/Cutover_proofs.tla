----------------------------- MODULE Cutover_proofs -----------------------------
(***************************************************************************)
(* The cutover for any number of repositories and sources, whatever the    *)
(* writers save, and wherever control jobs stop: old and new writers never *)
(* run together, and nothing that was saved in Git is left behind.         *)
(*                                                                         *)
(* The argument: once every repository heeds the variables and is paused,  *)
(* no run can begin to work, so what a pass of drain() did not find working *)
(* stays idle (Calm).  From the end of drain() to the last activation      *)
(* Quiet holds, therefore Git does not move under the final import, and    *)
(* while only some of the sources are active nobody runs.                  *)
(***************************************************************************)
EXTENDS Cutover, TLAPS

Flags == [primary : BOOLEAN, pause : BOOLEAN, gated : BOOLEAN]
Run == [status : {"none", "queued", "in_progress"}, primary : BOOLEAN, gated : BOOLEAN]
Clone == [source : 0..Sources, revision : Nat, generation : Nat]
Stages == {"idle", "pause", "drain", "import", "activate", "inspect", "flag", "verify",
           "unpause"}
Control == [mode : {"none", "cutover", "resume"}, stage : Stages, at : Nat \ {0},
            busy : BOOLEAN, clone : Clone, wanted : BOOLEAN, jobs : Nat]

Types ==
  /\ flags \in [Repo -> Flags]
  /\ writers \in [Repo -> Run]
  /\ sync \in [run : Run, clone : Clone]
  /\ control \in Control
  /\ git \in [Source -> 1..MaxWrites]
  /\ sources \in [Source -> [active : BOOLEAN, generation : 0..MaxImports, holds : Nat]]

(* What an import has read of Git, Git still has. *)
ReadIn(clone) ==
  clone # NoClone => clone.source \in Source /\ clone.revision <= git[clone.source]
Reads ==
  /\ \A s \in Source : sources[s].holds <= git[s]
  /\ ReadIn(control.clone) /\ ReadIn(sync.clone)

(* A queued run has the workflow that its repository has. *)
AsDeployed ==
  /\ \A r \in Repo : writers[r].status = "queued" => writers[r].gated = flags[r].gated
  /\ sync.run.status = "queued" => sync.run.gated = flags[1].gated

AllGated == \A r \in Repo : flags[r].gated
AllPaused == \A r \in Repo : flags[r].pause
Works(r) == writers[r].status = "in_progress" \/ (r = 1 /\ sync.run.status = "in_progress")
Quiet == AllGated /\ AllPaused /\ \A r \in Repo : ~Works(r)
Settled == SomeActive => AllActive
Ready(s) == sources[s].holds = git[s]

(* What the control job has made sure of, by its stage. *)
StageOK ==
  /\ control.mode = "cutover" => AllGated
  /\ control.stage \in {"pause", "drain", "import", "activate", "verify"} =>
       control.mode = "cutover"
  /\ control.stage = "inspect" => control.mode = "resume"
  /\ control.stage \in {"idle", "inspect", "verify"} => control.at = 1
  /\ control.stage \in {"pause", "flag", "unpause"} => control.at \in Repo
  /\ control.stage \in {"import", "activate"} => control.at \in Source /\ Quiet
  /\ control.stage = "pause" => \A r \in Repo : r < control.at => flags[r].pause
  /\ control.stage = "drain" =>
       /\ control.at \in 1..(2 * Repos) /\ AllPaused
       /\ ~control.busy => \A r \in Repo : 2 * r - 1 < control.at => ~Works(r)
  /\ control.stage = "import" =>
       /\ \A s \in Source : s < control.at => Ready(s)
       /\ control.clone # NoClone =>
            control.clone.source = control.at /\ control.clone.revision = git[control.at]
  /\ control.stage = "activate" =>
       /\ \A s \in Source : Ready(s)
       /\ \A s \in Source : s < control.at => sources[s].active
  /\ control.stage = "flag" =>
       /\ Settled
       /\ control.mode = "cutover" => AllActive
       /\ control.mode # "cutover" => control.mode = "resume" /\ control.wanted = SomeActive
       /\ \A r \in Repo : r < control.at => flags[r].primary = SomeActive
  /\ control.stage = "verify" => AllActive
  /\ control.stage = "unpause" =>
       Settled /\ \A r \in Repo : flags[r].primary = SomeActive

Safe ==
  /\ SomeActive => AllGated
  /\ ~Settled => Quiet

IInv ==
  /\ Types /\ Reads /\ AsDeployed /\ StageOK /\ Safe
  /\ OneAuthority /\ NothingIsLeftBehind
--------------------------------------------------------------------------------
(* Steps of the runs *)

SameActive == \A s \in Source : sources'[s].active = sources[s].active

LEMMA ActiveSame ==
  ASSUME SameActive
  PROVE  /\ SomeActive' = SomeActive /\ AllActive' = AllActive /\ Settled' = Settled
  BY DEF SameActive, SomeActive, AllActive, Settled, Source

(* Nobody begins to work while all are paused. *)
Calm ==
  /\ UNCHANGED <<flags, control>> /\ SameActive
  /\ AllGated /\ AllPaused => \A r \in Repo : ~Works(r) => ~Works(r)'
  /\ Quiet => UNCHANGED <<git, sources>>

LEMMA RunStep ==
  ASSUME IInv, Calm, Types', Reads', AsDeployed', OneAuthority', NothingIsLeftBehind'
  PROVE  IInv'
  <1>1. /\ SomeActive' = SomeActive /\ AllActive' = AllActive /\ Settled' = Settled
        /\ AllGated' = AllGated /\ AllPaused' = AllPaused
    BY ActiveSame DEF Calm, AllGated, AllPaused
  <1>2. Quiet => Quiet' BY <1>1 DEF Quiet, Calm
  <1>3. Safe' BY <1>1, <1>2 DEF IInv, Safe
  <1>4. control.stage = "drain" => (~control.busy => \A r \in Repo : 2 * r - 1 < control.at => ~Works(r)')
    <2> SUFFICES ASSUME control.stage = "drain", ~control.busy, NEW r \in Repo, 2 * r - 1 < control.at
                 PROVE  ~Works(r)'
      OBVIOUS
    <2>1. AllGated /\ AllPaused /\ ~Works(r) BY DEF IInv, StageOK
    <2> QED BY <2>1 DEF Calm
  <1>5. control.stage \in {"import", "activate"} => Quiet /\ UNCHANGED <<git, sources>>
    BY DEF IInv, StageOK, Calm
  <1>6. StageOK'
    BY <1>1, <1>2, <1>4, <1>5 DEF IInv, StageOK, Calm, Ready, SameActive
  <1> QED BY <1>3, <1>6 DEF IInv

LEMMA QueueKeeps ==
  ASSUME CutoverAssumption, IInv, NEW r \in Repo, Queue(r)
  PROVE  IInv'
  <1>1. flags[r] \in Flags /\ Triggered(r) \in Run
        /\ Triggered(r).status = "queued" /\ Triggered(r).gated = flags[r].gated
    BY DEF IInv, Types, Triggered, NoRun, Run, Flags
  <1>2. writers' = [writers EXCEPT ![r] = Triggered(r)] /\ UNCHANGED <<flags, control, sync, git, sources>>
    BY DEF Queue
  <1>3. Types' BY <1>1, <1>2 DEF IInv, Types
  <1>4. writers \in [Repo -> Run] BY DEF IInv, Types
  <1>5. writers'[r] = Triggered(r) /\ \A q \in Repo : q # r => writers'[q] = writers[q]
    BY <1>2, <1>4
  <1>6. \A q \in Repo : writers'[q].status = "in_progress" => writers'[q] = writers[q]
    BY <1>1, <1>5
  <1>7. Calm BY <1>2, <1>6 DEF Calm, SameActive, Works
  <1>8. Reads' BY <1>2 DEF IInv, Reads, ReadIn
  <1>9. AsDeployed' BY <1>1, <1>2, <1>5 DEF IInv, AsDeployed
  <1>10. OneAuthority' BY <1>2, <1>6 DEF IInv, OneAuthority, SomeActive, AllActive
  <1>11. NothingIsLeftBehind' BY <1>2 DEF IInv, NothingIsLeftBehind
  <1> QED BY <1>3, <1>7, <1>8, <1>9, <1>10, <1>11, RunStep

(* A run that begins was not paused, or has a workflow that asks no variables. *)
LEMMA BegunRun ==
  ASSUME NEW run \in Run, NEW r \in Repo, flags[r] \in Flags
  PROVE  /\ Begun(run, r) \in Run
         /\ Begun(run, r).status \in {"none", "in_progress"}
         /\ Begun(run, r).status = "in_progress" =>
              /\ run.gated => ~flags[r].pause /\ Begun(run, r).primary = flags[r].primary
              /\ ~run.gated => Begun(run, r).primary = FALSE
  BY DEF Begun, NoRun, Run, Flags

LEMMA BeginKeeps ==
  ASSUME CutoverAssumption, IInv, NEW r \in Repo, Begin(r)
  PROVE  IInv'
  <1> DEFINE run == Begun(writers[r], r)
  <1>1. /\ writers[r] \in Run /\ flags[r] \in Flags /\ writers \in [Repo -> Run]
        /\ writers[r].status = "queued" /\ writers[r].gated = flags[r].gated
    BY DEF IInv, Types, Begin, AsDeployed
  <1>2. /\ run \in Run /\ run.status \in {"none", "in_progress"}
        /\ run.status = "in_progress" =>
              /\ flags[r].gated => ~flags[r].pause /\ run.primary = flags[r].primary
              /\ ~flags[r].gated => run.primary = FALSE
    BY <1>1, BegunRun
  <1>3. writers' = [writers EXCEPT ![r] = run] /\ UNCHANGED <<flags, control, sync, git, sources>>
    BY DEF Begin
  <1> HIDE DEF run
  <1>4. Types' BY <1>2, <1>3 DEF IInv, Types
  <1>5. writers'[r] = run /\ \A q \in Repo : q # r => writers'[q] = writers[q]
    BY <1>1, <1>3
  <1>6. AllGated /\ AllPaused => run.status # "in_progress"
    BY <1>2 DEF AllGated, AllPaused
  <1>7. Calm BY <1>3, <1>5, <1>6 DEF Calm, SameActive, Works
  <1>8. Reads' BY <1>3 DEF IInv, Reads, ReadIn
  <1>9. AsDeployed' BY <1>2, <1>3, <1>5 DEF IInv, AsDeployed
  <1>10. SomeActive' = SomeActive /\ AllActive' = AllActive
    BY <1>3 DEF SomeActive, AllActive
  <1>11. run.status = "in_progress" => run.primary = SomeActive /\ (SomeActive => AllActive)
    <2>1. CASE flags[r].gated BY <1>2, <2>1 DEF IInv, OneAuthority
    <2>2. CASE ~flags[r].gated
      <3>1. SomeActive = FALSE BY <2>2 DEF IInv, Safe, AllGated, SomeActive
      <3>2. run.status = "in_progress" => run.primary = FALSE BY <1>2, <2>2
      <3> QED BY <3>1, <3>2
    <2> QED BY <2>1, <2>2
  <1>12. OneAuthority' BY <1>3, <1>5, <1>10, <1>11 DEF IInv, OneAuthority
  <1>13. NothingIsLeftBehind' BY <1>3 DEF IInv, NothingIsLeftBehind
  <1> QED BY <1>4, <1>7, <1>8, <1>9, <1>12, <1>13, RunStep

LEMMA FinishKeeps ==
  ASSUME CutoverAssumption, IInv, NEW r \in Repo, Finish(r)
  PROVE  IInv'
  <1>1. /\ writers' = [writers EXCEPT ![r] = NoRun] /\ UNCHANGED <<flags, control, sync, git, sources>>
        /\ NoRun \in Run /\ NoRun.status = "none" /\ writers \in [Repo -> Run]
    BY DEF Finish, NoRun, Run, IInv, Types
  <1>2. Types' BY <1>1 DEF IInv, Types
  <1>3. writers'[r] = NoRun /\ \A q \in Repo : q # r => writers'[q] = writers[q]
    BY <1>1
  <1>4. Calm BY <1>1, <1>3 DEF Calm, SameActive, Works
  <1>5. Reads' BY <1>1 DEF IInv, Reads, ReadIn
  <1>6. AsDeployed' BY <1>1, <1>3 DEF IInv, AsDeployed
  <1>7. OneAuthority' BY <1>1, <1>3 DEF IInv, OneAuthority, SomeActive, AllActive
  <1>8. NothingIsLeftBehind' BY <1>1 DEF IInv, NothingIsLeftBehind
  <1> QED BY <1>2, <1>4, <1>5, <1>6, <1>7, <1>8, RunStep
LEMMA DeployKeeps ==
  ASSUME CutoverAssumption, IInv, NEW r \in Repo, Deploy(r)
  PROVE  IInv'
  <1>1. /\ flags' = [flags EXCEPT ![r].gated = TRUE] /\ UNCHANGED <<control, writers, sync, git, sources>>
        /\ flags \in [Repo -> Flags] /\ writers \in [Repo -> Run] /\ ~flags[r].gated
        /\ writers[r].status # "queued" /\ sync.run.status # "queued"
    BY DEF Deploy, IInv, Types
  <1>2. /\ flags' \in [Repo -> Flags] /\ flags'[r].gated
        /\ \A q \in Repo : /\ flags'[q].primary = flags[q].primary /\ flags'[q].pause = flags[q].pause
                           /\ flags[q].gated => flags'[q].gated
                           /\ q # r => flags'[q].gated = flags[q].gated
    BY <1>1 DEF Flags
  <1>3. Types' BY <1>1, <1>2 DEF IInv, Types
  <1>4. Reads' BY <1>1 DEF IInv, Reads, ReadIn
  <1>5. AsDeployed' BY <1>1, <1>2 DEF IInv, AsDeployed
  <1>6. /\ SomeActive' = SomeActive /\ AllActive' = AllActive /\ Settled' = Settled
        /\ (AllGated => AllGated') /\ AllPaused' = AllPaused /\ \A q \in Repo : Works(q)' = Works(q)
    BY <1>1, <1>2 DEF SomeActive, AllActive, Settled, AllGated, AllPaused, Works
  <1>7. Quiet => Quiet' BY <1>6 DEF Quiet
  <1>8. Safe' BY <1>6, <1>7 DEF IInv, Safe
  <1>9. OneAuthority' BY <1>1, <1>2, <1>6 DEF IInv, OneAuthority
  <1>10. NothingIsLeftBehind' BY <1>1 DEF IInv, NothingIsLeftBehind
  <1>11. StageOK'
    BY <1>1, <1>2, <1>6, <1>7 DEF IInv, StageOK, Ready
  <1> QED BY <1>3, <1>4, <1>5, <1>8, <1>9, <1>10, <1>11 DEF IInv

LEMMA SaveKeeps ==
  ASSUME CutoverAssumption, IInv, NEW r \in Repo, NEW s \in Source, Save(r, s)
  PROVE  IInv'
  <1>1. /\ git' = [git EXCEPT ![s] = git[s] + 1] /\ UNCHANGED <<flags, control, writers, sync, sources>>
        /\ git \in [Source -> 1..MaxWrites] /\ git[s] < MaxWrites /\ MaxWrites \in Nat
        /\ writers[r].status = "in_progress" /\ ~writers[r].primary
    BY DEF Save, IInv, Types, CutoverAssumption
  <1>2. git' \in [Source -> 1..MaxWrites] /\ \A q \in Source : git[q] <= git'[q]
    BY <1>1
  <1>3. Types' BY <1>1, <1>2 DEF IInv, Types
  <1>4. Reads'
    <2>1. /\ \A q \in Source : sources[q].holds \in Nat /\ sources[q].holds <= git[q]
          /\ control.clone \in Clone /\ sync.clone \in Clone
          /\ ReadIn(control.clone) /\ ReadIn(sync.clone)
          /\ \A q \in Source : git[q] \in Nat /\ git'[q] \in Nat
      BY <1>1, <1>2 DEF IInv, Types, Reads, Control
    <2>2. ReadIn(control.clone)' /\ ReadIn(sync.clone)'
      BY <1>1, <1>2, <2>1 DEF ReadIn, Clone
    <2> QED BY <1>1, <1>2, <2>1, <2>2 DEF Reads
  <1>5. AsDeployed' BY <1>1 DEF IInv, AsDeployed
  <1>6. ~SomeActive BY <1>1 DEF IInv, OneAuthority
  <1>7. Calm BY <1>1 DEF Calm, SameActive, Works, Quiet
  <1>8. OneAuthority' BY <1>1 DEF IInv, OneAuthority, SomeActive, AllActive
  <1>9. NothingIsLeftBehind' BY <1>1, <1>6 DEF NothingIsLeftBehind, SomeActive
  <1> QED BY <1>3, <1>4, <1>5, <1>7, <1>8, <1>9, RunStep
--------------------------------------------------------------------------------
(* Steps of the import *)

LEMMA SyncQueuesKeeps ==
  ASSUME CutoverAssumption, IInv, SyncQueues
  PROVE  IInv'
  <1>1. /\ sync' = [sync EXCEPT !.run = Triggered(1)] /\ UNCHANGED <<flags, control, writers, git, sources>>
        /\ sync \in [run : Run, clone : Clone] /\ 1 \in Repo /\ flags \in [Repo -> Flags]
    BY DEF SyncQueues, IInv, Types, Repo, CutoverAssumption
  <1>2. Triggered(1) \in Run /\ Triggered(1).status = "queued" /\ Triggered(1).gated = flags[1].gated
    BY <1>1 DEF Triggered, NoRun, Run, Flags
  <1>3. sync'.run = Triggered(1) /\ sync'.clone = sync.clone /\ sync' \in [run : Run, clone : Clone]
    BY <1>1, <1>2
  <1>4. Types' BY <1>1, <1>3 DEF IInv, Types
  <1>5. Reads' BY <1>1, <1>3 DEF IInv, Reads, ReadIn
  <1>6. AsDeployed' BY <1>1, <1>2, <1>3 DEF IInv, AsDeployed
  <1>7. Calm BY <1>1, <1>2, <1>3 DEF Calm, SameActive, Works
  <1>8. OneAuthority' BY <1>1 DEF IInv, OneAuthority, SomeActive, AllActive
  <1>9. NothingIsLeftBehind' BY <1>1 DEF IInv, NothingIsLeftBehind
  <1> QED BY <1>4, <1>5, <1>6, <1>7, <1>8, <1>9, RunStep

LEMMA SyncBeginsKeeps ==
  ASSUME CutoverAssumption, IInv, SyncBegins
  PROVE  IInv'
  <1> DEFINE run == Begun(sync.run, 1)
  <1>1. /\ sync' = [sync EXCEPT !.run = run] /\ UNCHANGED <<flags, control, writers, git, sources>>
        /\ sync \in [run : Run, clone : Clone] /\ 1 \in Repo /\ flags[1] \in Flags
        /\ sync.run.gated = flags[1].gated
    <2>1. 1 \in Repo BY DEF Repo, CutoverAssumption
    <2>2. flags[1] \in Flags /\ sync \in [run : Run, clone : Clone] BY <2>1 DEF IInv, Types
    <2>3. sync.run.gated = flags[1].gated BY DEF SyncBegins, IInv, AsDeployed
    <2> QED BY <2>1, <2>2, <2>3 DEF SyncBegins
  <1>2. /\ run \in Run /\ run.status \in {"none", "in_progress"}
        /\ run.status = "in_progress" /\ flags[1].gated => ~flags[1].pause
    BY <1>1, BegunRun
  <1> HIDE DEF run
  <1>3. sync'.run = run /\ sync'.clone = sync.clone /\ sync' \in [run : Run, clone : Clone]
    BY <1>1, <1>2
  <1>4. Types' BY <1>1, <1>3 DEF IInv, Types
  <1>5. Reads' BY <1>1, <1>3 DEF IInv, Reads, ReadIn
  <1>6. AsDeployed' BY <1>1, <1>2, <1>3 DEF IInv, AsDeployed
  <1>7. Calm BY <1>1, <1>2, <1>3 DEF Calm, SameActive, Works, AllGated, AllPaused
  <1>8. OneAuthority' BY <1>1 DEF IInv, OneAuthority, SomeActive, AllActive
  <1>9. NothingIsLeftBehind' BY <1>1 DEF IInv, NothingIsLeftBehind
  <1> QED BY <1>4, <1>5, <1>6, <1>7, <1>8, <1>9, RunStep

(* What is cloned is what Git has now. *)
LEMMA ClonedIs ==
  ASSUME CutoverAssumption, IInv, NEW s \in Source
  PROVE  /\ Cloned(s) \in Clone /\ Cloned(s).source = s /\ Cloned(s).revision = git[s]
         /\ Cloned(s) # NoClone
  <1>1. /\ git[s] \in Nat /\ git[s] >= 1 /\ sources[s].generation \in Nat
        /\ s \in 1..Sources /\ Sources \in Nat
    BY DEF IInv, Types, CutoverAssumption, Source
  <1> QED BY <1>1 DEF Cloned, Clone, NoClone

LEMMA SyncClonesKeeps ==
  ASSUME CutoverAssumption, IInv, NEW s \in Source, SyncClones(s)
  PROVE  IInv'
  <1>1. /\ sync' = [sync EXCEPT !.clone = Cloned(s)] /\ UNCHANGED <<flags, control, writers, git, sources>>
        /\ sync \in [run : Run, clone : Clone]
    BY DEF SyncClones, IInv, Types
  <1>2. Cloned(s) \in Clone /\ Cloned(s).source = s /\ Cloned(s).revision = git[s] BY ClonedIs
  <1>3. sync'.run = sync.run /\ sync'.clone = Cloned(s) /\ sync' \in [run : Run, clone : Clone]
    BY <1>1, <1>2
  <1>4. Types' BY <1>1, <1>3 DEF IInv, Types
  <1>5. Reads'
    <2>1. git[s] \in Nat BY DEF IInv, Types
    <2> QED BY <1>1, <1>2, <1>3, <2>1 DEF IInv, Reads, ReadIn
  <1>6. AsDeployed' BY <1>1, <1>3 DEF IInv, AsDeployed
  <1>7. Calm BY <1>1, <1>3 DEF Calm, SameActive, Works
  <1>8. OneAuthority' BY <1>1 DEF IInv, OneAuthority, SomeActive, AllActive
  <1>9. NothingIsLeftBehind' BY <1>1 DEF IInv, NothingIsLeftBehind
  <1> QED BY <1>4, <1>5, <1>6, <1>7, <1>8, <1>9, RunStep

(* An import changes a source that is not active, to what was cloned of it. *)
LEMMA ImportedIs ==
  ASSUME CutoverAssumption, IInv, NEW clone \in Clone, clone # NoClone, ReadIn(clone),
         Importable(clone)
  PROVE  /\ clone.source \in Source
         /\ Imported(clone) \in [Source -> [active : BOOLEAN, generation : 0..MaxImports, holds : Nat]]
         /\ ~sources[clone.source].active
         /\ ~Imported(clone)[clone.source].active
         /\ Imported(clone)[clone.source].holds = clone.revision
         /\ \A s \in Source : s # clone.source => Imported(clone)[s] = sources[s]
  <1>1. /\ clone.source \in Source /\ clone.revision \in Nat /\ clone.generation \in Nat
        /\ sources \in [Source -> [active : BOOLEAN, generation : 0..MaxImports, holds : Nat]]
        /\ ~sources[clone.source].active /\ MaxImports \in Nat
        /\ sources[clone.source].generation < MaxImports
    BY DEF Importable, ReadIn, IInv, Types, CutoverAssumption, Clone
  <1> QED BY <1>1 DEF Imported

LEMMA SyncImportsKeeps ==
  ASSUME CutoverAssumption, IInv, SyncImports
  PROVE  IInv'
  <1> DEFINE clone == sync.clone
  <1>1. /\ sync' = [sync EXCEPT !.clone = NoClone] /\ UNCHANGED <<flags, control, writers, git>>
        /\ sources' = IF Importable(clone) THEN Imported(clone) ELSE sources
        /\ sync \in [run : Run, clone : Clone] /\ clone # NoClone /\ ReadIn(clone)
        /\ sync.run.status = "in_progress"
    BY DEF SyncImports, IInv, Types, Reads
  <1>2. NoClone \in Clone BY DEF NoClone, Clone, CutoverAssumption
  <1>3. sync'.run = sync.run /\ sync'.clone = NoClone /\ sync' \in [run : Run, clone : Clone]
    BY <1>1, <1>2
  <1>4. /\ sources' \in [Source -> [active : BOOLEAN, generation : 0..MaxImports, holds : Nat]]
        /\ \A s \in Source : sources'[s] = sources[s]
             \/ /\ ~sources[s].active /\ ~sources'[s].active
                /\ s = clone.source /\ sources'[s].holds = clone.revision
    <2>1. CASE Importable(clone)
      <3>1. clone \in Clone BY <1>1
      <3> HIDE DEF clone
      <3> QED BY <1>1, <2>1, <3>1, ImportedIs
    <2>2. CASE ~Importable(clone) BY <1>1, <2>2 DEF IInv, Types
    <2> QED BY <2>1, <2>2
  <1>5. Types' BY <1>1, <1>3, <1>4 DEF IInv, Types
  <1>6. Reads'
    <2>1. \A s \in Source : sources'[s].holds <= git'[s]
      BY <1>1, <1>4 DEF IInv, Reads, ReadIn
    <2> QED BY <1>1, <1>3, <2>1 DEF IInv, Reads, ReadIn
  <1>7. AsDeployed' BY <1>1, <1>3 DEF IInv, AsDeployed
  <1>8. SameActive
    <2>1. \A s \in Source : sources[s].active \in BOOLEAN /\ sources'[s].active \in BOOLEAN
      BY <1>4 DEF IInv, Types
    <2> QED BY <1>4, <2>1 DEF SameActive
  <1>9. ~Quiet BY <1>1 DEF Quiet, Works, Repo, CutoverAssumption
  <1>10. Calm BY <1>1, <1>3, <1>8, <1>9 DEF Calm, Works
  <1>11. OneAuthority' BY <1>1, <1>8, ActiveSame DEF IInv, OneAuthority
  <1>12. NothingIsLeftBehind' BY <1>1, <1>4 DEF IInv, NothingIsLeftBehind
  <1> QED BY <1>5, <1>6, <1>7, <1>10, <1>11, <1>12, RunStep

LEMMA SyncFinishesKeeps ==
  ASSUME CutoverAssumption, IInv, SyncFinishes
  PROVE  IInv'
  <1>1. /\ sync' = [run |-> NoRun, clone |-> NoClone] /\ UNCHANGED <<flags, control, writers, git, sources>>
        /\ NoClone \in Clone /\ NoRun \in Run /\ NoRun.status = "none"
    BY DEF SyncFinishes, NoClone, Clone, NoRun, Run, CutoverAssumption
  <1>2. sync'.run = NoRun /\ sync'.clone = NoClone /\ sync' \in [run : Run, clone : Clone]
    BY <1>1
  <1>3. Types' BY <1>1, <1>2 DEF IInv, Types
  <1>4. Reads' BY <1>1, <1>2 DEF IInv, Reads, ReadIn
  <1>5. AsDeployed' BY <1>1, <1>2 DEF IInv, AsDeployed
  <1>6. Calm BY <1>1, <1>2 DEF Calm, SameActive, Works
  <1>7. OneAuthority' BY <1>1 DEF IInv, OneAuthority, SomeActive, AllActive
  <1>8. NothingIsLeftBehind' BY <1>1 DEF IInv, NothingIsLeftBehind
  <1> QED BY <1>3, <1>4, <1>5, <1>6, <1>7, <1>8, RunStep
--------------------------------------------------------------------------------
(* Steps of the control job *)

(* The next stage, and the next of n items. *)
AtStage(stage) ==
  /\ control' \in Control /\ control'.stage = stage /\ control'.mode = control.mode
  /\ control'.at = 1 /\ ~control'.busy /\ control'.clone = NoClone
  /\ control'.wanted = control.wanted
AtNext ==
  /\ control' \in Control /\ control'.stage = control.stage /\ control'.mode = control.mode
  /\ control'.at = control.at + 1 /\ control'.busy = control.busy /\ control'.clone = NoClone
  /\ control'.wanted = control.wanted

LEMMA NoCloneIs == CutoverAssumption => NoClone \in Clone
  BY DEF NoClone, Clone, CutoverAssumption

Job(mode, stage, at, busy, clone, wanted, jobs) ==
  [mode |-> mode, stage |-> stage, at |-> at, busy |-> busy, clone |-> clone,
   wanted |-> wanted, jobs |-> jobs]

LEMMA IdleIs ==
  ASSUME CutoverAssumption, NEW jobs \in Nat
  PROVE  Job("none", "idle", 1, FALSE, NoClone, FALSE, jobs) \in Control
  BY NoCloneIs DEF Job, Control, Stages

LEMMA ToIs ==
  ASSUME CutoverAssumption, control \in Control, NEW stage \in Stages, To(stage)
  PROVE  AtStage(stage)
  <1>1. control' = Job(control.mode, stage, 1, FALSE, NoClone, control.wanted, control.jobs)
    BY DEF To, Control, Job
  <1>2. control' \in Control BY <1>1, NoCloneIs DEF Job, Control
  <1> QED BY <1>1, <1>2 DEF Job, AtStage

LEMMA StepIs ==
  ASSUME CutoverAssumption, control \in Control, NEW stage \in Stages, NEW n \in Nat, Step(n, stage)
  PROVE  (control.at < n /\ AtNext) \/ (control.at >= n /\ AtStage(stage))
  <1>1. CASE control.at < n
    <2>1. control' = Job(control.mode, control.stage, control.at + 1, control.busy, NoClone,
                         control.wanted, control.jobs)
      BY <1>1 DEF Step, Control, Job
    <2>2. control' \in Control BY <2>1, NoCloneIs DEF Job, Control
    <2>3. /\ control'.stage = control.stage /\ control'.mode = control.mode
          /\ control'.at = control.at + 1 /\ control'.clone = NoClone
      BY <2>1 DEF Job
    <2>4. control'.busy = control.busy BY <2>1 DEF Job
    <2>5. control'.wanted = control.wanted BY <2>1 DEF Job
    <2> QED BY <1>1, <2>2, <2>3, <2>4, <2>5 DEF AtNext
  <1>2. CASE ~(control.at < n)
    <2>1. control.at >= n BY <1>2 DEF Control
    <2> QED BY <1>2, <2>1, ToIs DEF Step
  <1> QED BY <1>1, <1>2

(* A step that changes only the job. *)
LEMMA JobStep ==
  ASSUME IInv, UNCHANGED <<flags, writers, sync, git, sources>>,
         control' \in Control, ReadIn(control'.clone), StageOK'
  PROVE  IInv'
  <1>1. Types' BY DEF IInv, Types
  <1>2. Reads' BY DEF IInv, Reads, ReadIn
  <1>3. AsDeployed' BY DEF IInv, AsDeployed
  <1>4. Safe'
    BY DEF IInv, Safe, SomeActive, AllActive, Settled, AllGated, AllPaused, Quiet, Works
  <1>5. OneAuthority' BY DEF IInv, OneAuthority, SomeActive, AllActive
  <1>6. NothingIsLeftBehind' BY DEF IInv, NothingIsLeftBehind
  <1> QED BY <1>1, <1>2, <1>3, <1>4, <1>5, <1>6 DEF IInv

(* What a stage may rely on does not depend on the job. *)
LEMMA SameFacts ==
  ASSUME UNCHANGED <<flags, writers, sync, git, sources>>
  PROVE  /\ SomeActive' = SomeActive /\ AllActive' = AllActive /\ Settled' = Settled
         /\ AllGated' = AllGated /\ AllPaused' = AllPaused /\ Quiet' = Quiet
         /\ \A r \in Repo : Works(r)' = Works(r)
         /\ \A s \in Source : Ready(s)' = Ready(s)
  BY DEF SomeActive, AllActive, Settled, AllGated, AllPaused, Quiet, Works, Ready

LEMMA IdleKeeps ==
  ASSUME CutoverAssumption, IInv, UNCHANGED <<flags, writers, sync, git, sources>>,
         control' = [NoControl EXCEPT !.jobs = control.jobs]
  PROVE  IInv'
  <1>1. /\ control' \in Control /\ control'.mode = "none" /\ control'.stage = "idle"
        /\ control'.clone = NoClone /\ control'.at = 1
    <2>1. control' = Job("none", "idle", 1, FALSE, NoClone, FALSE, control.jobs)
      BY DEF NoControl, Job
    <2>2. control.jobs \in Nat BY DEF IInv, Types, Control
    <2>3. control' \in Control BY <2>1, <2>2, IdleIs
    <2> QED BY <2>1, <2>3 DEF Job
  <1>2. ReadIn(control'.clone) BY <1>1 DEF ReadIn
  <1>3. StageOK' BY <1>1 DEF StageOK
  <1> QED BY <1>1, <1>2, <1>3, JobStep

LEMMA StopKeeps ==
  ASSUME CutoverAssumption, IInv, Stop
  PROVE  IInv'
  BY IdleKeeps DEF Stop, Others

LEMMA StartKeeps ==
  ASSUME CutoverAssumption, IInv, NEW mode \in {"cutover", "resume"}, Start(mode)
  PROVE  IInv'
  <1>1. /\ control' \in Control /\ control'.mode = mode /\ control'.at = 1
        /\ control'.clone = NoClone
        /\ control'.stage = IF mode = "cutover" THEN "pause" ELSE "inspect"
    <2> DEFINE stage == IF mode = "cutover" THEN "pause" ELSE "inspect"
    <2>1. control' = Job(mode, stage, 1, FALSE, NoClone, FALSE, control.jobs + 1)
      BY DEF NoControl, Job, Start
    <2>2. stage \in Stages /\ control.jobs + 1 \in Nat BY DEF Stages, IInv, Types, Control
    <2>3. control' \in Control BY <2>1, <2>2, NoCloneIs DEF Job, Control
    <2> QED BY <2>1, <2>3 DEF Job
  <1>2. ReadIn(control'.clone) BY <1>1 DEF ReadIn
  <1>3. UNCHANGED <<flags, writers, sync, git, sources>> BY DEF Start, Others
  <1>4. mode = "cutover" => AllGated' BY <1>3 DEF Start, Validated, AllGated
  <1>5. 1 \in Repo /\ \A r \in Repo : ~(r < 1) BY DEF Repo, CutoverAssumption
  <1>6. StageOK' BY <1>1, <1>4, <1>5 DEF StageOK
  <1> QED BY <1>1, <1>2, <1>3, <1>6, JobStep

LEMMA InspectKeeps ==
  ASSUME CutoverAssumption, IInv, Inspect
  PROVE  IInv'
  <1>1. /\ control' \in Control /\ control'.mode = "resume" /\ control'.at = 1
        /\ control'.clone = control.clone /\ control'.stage = "flag"
        /\ control'.wanted = AllActive
    <2> DEFINE wanted == AllActive
    <2>1. control \in Control /\ wanted \in BOOLEAN BY DEF IInv, Types, AllActive
    <2>2. control' = Job("resume", "flag", 1, control.busy, control.clone, wanted, control.jobs)
      BY <2>1 DEF Inspect, Stage, Control, Job
    <2>3. control' \in Control BY <2>1, <2>2 DEF Job, Control, Stages
    <2> QED BY <2>2, <2>3 DEF Job
  <1>2. ReadIn(control'.clone) BY <1>1 DEF IInv, Reads
  <1>3. UNCHANGED <<flags, writers, sync, git, sources>> BY DEF Inspect, Others
  <1>4. AllActive = SomeActive
    <2>1. 1 \in Source BY DEF Source, CutoverAssumption
    <2> QED BY <2>1 DEF Inspect, Inspected, AllActive, SomeActive
  <1>5. 1 \in Repo /\ \A r \in Repo : ~(r < 1) BY DEF Repo, CutoverAssumption
  <1>6. Settled BY <1>4 DEF Settled
  <1>7. StageOK' BY <1>1, <1>3, <1>4, <1>5, <1>6, SameFacts DEF StageOK
  <1> QED BY <1>1, <1>2, <1>3, <1>7, JobStep

LEMMA VerifyKeeps ==
  ASSUME CutoverAssumption, IInv, Verify
  PROVE  IInv'
  <1>1. AtStage("unpause") BY ToIs DEF Verify, IInv, Types, Stages
  <1>2. control'.mode = "cutover" BY <1>1 DEF Verify, Stage, AtStage
  <1>3. UNCHANGED <<flags, writers, sync, git, sources>> BY DEF Verify, Others
  <1>4. AllActive /\ AllGated BY DEF Verify, Stage, IInv, StageOK
  <1>5. SomeActive /\ Settled
    <2>1. 1 \in Source BY DEF Source, CutoverAssumption
    <2> QED BY <1>4, <2>1 DEF AllActive, SomeActive, Settled
  <1>6. \A r \in Repo : flags'[r].primary = SomeActive'
    <2>1. SomeActive' = TRUE BY <1>3, <1>5, SameFacts DEF SomeActive
    <2>2. \A r \in Repo : flags[r].primary = TRUE BY DEF Verify, IInv, Types, Flags
    <2> QED BY <1>3, <2>1, <2>2
  <1>7. 1 \in Repo BY DEF Repo, CutoverAssumption
  <1>8. StageOK' BY <1>1, <1>2, <1>3, <1>4, <1>5, <1>6, <1>7, SameFacts DEF StageOK, AtStage
  <1>9. ReadIn(control'.clone) BY <1>1 DEF ReadIn, AtStage
  <1> QED BY <1>1, <1>3, <1>8, <1>9, JobStep DEF AtStage

(* A pass that counts has found nobody at work, one repository after the other. *)
LEMMA DrainKeeps ==
  ASSUME CutoverAssumption, IInv, Drain
  PROVE  IInv'
  <1> DEFINE busy == control.busy \/ Found(control.at)
  <1>1. /\ UNCHANGED <<flags, writers, sync, git, sources>> /\ control \in Control
        /\ control.mode = "cutover" /\ control.stage = "drain"
        /\ IF control.at < 2 * Repos
           THEN control' = [control EXCEPT !.at = @ + 1, !.busy = busy]
           ELSE To(IF busy THEN "drain" ELSE "import")
    BY DEF Drain, Stage, Others, IInv, Types
  <1>2. /\ control.at \in 1..(2 * Repos) /\ AllPaused /\ AllGated /\ Repos \in Nat
        /\ ~control.busy => \A r \in Repo : 2 * r - 1 < control.at => ~Works(r)
    BY <1>1 DEF IInv, StageOK, CutoverAssumption
  <1>3. ~busy => \A r \in Repo : 2 * r - 1 < control.at + 1 => ~Works(r)
    <2> SUFFICES ASSUME ~control.busy, ~Found(control.at), NEW r \in Repo,
                        2 * r - 1 < control.at + 1
                 PROVE  ~Works(r)
      OBVIOUS
    <2>1. CASE 2 * r - 1 < control.at BY <1>2, <2>1
    <2>2. CASE control.at = 2 * r - 1
      <3>1. control.at % 2 = 1 /\ (control.at + 1) \div 2 = r BY <2>2 DEF Repo
      <3>2. "in_progress" \notin Runs(r) BY <3>1 DEF Found, Listed
      <3> QED BY <3>2 DEF Runs, Works
    <2> QED BY <1>2, <2>1, <2>2 DEF Repo
  <1> HIDE DEF busy
  <1>4. CASE control.at < 2 * Repos
    <2>1. busy \in BOOLEAN BY <1>1 DEF busy, Control, Found
    <2>2. control' = Job("cutover", "drain", control.at + 1, busy, control.clone,
                         control.wanted, control.jobs)
      BY <1>1, <1>4 DEF Control, Job
    <2>3. /\ control' \in Control /\ control'.mode = "cutover" /\ control'.stage = "drain"
          /\ control'.at = control.at + 1 /\ control'.busy = busy /\ control'.clone = control.clone
      <3>1. control' \in Control BY <1>1, <2>1, <2>2 DEF Job, Control, Stages
      <3> QED BY <2>2, <3>1 DEF Job
    <2>4. ReadIn(control'.clone) BY <2>3 DEF IInv, Reads
    <2>5. control'.at \in 1..(2 * Repos) BY <1>2, <1>4, <2>3
    <2>6. StageOK' BY <1>1, <1>2, <1>3, <2>3, <2>5, SameFacts DEF StageOK
    <2> QED BY <1>1, <2>3, <2>4, <2>6, JobStep
  <1>5. CASE ~(control.at < 2 * Repos) /\ busy
    <2>1. AtStage("drain") BY <1>1, <1>5, ToIs DEF Stages
    <2>2. 1 \in 1..(2 * Repos) /\ \A r \in Repo : ~(2 * r - 1 < 1)
      BY DEF CutoverAssumption, Repo
    <2>3. StageOK' BY <1>1, <1>2, <2>1, <2>2, SameFacts DEF StageOK, AtStage
    <2>4. ReadIn(control'.clone) BY <2>1 DEF ReadIn, AtStage
    <2> QED BY <1>1, <2>1, <2>3, <2>4, JobStep DEF AtStage
  <1>6. CASE ~(control.at < 2 * Repos) /\ ~busy
    <2>1. AtStage("import") BY <1>1, <1>6, ToIs DEF Stages
    <2>2. \A r \in Repo : 2 * r - 1 < control.at + 1 BY <1>2, <1>6 DEF Repo
    <2>3. Quiet BY <1>2, <1>3, <1>6, <2>2 DEF Quiet
    <2>4. 1 \in Source /\ \A s \in Source : ~(s < 1) BY DEF Source, CutoverAssumption
    <2>5. StageOK' BY <1>1, <1>2, <2>1, <2>3, <2>4, SameFacts DEF StageOK, AtStage
    <2>6. ReadIn(control'.clone) BY <2>1 DEF ReadIn, AtStage
    <2> QED BY <1>1, <2>1, <2>5, <2>6, JobStep DEF AtStage
  <1> QED BY <1>4, <1>5, <1>6

(* The next repository is paused, or all are. *)
LEMMA PauseKeeps ==
  ASSUME CutoverAssumption, IInv, Pause
  PROVE  IInv'
  <1> DEFINE n == control.at
  <1>1. /\ flags' = [flags EXCEPT ![n].pause = TRUE] /\ UNCHANGED <<sources, writers, sync, git>>
        /\ control.mode = "cutover" /\ control.stage = "pause" /\ control \in Control
        /\ flags \in [Repo -> Flags] /\ n \in Repo /\ AllGated
        /\ \A r \in Repo : r < n => flags[r].pause
    BY DEF Pause, Stage, Others, IInv, Types, StageOK
  <1>2. (n < Repos /\ AtNext) \/ (n >= Repos /\ AtStage("drain"))
    BY <1>1, StepIs DEF Pause, Stages, CutoverAssumption
  <1>3. /\ flags' \in [Repo -> Flags] /\ flags'[n].pause
        /\ \A r \in Repo : /\ flags'[r].primary = flags[r].primary /\ flags'[r].gated = flags[r].gated
                           /\ flags[r].pause => flags'[r].pause
    BY <1>1 DEF Flags
  <1> HIDE DEF n
  <1>4. control' \in Control /\ control'.mode = "cutover" /\ control'.clone = NoClone
    BY <1>1, <1>2 DEF AtNext, AtStage
  <1>5. Types' BY <1>1, <1>3, <1>4 DEF IInv, Types
  <1>6. Reads' BY <1>1, <1>4 DEF IInv, Reads, ReadIn
  <1>7. AsDeployed'
    <2>1. 1 \in Repo BY DEF Repo, CutoverAssumption
    <2> QED BY <1>1, <1>3, <2>1 DEF IInv, AsDeployed
  <1>8. /\ SomeActive' = SomeActive /\ AllActive' = AllActive /\ Settled' = Settled
        /\ AllGated' /\ (AllPaused => AllPaused') /\ \A r \in Repo : Works(r)' = Works(r)
    BY <1>1, <1>3 DEF SomeActive, AllActive, Settled, AllGated, AllPaused, Works
  <1>9. Safe' BY <1>8 DEF IInv, Safe, Quiet
  <1>10. OneAuthority' BY <1>1, <1>3, <1>8 DEF IInv, OneAuthority
  <1>11. NothingIsLeftBehind' BY <1>1 DEF IInv, NothingIsLeftBehind
  <1>12. StageOK'
    <2>1. CASE n < Repos /\ AtNext
      <3>1. /\ control'.stage = "pause" /\ control'.at = n + 1 /\ control'.at \in Repo
        BY <1>1, <2>1 DEF AtNext, n, Repo, CutoverAssumption
      <3>2. \A r \in Repo : r < n + 1 => flags'[r].pause
        <4>1. \A r \in Repo : r < n + 1 => r < n \/ r = n BY <1>1 DEF Repo
        <4> QED BY <1>1, <1>3, <4>1
      <3> QED BY <1>4, <1>8, <3>1, <3>2 DEF StageOK
    <2>2. CASE n >= Repos /\ AtStage("drain")
      <3>1. control'.stage = "drain" /\ control'.at = 1 BY <2>2 DEF AtStage
      <3>2. 1 \in 1..(2 * Repos) /\ \A r \in Repo : ~(2 * r - 1 < 1)
        BY DEF CutoverAssumption, Repo
      <3>3. \A r \in Repo : r < n \/ r = n
        BY <1>1, <2>2 DEF Repo, CutoverAssumption
      <3>4. AllPaused' BY <1>1, <1>3, <3>3 DEF AllPaused
      <3> QED BY <1>4, <1>8, <3>1, <3>2, <3>4 DEF StageOK
    <2> QED BY <1>2, <2>1, <2>2
  <1> QED BY <1>5, <1>6, <1>7, <1>9, <1>10, <1>11, <1>12 DEF IInv

(* Every step that changes only the flags, of one repository that is left where
   the database or Git is the authority of all. *)
LEMMA FlagsStep ==
  ASSUME CutoverAssumption, IInv, UNCHANGED <<sources, writers, sync, git>>,
         flags' \in [Repo -> Flags],
         \A r \in Repo : flags'[r].gated = flags[r].gated,
         Settled, \A r \in Repo : ~flags'[r].pause => flags'[r].primary = SomeActive,
         control' \in Control, control'.clone = NoClone, StageOK'
  PROVE  IInv'
  <1>1. Types' BY DEF IInv, Types
  <1>2. Reads' BY DEF IInv, Reads, ReadIn
  <1>3. AsDeployed'
    <2>1. 1 \in Repo BY DEF Repo, CutoverAssumption
    <2> QED BY <2>1 DEF IInv, AsDeployed
  <1>4. SomeActive' = SomeActive /\ AllActive' = AllActive /\ Settled' /\ AllGated' = AllGated
    BY DEF SomeActive, AllActive, Settled, AllGated
  <1>5. Safe' BY <1>4 DEF IInv, Safe
  <1>6. OneAuthority' BY <1>4 DEF IInv, OneAuthority, Settled
  <1>7. NothingIsLeftBehind' BY DEF IInv, NothingIsLeftBehind
  <1> QED BY <1>1, <1>2, <1>3, <1>5, <1>6, <1>7 DEF IInv

LEMMA FlagKeeps ==
  ASSUME CutoverAssumption, IInv, Flag
  PROVE  IInv'
  <1> DEFINE n == control.at
             value == IF control.mode = "cutover" THEN TRUE ELSE control.wanted
             next == IF control.mode = "cutover" THEN "verify" ELSE "unpause"
  <1>1. /\ flags' = [flags EXCEPT ![n].primary = value] /\ UNCHANGED <<sources, writers, sync, git>>
        /\ control.stage = "flag" /\ control \in Control /\ n \in Repo
        /\ flags \in [Repo -> Flags] /\ Settled /\ (control.mode = "cutover" => AllActive /\ AllGated)
        /\ control.mode # "cutover" => control.mode = "resume" /\ control.wanted = SomeActive
        /\ \A r \in Repo : r < n => flags[r].primary = SomeActive
    BY DEF Flag, Others, IInv, Types, StageOK
  <1>2. value \in BOOLEAN /\ value = SomeActive
    <2>1. CASE control.mode = "cutover"
      <3>1. AllActive BY <1>1, <2>1
      <3>2. 1 \in Source BY DEF Source, CutoverAssumption
      <3>3. SomeActive = TRUE BY <3>1, <3>2 DEF SomeActive, AllActive
      <3> QED BY <2>1, <3>3
    <2>2. CASE control.mode # "cutover"
      <3>1. control.wanted \in BOOLEAN BY <1>1 DEF Control
      <3> QED BY <1>1, <2>2, <3>1
    <2> QED BY <2>1, <2>2
  <1>3. (n < Repos /\ AtNext) \/ (n >= Repos /\ AtStage(next))
    BY <1>1, StepIs DEF Flag, Stages, CutoverAssumption
  <1> HIDE DEF n, value
  <1>4. /\ flags' \in [Repo -> Flags] /\ flags'[n].primary = value
        /\ \A r \in Repo : /\ flags'[r].pause = flags[r].pause /\ flags'[r].gated = flags[r].gated
                           /\ r # n => flags'[r] = flags[r]
    BY <1>1, <1>2 DEF Flags
  <1>5. \A r \in Repo : ~flags'[r].pause => flags'[r].primary = SomeActive
    BY <1>2, <1>4 DEF IInv, OneAuthority
  <1>6. /\ control' \in Control /\ control'.mode = control.mode /\ control'.clone = NoClone
        /\ control'.wanted = control.wanted
    BY <1>3 DEF AtNext, AtStage
  <1>7. SomeActive' = SomeActive /\ AllActive' = AllActive /\ Settled' = Settled /\ AllGated' = AllGated
    BY <1>1, <1>4 DEF SomeActive, AllActive, Settled, AllGated
  <1>8. StageOK'
    <2>1. CASE n < Repos /\ AtNext
      <3>1. /\ control'.stage = "flag" /\ control'.at = n + 1 /\ control'.at \in Repo
        BY <1>1, <2>1 DEF AtNext, n, Repo, CutoverAssumption
      <3>2. \A r \in Repo : r < n + 1 => r < n \/ r = n BY <1>1 DEF Repo
      <3>3. \A r \in Repo : r < n => r # n BY <1>1 DEF Repo
      <3>4. \A r \in Repo : r < n + 1 => flags'[r].primary = SomeActive
        BY <1>1, <1>2, <1>4, <3>2, <3>3
      <3> QED BY <1>1, <1>6, <1>7, <3>1, <3>4 DEF StageOK
    <2>2. CASE n >= Repos /\ AtStage(next)
      <3>1. control'.stage = next /\ control'.at = 1 BY <2>2 DEF AtStage
      <3>2. 1 \in Repo BY DEF CutoverAssumption, Repo
      <3>3. \A r \in Repo : r = n \/ (r < n /\ r # n)
        BY <1>1, <2>2 DEF Repo, CutoverAssumption
      <3>4. \A r \in Repo : flags'[r].primary = SomeActive BY <1>1, <1>2, <1>4, <3>3
      <3> QED BY <1>1, <1>6, <1>7, <3>1, <3>2, <3>4 DEF StageOK
    <2> QED BY <1>3, <2>1, <2>2
  <1> QED BY <1>1, <1>4, <1>5, <1>6, <1>8, FlagsStep

LEMMA UnpauseKeeps ==
  ASSUME CutoverAssumption, IInv, Unpause
  PROVE  IInv'
  <1> DEFINE n == control.at
  <1>1. /\ flags' = [flags EXCEPT ![n].pause = FALSE] /\ UNCHANGED <<sources, writers, sync, git>>
        /\ control.stage = "unpause" /\ control \in Control /\ n \in Repo
        /\ flags \in [Repo -> Flags] /\ Settled /\ \A r \in Repo : flags[r].primary = SomeActive
        /\ control.mode = "cutover" => AllGated
    BY DEF Unpause, Others, IInv, Types, StageOK
  <1> HIDE DEF n
  <1>2. /\ flags' \in [Repo -> Flags]
        /\ \A r \in Repo : flags'[r].primary = flags[r].primary /\ flags'[r].gated = flags[r].gated
    BY <1>1 DEF Flags
  <1>3. \A r \in Repo : flags'[r].primary = SomeActive BY <1>1, <1>2
  <1>4. SomeActive' = SomeActive /\ Settled' = Settled /\ AllGated' = AllGated
    BY <1>1, <1>2 DEF SomeActive, AllActive, Settled, AllGated
  <1>5. control' \in Control /\ control'.clone = NoClone /\ StageOK'
    <2>1. CASE control.at < Repos
      <3>1. Step(Repos, "unpause") BY <2>1 DEF Unpause
      <3>2. AtNext BY <1>1, <2>1, <3>1, StepIs DEF Stages, CutoverAssumption, Control
      <3>3. /\ control'.stage = "unpause" /\ control'.at = n + 1 /\ control'.at \in Repo
            /\ control'.mode = control.mode
        BY <1>1, <2>1, <3>2 DEF AtNext, n, Repo, CutoverAssumption
      <3>4. StageOK' BY <1>1, <1>3, <1>4, <3>3 DEF StageOK
      <3> QED BY <3>2, <3>4 DEF AtNext
    <2>2. CASE ~(control.at < Repos)
      <3>1. control' = Job("none", "idle", 1, FALSE, NoClone, FALSE, control.jobs)
        BY <2>2 DEF Unpause, NoControl, Job
      <3>2. control.jobs \in Nat BY <1>1 DEF Control
      <3>3. control' \in Control BY <3>1, <3>2, IdleIs
      <3>4. /\ control'.mode = "none" /\ control'.stage = "idle" /\ control'.clone = NoClone
            /\ control'.at = 1
        BY <3>1 DEF Job
      <3> QED BY <3>3, <3>4 DEF StageOK
    <2> QED BY <2>1, <2>2
  <1> QED BY <1>1, <1>2, <1>3, <1>5, FlagsStep

(* The final import reads a Git that does not move. *)
LEMMA ImportKeeps ==
  ASSUME CutoverAssumption, IInv, Import
  PROVE  IInv'
  <1> DEFINE n == control.at
             clone == control.clone
  <1>1. /\ control.mode = "cutover" /\ control.stage = "import" /\ UNCHANGED <<flags, writers, sync, git>>
        /\ control \in Control /\ n \in Source /\ Quiet /\ AllGated /\ AllPaused
        /\ \A s \in Source : s < n => Ready(s)
        /\ clone # NoClone => clone.source = n /\ clone.revision = git[n]
        /\ clone \in Clone /\ ReadIn(clone) /\ Sources \in Nat
    BY DEF Import, Stage, Others, IInv, Types, StageOK, Quiet, Reads, Control, CutoverAssumption
  <1>2. CASE clone = NoClone /\ Cloneable(n)
    <2>1. control' = Job("cutover", "import", n, control.busy, Cloned(n), control.wanted, control.jobs)
      BY <1>1, <1>2 DEF Import, Control, Job
    <2>2. /\ Cloned(n) \in Clone /\ Cloned(n).source = n /\ Cloned(n).revision = git[n]
          /\ git[n] \in Nat
      BY <1>1, ClonedIs DEF IInv, Types
    <2>3. control' \in Control BY <1>1, <2>1, <2>2 DEF Job, Control, Stages
    <2>4. /\ control'.mode = "cutover" /\ control'.stage = "import" /\ control'.at = n
          /\ control'.clone = Cloned(n)
      BY <2>1 DEF Job
    <2>5. UNCHANGED <<flags, writers, sync, git, sources>> BY <1>1, <1>2 DEF Import
    <2>6. ReadIn(control'.clone) BY <1>1, <2>2, <2>4 DEF ReadIn
    <2>7. git'[n] = git[n] BY <2>5
    <2> HIDE DEF n, clone
    <2>8. StageOK' BY <1>1, <2>2, <2>4, <2>5, <2>7, SameFacts DEF StageOK
    <2> QED BY <2>3, <2>5, <2>6, <2>8, JobStep
  <1>3. CASE ~(clone = NoClone /\ Cloneable(n))
    <2>1. /\ sources' \in [Source -> [active : BOOLEAN, generation : 0..MaxImports, holds : Nat]]
          /\ \A s \in Source : sources'[s] = sources[s]
               \/ /\ ~sources[s].active /\ ~sources'[s].active
                  /\ s = n /\ sources'[s].holds = git[s]
          /\ sources'[n].holds = git[n] /\ Step(Sources, "activate")
      <3>1. CASE clone # NoClone
        <4>1. Importable(clone) /\ sources' = Imported(clone) /\ Step(Sources, "activate")
          BY <3>1 DEF Import
        <4> HIDE DEF clone, n
        <4> QED BY <1>1, <3>1, <4>1, ImportedIs
      <3>2. CASE clone = NoClone
        <4>1. sources' = sources /\ ~Cloneable(n) /\ Step(Sources, "activate")
          BY <1>3, <3>2 DEF Import
        <4>2. sources[n].holds = git[n] BY <1>1, <4>1 DEF Cloneable, IInv, NothingIsLeftBehind
        <4> QED BY <4>1, <4>2 DEF IInv, Types
      <3> QED BY <3>1, <3>2
    <2>2. (n < Sources /\ AtNext) \/ (n >= Sources /\ AtStage("activate"))
      BY <1>1, <2>1, StepIs DEF Stages, CutoverAssumption
    <2> HIDE DEF n, clone
    <2>3. control' \in Control /\ control'.mode = "cutover" /\ control'.clone = NoClone
      BY <1>1, <2>2 DEF AtNext, AtStage
    <2>4. Types' BY <1>1, <2>1, <2>3 DEF IInv, Types
    <2>5. Reads'
      <3>1. \A s \in Source : git[s] \in Nat BY DEF IInv, Types
      <3> QED BY <1>1, <2>1, <2>3, <3>1 DEF IInv, Reads, ReadIn
    <2>6. AsDeployed' BY <1>1 DEF IInv, AsDeployed
    <2>7. SameActive
      <3>1. \A s \in Source : sources[s].active \in BOOLEAN /\ sources'[s].active \in BOOLEAN
        BY <2>1 DEF IInv, Types
      <3> QED BY <2>1, <3>1 DEF SameActive
    <2>8. /\ SomeActive' = SomeActive /\ AllActive' = AllActive /\ Settled' = Settled
          /\ AllGated' = AllGated /\ AllPaused' = AllPaused /\ \A r \in Repo : Works(r)' = Works(r)
          /\ Quiet'
      BY <1>1, <2>7, ActiveSame DEF AllGated, AllPaused, Works, Quiet
    <2>9. Safe' BY <1>1, <2>8 DEF Safe
    <2>10. OneAuthority' BY <1>1, <2>8 DEF IInv, OneAuthority
    <2>11. NothingIsLeftBehind' BY <1>1, <2>1 DEF IInv, NothingIsLeftBehind
    <2>12. \A s \in Source : s < n \/ s = n => Ready(s)'
      BY <1>1, <2>1 DEF Ready
    <2>13. StageOK'
      <3>1. CASE n < Sources /\ AtNext
        <4>1. /\ control'.stage = "import" /\ control'.at = n + 1 /\ control'.at \in Source
          BY <1>1, <3>1 DEF AtNext, n, Source
        <4>2. \A s \in Source : s < n + 1 => s < n \/ s = n BY <1>1 DEF Source
        <4> QED BY <1>1, <2>3, <2>8, <2>12, <4>1, <4>2 DEF StageOK
      <3>2. CASE n >= Sources /\ AtStage("activate")
        <4>1. control'.stage = "activate" /\ control'.at = 1 BY <3>2 DEF AtStage
        <4>2. 1 \in Source /\ \A s \in Source : ~(s < 1) BY DEF Source, CutoverAssumption
        <4>3. \A s \in Source : s < n \/ s = n BY <1>1, <3>2 DEF Source
        <4> QED BY <1>1, <2>3, <2>8, <2>12, <4>1, <4>2, <4>3 DEF StageOK
      <3> QED BY <2>2, <3>1, <3>2
    <2> QED BY <2>4, <2>5, <2>6, <2>9, <2>10, <2>11, <2>13 DEF IInv
  <1> QED BY <1>2, <1>3

(* A source becomes active when nobody runs. *)
LEMMA ActivateKeeps ==
  ASSUME CutoverAssumption, IInv, Activate
  PROVE  IInv'
  <1> DEFINE n == control.at
  <1>1. /\ control.mode = "cutover" /\ control.stage = "activate" /\ UNCHANGED <<flags, writers, sync, git>>
        /\ sources' = [sources EXCEPT ![n].active = TRUE]
        /\ control \in Control /\ n \in Source /\ Quiet /\ AllGated /\ Sources \in Nat
        /\ \A s \in Source : Ready(s)
        /\ \A s \in Source : s < n => sources[s].active
        /\ sources \in [Source -> [active : BOOLEAN, generation : 0..MaxImports, holds : Nat]]
    BY DEF Activate, Stage, Others, IInv, Types, StageOK, CutoverAssumption
  <1>2. (n < Sources /\ AtNext) \/ (n >= Sources /\ AtStage("flag"))
    BY <1>1, StepIs DEF Activate, Stages, CutoverAssumption
  <1> HIDE DEF n
  <1>3. /\ sources' \in [Source -> [active : BOOLEAN, generation : 0..MaxImports, holds : Nat]]
        /\ sources'[n].active
        /\ \A s \in Source : /\ sources'[s].holds = sources[s].holds
                             /\ sources[s].active => sources'[s].active
    BY <1>1
  <1>4. control' \in Control /\ control'.mode = "cutover" /\ control'.clone = NoClone
    BY <1>1, <1>2 DEF AtNext, AtStage
  <1>5. Types' BY <1>1, <1>3, <1>4 DEF IInv, Types
  <1>6. Reads' BY <1>1, <1>3, <1>4 DEF IInv, Reads, ReadIn
  <1>7. AsDeployed' BY <1>1 DEF IInv, AsDeployed
  <1>8. AllGated' = AllGated /\ AllPaused' = AllPaused /\ Quiet' /\ AllGated'
    BY <1>1 DEF AllGated, AllPaused, Works, Quiet
  <1>9. Safe' BY <1>8 DEF Safe
  <1>10. OneAuthority'
    <2>1. \A r \in Repo : writers[r].status # "in_progress" /\ flags[r].pause = TRUE
      BY <1>1 DEF Quiet, Works, AllPaused, IInv, Types, Flags
    <2> QED BY <1>1, <2>1 DEF OneAuthority
  <1>11. \A s \in Source : sources'[s].holds = git'[s] BY <1>1, <1>3 DEF Ready
  <1>12. StageOK'
    <2>1. CASE n < Sources /\ AtNext
      <3>1. /\ control'.stage = "activate" /\ control'.at = n + 1 /\ control'.at \in Source
        BY <1>1, <2>1 DEF AtNext, n, Source
      <3>2. \A s \in Source : s < n + 1 => s < n \/ s = n BY <1>1 DEF Source
      <3>3. \A s \in Source : s < n + 1 => sources'[s].active BY <1>1, <1>3, <3>2
      <3> QED BY <1>4, <1>8, <1>11, <1>1, <3>1, <3>3 DEF StageOK, Ready
    <2>2. CASE n >= Sources /\ AtStage("flag")
      <3>1. control'.stage = "flag" /\ control'.at = 1 BY <2>2 DEF AtStage
      <3>2. 1 \in Repo /\ \A r \in Repo : ~(r < 1) BY DEF Repo, CutoverAssumption
      <3>3. \A s \in Source : s < n \/ s = n BY <1>1, <2>2 DEF Source
      <3>4. AllActive' /\ Settled' BY <1>1, <1>3, <3>3 DEF AllActive, Settled
      <3> QED BY <1>1, <1>4, <1>8, <3>1, <3>2, <3>4 DEF StageOK
    <2> QED BY <1>2, <2>1, <2>2
  <1> QED BY <1>5, <1>6, <1>7, <1>9, <1>10, <1>11, <1>12 DEF IInv, NothingIsLeftBehind
--------------------------------------------------------------------------------
LEMMA InvInit ==
  ASSUME CutoverAssumption, Init
  PROVE  IInv
  <1>1. /\ 1 \in Repo /\ 1 \in Source /\ MaxWrites \in Nat /\ MaxWrites >= 1 /\ MaxImports \in Nat
        /\ NoClone \in Clone /\ NoRun \in Run
    BY NoCloneIs DEF CutoverAssumption, Repo, Source, NoRun, Run
  <1>2. control = Job("none", "idle", 1, FALSE, NoClone, FALSE, 0)
    BY DEF Init, NoControl, Job
  <1>3. control \in Control BY <1>2, IdleIs
  <1>4. /\ control.mode = "none" /\ control.stage = "idle" /\ control.clone = NoClone
        /\ control.at = 1
    BY <1>2 DEF Job
  <1>5. flags \in [Repo -> Flags] BY DEF Init, Flags
  <1>6. sync \in [run : Run, clone : Clone] BY <1>1 DEF Init
  <1>7. writers \in [Repo -> Run] /\ \A r \in Repo : writers[r].status = "none" BY <1>1 DEF Init, NoRun
  <1>8. git \in [Source -> 1..MaxWrites] BY <1>1 DEF Init
  <1>9. /\ sources \in [Source -> [active : BOOLEAN, generation : 0..MaxImports, holds : Nat]]
        /\ \A s \in Source : sources[s].active = FALSE /\ sources[s].holds = 0
    BY <1>1 DEF Init
  <1>10. Types BY <1>3, <1>5, <1>6, <1>7, <1>8, <1>9 DEF Types
  <1>11. ~SomeActive BY <1>9 DEF SomeActive
  <1>12. Reads BY <1>4, <1>9, <1>8 DEF Init, Reads, ReadIn
  <1>13. AsDeployed BY <1>7 DEF AsDeployed, Init, NoRun
  <1>14. StageOK BY <1>4 DEF StageOK
  <1>15. Safe BY <1>11 DEF Safe, Settled
  <1>16. OneAuthority
    <2>1. SomeActive = FALSE BY <1>9 DEF SomeActive
    <2>2. \A r \in Repo : flags[r].primary = FALSE BY DEF Init
    <2> QED BY <1>7, <2>1, <2>2 DEF OneAuthority
  <1>17. NothingIsLeftBehind BY <1>9 DEF NothingIsLeftBehind
  <1> QED BY <1>10, <1>12, <1>13, <1>14, <1>15, <1>16, <1>17 DEF IInv

LEMMA StutterKeeps ==
  ASSUME CutoverAssumption, IInv, UNCHANGED cutover
  PROVE  IInv'
  <1>1. UNCHANGED <<flags, writers, sync, git, sources>> /\ control' = control BY DEF cutover
  <1>2. control' \in Control /\ ReadIn(control'.clone) BY <1>1 DEF IInv, Types, Reads
  <1>3. StageOK' BY <1>1, SameFacts DEF IInv, StageOK
  <1> QED BY <1>1, <1>2, <1>3, JobStep

LEMMA InvNext ==
  ASSUME CutoverAssumption, IInv, [Next]_cutover
  PROVE  IInv'
  <1>1. ASSUME NEW r \in Repo, Queue(r) PROVE IInv' BY <1>1, QueueKeeps
  <1>2. ASSUME NEW r \in Repo, Begin(r) PROVE IInv' BY <1>2, BeginKeeps
  <1>3. ASSUME NEW r \in Repo, Finish(r) PROVE IInv' BY <1>3, FinishKeeps
  <1>4. ASSUME NEW r \in Repo, Deploy(r) PROVE IInv' BY <1>4, DeployKeeps
  <1>5. ASSUME NEW r \in Repo, NEW s \in Source, Save(r, s) PROVE IInv' BY <1>5, SaveKeeps
  <1>6. ASSUME NEW s \in Source, SyncClones(s) PROVE IInv' BY <1>6, SyncClonesKeeps
  <1>7. ASSUME NEW mode \in {"cutover", "resume"}, Start(mode) PROVE IInv' BY <1>7, StartKeeps
  <1>8. ASSUME SyncQueues \/ SyncBegins \/ SyncImports \/ SyncFinishes PROVE IInv'
    BY <1>8, SyncQueuesKeeps, SyncBeginsKeeps, SyncImportsKeeps, SyncFinishesKeeps
  <1>9. ASSUME Pause \/ Drain \/ Import \/ Activate PROVE IInv'
    BY <1>9, PauseKeeps, DrainKeeps, ImportKeeps, ActivateKeeps
  <1>10. ASSUME Inspect \/ Flag \/ Verify \/ Unpause \/ Stop PROVE IInv'
    BY <1>10, InspectKeeps, FlagKeeps, VerifyKeeps, UnpauseKeeps, StopKeeps
  <1>11. CASE Next
    BY <1>1, <1>2, <1>3, <1>4, <1>5, <1>6, <1>7, <1>8, <1>9, <1>10, <1>11 DEF Next
  <1>12. CASE UNCHANGED cutover BY <1>12, StutterKeeps
  <1> QED BY <1>11, <1>12

LEMMA InvAlways == ASSUME CutoverAssumption PROVE Spec => []IInv
  BY InvInit, InvNext, PTL DEF Spec

LEMMA InvGives ==
  ASSUME CutoverAssumption, IInv
  PROVE  TypeOK /\ OneAuthority /\ NothingIsLeftBehind
  <1>1. control.at \in 1..(2 * Repos) \cup Source
    <2>1. \/ control.at \in Repo \/ control.at \in Source
          \/ control.at = 1 \/ control.at \in 1..(2 * Repos)
      BY DEF IInv, StageOK, Types, Control, Stages
    <2>2. 1 \in Repo /\ \A r \in Repo : r \in 1..(2 * Repos) BY DEF Repo, CutoverAssumption
    <2> QED BY <2>1, <2>2
  <1>2. \A r \in Repo : writers[r].status \in {"none", "queued", "in_progress"}
    BY DEF IInv, Types, Run
  <1>3. control.stage \in Stages /\ git \in [Source -> 1..MaxWrites]
    BY DEF IInv, Types, Control
  <1>4. \A s \in Source : sources[s].holds \in 0..git[s] /\ sources[s].generation \in 0..MaxImports
    BY DEF IInv, Types, Reads
  <1> QED BY <1>1, <1>2, <1>3, <1>4 DEF TypeOK, Stages, IInv

(* The runs, the job and the sources, and how far an import has read of Git:
   wherever a control job stops, whoever writes meanwhile. *)
THEOREM TypeCorrect == ASSUME CutoverAssumption PROVE Spec => []TypeOK
  BY InvAlways, InvGives, PTL

(* No writer takes Git for the authority once a source is active and none runs for
   the database before all are, for any number of repositories and sources and of
   control jobs that fail between two of their steps. *)
THEOREM AuthorityAlways == ASSUME CutoverAssumption PROVE Spec => []OneAuthority
  BY InvAlways, InvGives, PTL

(* The source that is activated holds all that the writers saved in Git, however
   many writers and imports were running when the cutover began. *)
THEOREM LeftBehindNever == ASSUME CutoverAssumption PROVE Spec => []NothingIsLeftBehind
  BY InvAlways, InvGives, PTL
================================================================================
