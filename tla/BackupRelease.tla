----------------------------- MODULE BackupRelease -----------------------------
(***************************************************************************)
(* The daily backup (scripts/storage_sync.py, radar_core storage/documents: *)
(* export_sqlite, storage/backup_release.py) and its restoration            *)
(* (scripts/storage_restore.py).  A run exports the sources while their     *)
(* writers go on, and puts the three files of the export into the day's     *)
(* GitHub release, whose body becomes the receipt last of all.  Every       *)
(* request may be carried out although its answer is lost, and the run may  *)
(* die anywhere; the next one goes on with what it left.  The workflow's    *)
(* concurrency group lets one run at a time work.                           *)
(***************************************************************************)
EXTENDS Integers, Sequences, FiniteSets, Functions

CONSTANTS
  Source, Restorer,
  MaxGeneration,  \* BOUND on the commits of a source
  MaxDay,         \* BOUND on the days
  MaxExport,      \* BOUND on the exports
  MaxTrouble      \* BOUND on lost answers, broken uploads, deaths and damage

BackupAssumption ==
  {MaxGeneration, MaxExport, MaxTrouble} \subseteq Nat /\ MaxDay \in Nat \ {0}

VARIABLES
  heads,     \* the generation of every source, 0 before its first snapshot
  day,       \* the day in Taipei
  exports,   \* what each export made holds
  releases,  \* the release of each day
  job,       \* the run at work
  kept,      \* the export that each day's receipt was given for
  restorers, output,  \* restorations into one directory
  mishaps

vars == <<heads, day, exports, releases, job, kept, restorers, output, mishaps>>
--------------------------------------------------------------------------------
Day == 1..MaxDay
Asset == <<"radar.sql.gz", "manifest.json", "SHA256SUMS">>
AssetName == {Asset[i] : i \in 1..3}
Content == 1..MaxExport

NoFile == [content |-> 0, uploaded |-> FALSE]
NoRelease == [id |-> 0, receipt |-> 0, assets |-> [n \in AssetName |-> NoFile]]
NoJob == [pc |-> "idle", day |-> 1, heads |-> [s \in Source |-> 0], operations |-> 0,
          content |-> 0, release |-> 0, at |-> 1, hurt |-> FALSE]

(* The operations that the store has committed: their receipts are exported
   beside the sources. *)
Committed(h) == FoldFunction(+, 0, h)
Match(release, name, content) == release.assets[name] = [content |-> content, uploaded |-> TRUE]
Whole(release, content) == \A n \in AssetName : Match(release, n, content)

Init ==
  /\ heads = [s \in Source |-> 0]
  /\ day = 1
  /\ exports = <<>>
  /\ releases = [d \in Day |-> NoRelease]
  /\ job = NoJob
  /\ kept = [d \in Day |-> 0]
  /\ restorers = [r \in Restorer |-> 0]
  /\ output = 0
  /\ mishaps = 0
--------------------------------------------------------------------------------
(* The world *)

Trouble == mishaps < MaxTrouble /\ mishaps' = mishaps + 1
Calm == UNCHANGED mishaps

(* The export reads under the storage lease, which ends when the reader takes
   too long: then writers go on beneath it. *)
Commit(s) ==
  /\ heads[s] < MaxGeneration
  /\ heads' = [heads EXCEPT ![s] = @ + 1]
  /\ IF job.pc \in {"metadata", "export"} THEN Trouble ELSE Calm
  /\ UNCHANGED <<day, exports, releases, job, kept, restorers, output>>

Midnight ==
  /\ day < MaxDay
  /\ day' = day + 1
  /\ UNCHANGED <<heads, exports, releases, job, kept, restorers, output, mishaps>>

(* A maintainer withdraws a release, or one of its files: a receipt that the
   day had is then no longer kept. *)
Damage(d) ==
  /\ Trouble
  /\ releases[d] # NoRelease
  /\ \/ releases' = [releases EXCEPT ![d] = NoRelease]
     \/ \E n \in AssetName :
          /\ releases[d].assets[n] # NoFile
          /\ releases' = [releases EXCEPT ![d].assets[n] = NoFile]
  /\ kept' = [kept EXCEPT ![d] = 0]
  /\ job' = [job EXCEPT !.hurt = @ \/ (job.pc = "receipt" /\ job.day = d)]
  /\ UNCHANGED <<heads, day, exports, restorers, output>>
--------------------------------------------------------------------------------
(* The run.  Its release is that of the day on which it began. *)

mine == releases[job.day]
Rest == UNCHANGED <<heads, day, restorers, output>>
Goes(pc) == job' = [job EXCEPT !.pc = pc]
End == job' = NoJob
(* A receipt that its files do not bear out stops every run. *)
Completed == mine.receipt # 0 /\ Whole(mine, mine.receipt)
Damaged == mine.receipt # 0 /\ ~Whole(mine, mine.receipt)

(* A requested export makes its files although the day has a backup. *)
Start(requested) ==
  /\ job.pc = "idle" /\ Len(exports) < MaxExport
  /\ job' = [job EXCEPT !.pc = IF requested THEN "heads" ELSE "exists", !.day = day]
  /\ UNCHANGED <<exports, releases, kept>> /\ Calm /\ Rest

Exists ==
  /\ job.pc = "exists"
  /\ IF Completed \/ Damaged THEN End ELSE Goes("heads")
  /\ UNCHANGED <<exports, releases, kept>> /\ Calm /\ Rest

ReadHeads ==
  /\ job.pc = "heads"
  /\ IF \E s \in Source : heads[s] = 0
     THEN End
     ELSE job' = [job EXCEPT !.pc = "metadata", !.heads = heads]
  /\ UNCHANGED <<exports, releases, kept>> /\ Calm /\ Rest

ReadMetadata ==
  /\ job.pc = "metadata"
  /\ job' = [job EXCEPT !.pc = "export", !.operations = Committed(heads)]
  /\ UNCHANGED <<exports, releases, kept>> /\ Calm /\ Rest

(* The graph of those heads is immutable; the sources may have advanced. *)
Export ==
  /\ job.pc = "export"
  /\ IF heads # job.heads
     THEN End /\ UNCHANGED exports
     ELSE /\ exports' = Append(exports, [heads |-> job.heads, operations |-> job.operations])
          /\ job' = [job EXCEPT !.pc = "find", !.content = Len(exports) + 1]
  /\ UNCHANGED <<releases, kept>> /\ Calm /\ Rest

Find ==
  /\ job.pc = "find"
  /\ IF Completed \/ Damaged THEN End
     ELSE IF mine = NoRelease THEN Goes("create")
     ELSE job' = [job EXCEPT !.pc = "asset", !.release = mine.id]
  /\ UNCHANGED <<exports, releases, kept>> /\ Calm /\ Rest

(* The answer to the creation may be lost: the release is looked up. *)
Create ==
  /\ job.pc = "create"
  /\ \/ /\ LET new == IF mine = NoRelease THEN [NoRelease EXCEPT !.id = job.content] ELSE mine
           IN /\ releases' = [releases EXCEPT ![job.day] = new]
              /\ job' = [job EXCEPT !.pc = "asset", !.release = new.id]
        /\ Calm
     \/ Trouble /\ End /\ UNCHANGED releases
  /\ UNCHANGED <<exports, kept>> /\ Rest

name == Asset[job.at]
NextAsset == [job EXCEPT !.at = IF job.at = 3 THEN 1 ELSE @ + 1,
                         !.pc = IF job.at = 3 THEN "confirm" ELSE "asset"]

(* What an earlier run left under the name is removed first. *)
Remove ==
  /\ job.pc = "asset"
  /\ IF mine.id # job.release \/ Completed \/ Damaged
     THEN End /\ UNCHANGED releases /\ Calm
     ELSE IF Match(mine, name, job.content)
     THEN job' = NextAsset /\ UNCHANGED releases /\ Calm
     ELSE /\ releases' = [releases EXCEPT ![job.day].assets[name] = NoFile]
          /\ \/ Goes("upload") /\ Calm
             \/ End /\ Trouble
  /\ UNCHANGED <<exports, kept>> /\ Rest

(* An upload may be cut off, its answer lost; what counts then is the file
   that the release shows.  A name that is taken refuses it. *)
Upload ==
  /\ job.pc = "upload"
  /\ LET Put(whole) ==
           releases' = [releases EXCEPT ![job.day].assets[name] =
             IF mine.id = job.release /\ @ = NoFile
             THEN [content |-> job.content, uploaded |-> whole] ELSE @]
     IN \/ /\ Put(TRUE) /\ Calm
           /\ job' = IF releases'[job.day].id = job.release
                          /\ Match(releases'[job.day], name, job.content)
                     THEN NextAsset ELSE NoJob
        \/ Put(FALSE) /\ Trouble /\ (End \/ job' = NextAsset)
        \/ UNCHANGED releases /\ Trouble /\ End
  /\ UNCHANGED <<exports, kept>> /\ Rest

Confirm ==
  /\ job.pc = "confirm"
  /\ IF mine.id # job.release \/ Completed \/ Damaged \/ ~Whole(mine, job.content)
     THEN End ELSE Goes("receipt")
  /\ UNCHANGED <<exports, releases, kept>> /\ Calm /\ Rest

(* The body of the release is replaced.  If a maintainer has just changed the
   files (hurt), the receipt is not for what the run saw. *)
Receipt ==
  /\ job.pc = "receipt"
  /\ \/ /\ IF mine.id = job.release
           THEN /\ releases' = [releases EXCEPT ![job.day].receipt = job.content]
                /\ kept' = [kept EXCEPT ![job.day] = IF job.hurt THEN 0 ELSE job.content]
           ELSE UNCHANGED <<releases, kept>>
        /\ (Calm \/ Trouble) /\ End
     \/ UNCHANGED <<releases, kept>> /\ Trouble /\ End
  /\ UNCHANGED exports /\ Rest

Die ==
  /\ job.pc # "idle"
  /\ End /\ Trouble
  /\ UNCHANGED <<exports, releases, kept>> /\ Rest

Run ==
  \/ \E requested \in BOOLEAN : Start(requested)
  \/ Exists \/ ReadHeads \/ ReadMetadata \/ Export
  \/ Find \/ Create \/ Remove \/ Upload \/ Confirm \/ Receipt \/ Die
--------------------------------------------------------------------------------
(* Restoration: a downloaded dump is imported and verified in a directory of
   its own, which is renamed to the output only if nothing has that name. *)

(* An importer refuses a dump that is incomplete. *)
Dumps == {d \in Day : releases[d].assets["radar.sql.gz"].uploaded}

Import(r) ==
  /\ restorers[r] = 0 /\ output = 0
  /\ \E d \in Dumps :
       restorers' = [restorers EXCEPT ![r] = releases[d].assets["radar.sql.gz"].content]
  /\ UNCHANGED <<heads, day, exports, releases, job, kept, output, mishaps>>

Rename(r) ==
  /\ restorers[r] # 0
  /\ output' = IF output = 0 THEN restorers[r] ELSE output
  /\ restorers' = [restorers EXCEPT ![r] = 0]
  /\ UNCHANGED <<heads, day, exports, releases, job, kept, mishaps>>

Next ==
  \/ \E s \in Source : Commit(s)
  \/ Midnight
  \/ \E d \in Day : Damage(d)
  \/ Run
  \/ \E r \in Restorer : Import(r) \/ Rename(r)

Spec == Init /\ [][Next]_vars
--------------------------------------------------------------------------------
File == [content : 0..MaxExport, uploaded : BOOLEAN]
Release == [id : 0..MaxExport, receipt : 0..MaxExport, assets : [AssetName -> File]]
Heads == [Source -> 0..MaxGeneration]
Exported == [heads : Heads, operations : {Committed(h) : h \in Heads}]

(* Every variable has its type. *)
TypeOK ==
  /\ heads \in Heads
  /\ day \in Day
  /\ exports \in Seq(Exported)
  /\ releases \in [Day -> Release]
  /\ job.day \in Day /\ job.content \in 0..MaxExport /\ job.at \in 1..3
  /\ kept \in [Day -> 0..MaxExport]
  /\ restorers \in [Restorer -> 0..MaxExport]
  /\ output \in 0..MaxExport
  /\ mishaps \in 0..MaxTrouble

(* An export holds every source, each at the head of one moment, and the
   receipts of the operations committed by that moment. *)
Coherent(content) ==
  /\ \A s \in Source : exports[content].heads[s] > 0
  /\ exports[content].operations = Committed(exports[content].heads)

(* A day's receipt was given for the three files of one coherent export, and
   no later run changes them: what a run died with or another run left is
   never taken for a part of it.  The directory restored holds one too. *)
KeptIsWhole ==
  /\ \A d \in Day : kept[d] # 0 =>
       releases[d].receipt = kept[d] /\ Whole(releases[d], kept[d]) /\ Coherent(kept[d])
  /\ output # 0 => Coherent(output)

(* Neither a backup that has its receipt nor a directory that was restored is
   replaced. *)
KeepsBackups ==
  /\ \A d \in Day : kept[d] # 0 => kept'[d] \in {0, kept[d]}
  /\ output # 0 => output' = output
================================================================================
