----------------------------- MODULE LegacyEvidence ----------------------------
(***************************************************************************)
(* What the Twitch admissions rest on, through the change of authority:     *)
(* scripts/storage_legacy_evidence.py and import_legacy_evidence,            *)
(* pin_evidence and read_files of storage/primary_store.py.                  *)
(*                                                                         *)
(* An admission cites the frontend commit whose files prove it.  Before the *)
(* frontend is activated, those files are imported for every live           *)
(* admission; afterwards Git is no authority any more, and what the commit  *)
(* said must be found in the database, whatever is published and collected. *)
(* The control job can be cancelled between any two statements and started  *)
(* again; Cutover models how it waits for the writers.                      *)
(***************************************************************************)
EXTENDS Integers, Sequences, FiniteSets

CONSTANTS
  Content,     \* what the two evidence files can say
  MaxCommits, MaxProofs, MaxJobs, MaxPublished   \* BOUNDS

EvidenceAssumption ==
  MaxCommits \in Nat \ {0} /\ MaxProofs \in Nat /\ MaxJobs \in Nat /\ MaxPublished \in Nat

VARIABLES
  git,     \* the frontend: what each commit says
  proofs,  \* live admissions of the backend: the commit and what is expected of it
  db,      \* the frontend's namespace, and the backend's imported admissions
  paused,  \* the writers of the runtimes
  job      \* the control job

evidence == <<git, proofs, db, paused, job>>

Commit == 1..MaxCommits
None == <<>>
(* A manifest is named by its contents: of all files, or of the two. *)
Full(x) == <<"full", x>>
Pair(x) == <<"pair", x>>
Roots == {None} \cup {Full(x) : x \in Content} \cup {Pair(x) : x \in Content}
Proof == [commit : Commit, says : Content]

NoJob == [pc |-> "idle", todo |-> {}, at |-> 0, says |-> None, jobs |-> 0]

Init ==
  /\ git \in [1..1 -> Content]
  /\ proofs = {} /\ paused = FALSE
  /\ db = [active |-> 0, head |-> [commit |-> 1, root |-> Full(git[1])],
           revisions |-> [c \in Commit |-> IF c = 1 THEN Full(git[1]) ELSE None],
           mapped |-> [c \in Commit |-> None], pins |-> {}, objects |-> {Full(git[1])},
           admissions |-> {}, published |-> 0]
  /\ job = NoJob

At(l) == job.pc = l
Latest == Len(git)
--------------------------------------------------------------------------------
(* read_files: the head, a projection or an import of the commit, its manifest or
   else what was kept of it; nothing else stands for it. *)

RootOf(d, c) ==
  IF d.head.commit = c THEN d.head.root
  ELSE IF d.mapped[c] # None THEN d.mapped[c] ELSE d.revisions[c]
Said(d, c) ==
  LET root == RootOf(d, c)
      kept == {p \in d.pins : p.origin = root /\ p.root \in d.objects}
  IN IF root = None THEN None
     ELSE IF root \in d.objects \/ kept # {} THEN <<root[2]>> ELSE None
--------------------------------------------------------------------------------
(* While Git is the authority *)

Commits(x) ==
  /\ ~paused /\ db.active = 0 /\ Latest < MaxCommits
  /\ git' = Append(git, x)
  /\ UNCHANGED <<proofs, db, paused, job>>

(* An admission is accepted with the newest commit; an old one may cite it
   wrongly.  Admissions expire. *)
Admit(x) ==
  /\ ~paused /\ db.active = 0 /\ Cardinality(proofs) < MaxProofs
  /\ proofs' = proofs \cup {[commit |-> Latest, says |-> x]}
  /\ UNCHANGED <<git, db, paused, job>>
Expire(p) ==
  /\ ~paused /\ p \in proofs
  /\ proofs' = proofs \ {p}
  /\ UNCHANGED <<git, db, paused, job>>

(* publish_snapshot of both sources; one that is active is left alone. *)
Ingested(d) ==
  LET backend == IF d.active < 2 THEN [d EXCEPT !.admissions = proofs] ELSE d
  IN IF d.active > 0 THEN backend
     ELSE [backend EXCEPT !.head = [commit |-> Latest, root |-> Full(git[Latest])],
             !.revisions[Latest] = Full(git[Latest]),
             !.objects = @ \cup {Full(git[Latest])}]
Sync ==
  /\ ~paused /\ At("idle") /\ db' = Ingested(db)
  /\ UNCHANGED <<git, proofs, paused, job>>

(* Whatever no head and no evidence needs may be deleted, under the lease. *)
Needed == {db.head.root} \cup {p.root : p \in db.pins}
Leased == At("objects") \/ At("pinned")
Collect(doomed) ==
  /\ ~Leased /\ doomed # {}
  /\ db' = [db EXCEPT !.objects = @ \ doomed]
  /\ UNCHANGED <<git, proofs, paused, job>>

(* After the change: a new generation of the database. *)
Publish(x) ==
  /\ ~paused /\ db.active = 2 /\ db.published < MaxPublished
  /\ db' = [db EXCEPT !.head = [commit |-> 0, root |-> Full(x)],
                      !.objects = @ \cup {Full(x)}, !.published = @ + 1]
  /\ UNCHANGED <<git, proofs, paused, job>>
--------------------------------------------------------------------------------
(* The control job *)

Start ==
  /\ At("idle") /\ job.jobs < MaxJobs
  /\ paused' = TRUE
  /\ job' = [NoJob EXCEPT !.pc = "ingest", !.jobs = job.jobs + 1]
  /\ UNCHANGED <<git, proofs, db>>

(* The commits that the live admissions cite; expired ones are not asked about. *)
Unrecorded(d) ==                                                        \* a slip
  {p.commit : p \in {q \in d.admissions : d.revisions[q.commit] = None}}
Inventory(d) == {p.commit : p \in d.admissions}

(* The final import; then the inventory, from the database. *)
Ingest ==
  /\ At("ingest")
  /\ db' = Ingested(db)
  /\ job' = [job EXCEPT !.pc = "evidence", !.todo = Inventory(Ingested(db))]
  /\ UNCHANGED <<git, proofs, paused>>

(* A commit that the database does not know is read from Git, before the
   activation only; every admission that cites it must agree with its files. *)
FromGit(c) == <<git[c]>>
Valid(c, says) == \A p \in db.admissions : p.commit = c => <<p.says>> = says
ReadEvidence(c) ==
  LET stored == Said(db, c)
      says == IF stored # None THEN stored ELSE FromGit(c)
  IN /\ At("evidence") /\ c \in job.todo
     /\ stored # None \/ db.active = 0
     /\ Valid(c, says)
     /\ job' = [job EXCEPT !.pc = IF db.active > 0 THEN "pin" ELSE "import",
                           !.at = c, !.says = says]
     /\ UNCHANGED <<git, proofs, db, paused>>

(* import_legacy_evidence: objects, then the pin, then the mapping of the commit. *)
Agrees(c, root) ==
  /\ \A p \in db.pins : p.id = <<"git", c>> => p.root = root
  /\ db.mapped[c] \in {None, root}
  /\ db.head.commit = c => db.head.root[2] = root[2]

Import ==
  /\ At("import") /\ db.active = 0 /\ Agrees(job.at, Pair(job.says[1]))
  /\ db' = [db EXCEPT !.objects = @ \cup {Pair(job.says[1])}]
  /\ job' = [job EXCEPT !.pc = "objects"]
  /\ UNCHANGED <<git, proofs, paused>>

Pin(id, origin, root) ==
  [db EXCEPT !.pins = IF \E p \in @ : p.id = id THEN @
                      ELSE @ \cup {[id |-> id, origin |-> origin, root |-> root]}]
ImportPin ==
  /\ At("objects")
  /\ db' = Pin(<<"git", job.at>>, Pair(job.says[1]), Pair(job.says[1]))
  /\ job' = [job EXCEPT !.pc = "pinned"]
  /\ UNCHANGED <<git, proofs, paused>>

ImportMapping ==
  /\ At("pinned")
  /\ db' = [db EXCEPT !.mapped[job.at] = IF @ = None THEN Pair(job.says[1]) ELSE @]
  /\ job' = [job EXCEPT !.pc = "evidence", !.todo = @ \ {job.at}, !.at = 0, !.says = None]
  /\ UNCHANGED <<git, proofs, paused>>

(* pin_evidence, when the frontend already is active. *)
PinStored ==
  LET c == job.at
      id == <<"cutover", c>>
      root == Pair(job.says[1])
  IN /\ At("pin") /\ Said(db, c) = job.says
     /\ \A p \in db.pins : p.id = id => p.origin = RootOf(db, c) /\ p.root = root
     /\ db' = [Pin(id, RootOf(db, c), root) EXCEPT !.objects = @ \cup {root}]
     /\ job' = [job EXCEPT !.pc = "evidence", !.todo = @ \ {c}, !.at = 0, !.says = None]
     /\ UNCHANGED <<git, proofs, paused>>

(* activate_primary, the frontend first; then the writers are let go. *)
Activate ==
  /\ At("evidence") /\ job.todo = {}
  /\ db' = [db EXCEPT !.active = IF @ < 2 THEN @ + 1 ELSE @]
  /\ IF db.active < 1 THEN UNCHANGED <<paused, job>>
     ELSE /\ paused' = FALSE /\ job' = [NoJob EXCEPT !.jobs = job.jobs]
  /\ UNCHANGED <<git, proofs>>

(* The job fails or is cancelled; the writers stay paused. *)
Fail ==
  /\ ~At("idle")
  /\ job' = [NoJob EXCEPT !.jobs = job.jobs]
  /\ UNCHANGED <<git, proofs, db, paused>>

(* resume: refused while only one of the sources is active. *)
Resume ==
  /\ At("idle") /\ paused /\ db.active # 1
  /\ paused' = FALSE
  /\ UNCHANGED <<git, proofs, db, job>>

Next ==
  \/ \E x \in Content : Commits(x) \/ Admit(x) \/ Publish(x)
  \/ \E p \in proofs : Expire(p)
  \/ \E doomed \in SUBSET (db.objects \ Needed) : Collect(doomed)
  \/ Sync \/ Start \/ Ingest \/ Import \/ ImportPin \/ ImportMapping \/ PinStored
  \/ (\E c \in Commit : ReadEvidence(c)) \/ Activate \/ Fail \/ Resume

Spec == Init /\ [][Next]_evidence
--------------------------------------------------------------------------------
(* Properties *)

(* The namespace and the job. *)
TypeOK ==
  /\ git \in UNION {[1..n -> Content] : n \in Commit}
  /\ proofs \subseteq Proof /\ db.admissions \subseteq Proof
  /\ db.active \in 0..2 /\ db.head.root \in Roots /\ db.objects \subseteq Roots
  /\ db.revisions \in [Commit -> Roots] /\ db.mapped \in [Commit -> Roots]
  /\ \A p \in db.pins : p.origin \in Roots /\ p.root \in Roots
  /\ paused \in BOOLEAN /\ job.todo \subseteq Commit /\ job.jobs \in 0..MaxJobs

(* From the activation of the frontend on, the database says of every commit that
   a live admission cites what the admission expects of it: no admission is left
   without its evidence, and none is confirmed by another snapshot ("a missing
   revision never means the current frontend snapshot"). *)
AdmissionsAreProven ==
  db.active > 0 => \A p \in proofs : Said(db, p.commit) = <<p.says>>

(* Whatever the database says of a commit is what the commit says. *)
CommitsAreTrue ==
  \A c \in 1..Latest : Said(db, c) \in {None, <<git[c]>>}
================================================================================
