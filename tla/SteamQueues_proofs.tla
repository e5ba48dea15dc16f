-------------------------- MODULE SteamQueues_proofs --------------------------
(***************************************************************************)
(* What is proved of the jobs of SteamQueues, for any games, windows,       *)
(* budgets and bounds.                                                     *)
(*                                                                         *)
(* Daily.  A run works on a checkout, and its batch may be submitted again  *)
(* days later, so that what is published is made of three generations of    *)
(* files.  They belong together because each generation does (SoundFiles),  *)
(* because a batch replaces the four files at once or none of them, and     *)
(* because what a batch replaces is what it was made from (Extends).        *)
(*                                                                         *)
(* Queue.  The hour works on a copy of the checkpoint and saves it over the *)
(* durable one; no candidate is lost because the copy has every candidate   *)
(* of the durable one from the moment it is taken to its last save, while   *)
(* the steps that change the durable one belong to other parts of the hour. *)
(*                                                                         *)
(* Cooldown.  As long as no batch is kept the checkpoint is the worker's     *)
(* baseline or what the worker has made of it, and a deadline that a worker *)
(* forgets is one that its last success settled.  Whatever is merged, the   *)
(* last success that a batch knows is not after its own (KnownInv), so that *)
(* no batch takes a later one back.                                         *)
(*                                                                         *)
(* Twitch.  What a dispatch is about to save is as true as what is saved.   *)
(*                                                                         *)
(* Groups.  A run that may still ask, or was answered, found the API open   *)
(* (Served), so that no update it carries replaces a running cooldown.      *)
(***************************************************************************)
EXTENDS SteamQueues, FiniteSetTheorems, WellFoundedInduction, SequenceTheorems, TLAPS

(* The order of the numbers. *)
Below == {ss \in Nat \X Nat : ss[1] < ss[2]}

--------------------------------------------------------------------------------
(***************************************************************************)
(* DailyCandidates                                                         *)
(***************************************************************************)

(* The counts of the instance are those of the library. *)
LEMMA DailyCounts ==
  /\ \A S : Daily!IsFiniteSet(S) = IsFiniteSet(S)
  /\ \A S : Daily!Cardinality(S) = Cardinality(S)
  <1>1. \A S : Daily!IsFiniteSet(S) = IsFiniteSet(S)
    BY Zenon DEF Daily!IsFiniteSet, IsFiniteSet
  <1>2. \A S : Daily!Cardinality(S) = Cardinality(S)
    BY Zenon DEF Daily!Cardinality, Cardinality
  <1> QED BY <1>1, <1>2

(* The files of a day belong together: only what passed the gate was screened, a phase
   beyond the gate has one, and a finished screening covers every eligible game but
   those that `left`, the exclusions it may not have looked at. *)
Beyond == {"prefilter", "followers", "complete"}
Finished == {"followers", "complete"}
SoundFiles(d, left) ==
  /\ d.state.slot \in {0, d.state.anchor}
  /\ Daily!Screened(d.prefilter) \subseteq d.catalog.eligible
  /\ ~d.catalog.gate => d.catalog.eligible = {}
  /\ d.state.phase \in Beyond => d.catalog.gate
  /\ d.state.phase \in Finished => Daily!PrefilterComplete(d.prefilter, d.catalog.eligible \ left)

(* One state of the files is ahead of another of the same day. *)
Extends(d, e) ==
  /\ e.state.anchor = d.state.anchor
  /\ Daily!PhaseNumber(d) <= Daily!PhaseNumber(e)
  /\ d.prefilter.next <= e.prefilter.next
  /\ Daily!Screened(d.prefilter) \subseteq Daily!Screened(e.prefilter)
--------------------------------------------------------------------------------
(* The phases and their numbers. *)
Phase == {"discovery", "date_precision", "prefilter", "followers", "complete"}

LEMMA PhasesAre == Daily!Range(Daily!Phases) = Phase
  <1>1. Daily!Phases \in [1..5 -> Phase] /\ DOMAIN Daily!Phases = 1..5
    BY DEF Daily!Phases, Phase
  <1>2. \A p \in Phase : \E i \in 1..5 : Daily!Phases[i] = p
    BY DEF Daily!Phases, Phase
  <1> QED BY <1>1, <1>2 DEF Daily!Range

LEMMA PhaseIs ==
  ASSUME NEW d, NEW i \in 1..5, d.state.phase = Daily!Phases[i]
  PROVE  Daily!PhaseNumber(d) = i
  <1>1. Len(Daily!Phases) = 5 BY DEF Daily!Phases
  <1>2. \A j \in 1..5 : Daily!Phases[j] = Daily!Phases[i] => j = i
    BY DEF Daily!Phases
  <1> QED BY <1>1, <1>2 DEF Daily!PhaseNumber

LEMMA PhaseNumbers ==
  ASSUME NEW d
  PROVE  /\ d.state.phase = "discovery" => Daily!PhaseNumber(d) = 1
         /\ d.state.phase = "date_precision" => Daily!PhaseNumber(d) = 2
         /\ d.state.phase = "prefilter" => Daily!PhaseNumber(d) = 3
         /\ d.state.phase = "followers" => Daily!PhaseNumber(d) = 4
         /\ d.state.phase = "complete" => Daily!PhaseNumber(d) = 5
  <1>1. /\ Daily!Phases[1] = "discovery" /\ Daily!Phases[2] = "date_precision" /\ Daily!Phases[3] = "prefilter"
        /\ Daily!Phases[4] = "followers" /\ Daily!Phases[5] = "complete"
    BY DEF Daily!Phases
  <1> QED BY <1>1, PhaseIs

(* The files, one by one. *)
StateFile ==
  [anchor : 0..OfDaily.MaxDay, slot : 0..OfDaily.MaxDay, phase : Phase, scanned : BOOLEAN,
   updated : 0..OfDaily.MaxStamp]
CatalogFile == [found : SUBSET OfDaily.App, gate : BOOLEAN, eligible : SUBSET OfDaily.App]
PrefilterFile ==
  [day : 0..OfDaily.MaxDay, next : 0..Cardinality(OfDaily.App), complete : BOOLEAN,
   games : [OfDaily.App -> OfDaily.Band \cup {Daily!Absent}]]
EligibleFile == [day : 0..OfDaily.MaxDay, games : SUBSET OfDaily.App]
CacheFile == [OfDaily.App -> 0..OfDaily.MaxStamp]

RunType ==
  [pc : {"idle", "reset", "capture", "work", "freeze", "publish"},
   kind : {"slot", "force", "continue"}, initial : StateFile, blocked : SUBSET OfDaily.App,
   base : Daily!Files, passes : 0..OfDaily.MaxPass]

(* The inductive invariant.  Whatever is published, checked out or kept is sound: the
   published files and a kept batch but for today's exclusions, a run's files but for
   those of its start.  And a batch is ahead of the state that it will be compared with. *)
DailyIInv ==
  /\ Daily!TypeOK /\ run \in RunType
  /\ run.blocked \subseteq ledger
  /\ SoundFiles(published, ledger)
  /\ SoundFiles(disk, run.blocked)
  /\ SoundFiles(kept.observed, ledger)
  /\ Extends(kept.base, kept.observed)
  /\ run.pc \in {"work", "freeze", "publish"} => Extends(run.base, disk)

LEMMA FilesAre ==
  Daily!Files = [state : StateFile, catalog : CatalogFile, prefilter : PrefilterFile,
           eligible : EligibleFile, cache : CacheFile]
  BY PhasesAre, DailyCounts, Zenon DEF Daily!Files, StateFile, CatalogFile, PrefilterFile, EligibleFile, CacheFile

LEMMA FilesHave ==
  ASSUME NEW d \in Daily!Files
  PROVE  /\ d.state \in StateFile /\ d.catalog \in CatalogFile /\ d.prefilter \in PrefilterFile
         /\ d.eligible \in EligibleFile /\ d.cache \in CacheFile
         /\ d = [state |-> d.state, catalog |-> d.catalog, prefilter |-> d.prefilter,
                 eligible |-> d.eligible, cache |-> d.cache]
  BY FilesAre

LEMMA FilesOf ==
  ASSUME NEW s \in StateFile, NEW c \in CatalogFile, NEW p \in PrefilterFile,
         NEW e \in EligibleFile, NEW k \in CacheFile
  PROVE  [state |-> s, catalog |-> c, prefilter |-> p, eligible |-> e, cache |-> k] \in Daily!Files
  BY FilesAre

LEMMA FilesFields ==
  ASSUME NEW d \in Daily!Files
  PROVE  \E s, c, p, e, k :
           /\ d = [state |-> s, catalog |-> c, prefilter |-> p, eligible |-> e, cache |-> k]
           /\ d.state = s /\ d.catalog = c /\ d.prefilter = p /\ d.eligible = e /\ d.cache = k
  <1>1. d = [state |-> d.state, catalog |-> d.catalog, prefilter |-> d.prefilter,
             eligible |-> d.eligible, cache |-> d.cache]
    BY FilesHave
  <1> QED BY <1>1, Zenon

LEMMA FilesExcept ==
  ASSUME NEW d \in Daily!Files, NEW v
  PROVE  /\ [d EXCEPT !.catalog = v] =
              [state |-> d.state, catalog |-> v, prefilter |-> d.prefilter,
               eligible |-> d.eligible, cache |-> d.cache]
         /\ [d EXCEPT !.prefilter = v] =
              [state |-> d.state, catalog |-> d.catalog, prefilter |-> v,
               eligible |-> d.eligible, cache |-> d.cache]
         /\ [d EXCEPT !.eligible = v] =
              [state |-> d.state, catalog |-> d.catalog, prefilter |-> d.prefilter,
               eligible |-> v, cache |-> d.cache]
         /\ [d EXCEPT !.cache = v] =
              [state |-> d.state, catalog |-> d.catalog, prefilter |-> d.prefilter,
               eligible |-> d.eligible, cache |-> v]
  <1>1. PICK s, c, p, e, k :
           /\ d = [state |-> s, catalog |-> c, prefilter |-> p, eligible |-> e, cache |-> k]
           /\ d.state = s /\ d.catalog = c /\ d.prefilter = p /\ d.eligible = e /\ d.cache = k
    BY FilesFields
  <1> QED BY <1>1

(* A pass enters its phase and its time. *)
LEMMA UpdatedIs ==
  ASSUME NEW d \in Daily!Files, NEW phase \in Phase, stamps \in 0..OfDaily.MaxStamp
  PROVE  /\ Daily!Updated(d, phase) \in Daily!Files
         /\ Daily!Updated(d, phase).state =
              [anchor |-> d.state.anchor, slot |-> d.state.slot, phase |-> phase,
               scanned |-> d.state.scanned, updated |-> stamps]
         /\ Daily!Updated(d, phase).catalog = d.catalog /\ Daily!Updated(d, phase).prefilter = d.prefilter
         /\ Daily!Updated(d, phase).eligible = d.eligible /\ Daily!Updated(d, phase).cache = d.cache
  BY PhasesAre DEF Daily!Updated, Daily!Files

(* A set of numbers has a least. *)
LEMMA MinimumIs ==
  ASSUME NEW T \in SUBSET Nat, T # {}
  PROVE  \E m \in T : \A x \in T : m <= x
  <1>1. IsWellFoundedOn(Below, Nat) BY NatLessThanWellFounded, Zenon DEF OpToRel, Below
  <1>2. \E x \in T : \A y \in T : ~(<<y, x>> \in Below) BY <1>1, WFMin, Zenon
  <1>3. \A x, y \in Nat : ~(<<y, x>> \in Below) => x <= y BY DEF Below
  <1> QED BY <1>2, <1>3

(* A window never reaches beyond the last row. *)
LEMMA WindowFits ==
  ASSUME Daily!DailyAssumption, NEW rows \in SUBSET OfDaily.App, NEW pre, pre.next \in 0..Cardinality(OfDaily.App)
  PROVE  /\ IsFiniteSet(Daily!WindowRows(pre, rows)) /\ Cardinality(Daily!WindowRows(pre, rows)) \in Nat
         /\ Daily!WindowRows(pre, rows) \subseteq rows
         /\ pre.next + Cardinality(Daily!WindowRows(pre, rows)) \in 0..Cardinality(OfDaily.App)
  <1> DEFINE W == Daily!WindowRows(pre, rows)
  <1>0. OfDaily.App \subseteq Nat /\ IsFiniteSet(OfDaily.App) /\ OfDaily.Window \in Nat BY DailyCounts DEF Daily!DailyAssumption
  <1>1. W \subseteq rows BY DEF Daily!WindowRows
  <1>2. IsFiniteSet(W) /\ Cardinality(W) \in Nat /\ Cardinality(OfDaily.App) \in Nat
    BY <1>0, <1>1, FS_Subset, FS_CardinalityType
  <1>3. pre.next + Cardinality(W) <= Cardinality(OfDaily.App)
    <2>1. CASE W = {} BY <2>1, <1>2, FS_EmptySet
    <2>2. CASE W # {}
      <3>1. PICK m \in W : \A x \in W : m <= x
        BY <2>2, <1>0, <1>1, MinimumIs
      <3> DEFINE Before == {b \in rows : b < m}
      <3>2. Before \subseteq OfDaily.App /\ IsFiniteSet(Before) /\ Cardinality(Before) \in Nat
        BY <1>0, FS_Subset, FS_CardinalityType
      <3>3. pre.next <= Cardinality(Before)
        <4>1. Cardinality(Before) \in pre.next..(pre.next + OfDaily.Window - 1)
          BY DailyCounts DEF Daily!WindowRows
        <4> QED BY <4>1, <1>0, <1>2
      <3>4. Before \cap W = {}
        <4>1. \A x \in Before : x \in Nat /\ m \in Nat /\ x < m
          BY <1>0, <1>1
        <4> HIDE DEF Before, W
        <4>2. \A x \in Before : x \notin W
          <5> SUFFICES ASSUME NEW x \in Before, x \in W PROVE FALSE
            OBVIOUS
          <5>1. m <= x BY <3>1
          <5> QED BY <4>1, <5>1
        <4> QED BY <4>2
      <3>5. Cardinality(Before \cup W) = Cardinality(Before) + Cardinality(W)
        <4>1. Cardinality(Before \cup W) = Cardinality(Before) + Cardinality(W) - Cardinality(Before \cap W)
          BY <3>2, <1>2, FS_Union
        <4>2. Cardinality(Before \cap W) = 0 BY <3>4, FS_EmptySet
        <4> HIDE DEF Before, W
        <4> QED BY <4>1, <4>2, <3>2, <1>2
      <3>6. Cardinality(Before \cup W) <= Cardinality(OfDaily.App)
        BY <3>2, <1>0, <1>1, FS_Subset
      <3> QED BY <3>2, <3>3, <3>5, <3>6, <1>2
    <2> QED BY <2>1, <2>2
  <1> QED BY <1>1, <1>2, <1>3

(* What a pass leaves: all of it, or what was written when it died. *)
Keeps(d, n) ==
  /\ n \in Daily!Files /\ n.eligible = d.eligible
  /\ SoundFiles(n, run.blocked) /\ Extends(d, n) /\ n.state.slot = d.state.slot
  /\ Daily!Screened(n.prefilter) \subseteq d.catalog.eligible
  /\ d.catalog.gate => n.catalog.gate /\ n.catalog.eligible = d.catalog.eligible
  /\ d.state.phase \in Finished => n.catalog = d.catalog /\ n.prefilter = d.prefilter

(* The files that a pass starts from. *)
PassAt(d) ==
  /\ Daily!DailyAssumption /\ d \in Daily!Files /\ SoundFiles(d, run.blocked)
  /\ stamps \in 0..OfDaily.MaxStamp /\ day \in 1..OfDaily.MaxDay

(* The discovery only adds games. *)
LEMMA DiscoveredKeeps ==
  ASSUME NEW d, PassAt(d), d.state.phase = "discovery", NEW n \in Daily!Discovered(d)
  PROVE  Keeps(d, n)
  <1> DEFINE e == Daily!Updated(d, "date_precision")
  <1>0. d \in Daily!Files /\ stamps \in 0..OfDaily.MaxStamp BY DEF PassAt
  <1>1. PICK listed \in OfDaily.Listing :
          n = [e EXCEPT !.state.scanned = TRUE, !.catalog.found = d.catalog.found \cup listed]
    <2>1. e.catalog = d.catalog BY <1>0, UpdatedIs DEF Phase
    <2> QED BY <2>1 DEF Daily!Discovered
  <1>2. listed \subseteq OfDaily.App BY <1>1 DEF PassAt, Daily!DailyAssumption
  <1>3. /\ e \in Daily!Files
        /\ e.state = [anchor |-> d.state.anchor, slot |-> d.state.slot,
                      phase |-> "date_precision", scanned |-> d.state.scanned, updated |-> stamps]
        /\ e.catalog = d.catalog /\ e.prefilter = d.prefilter
        /\ e.eligible = d.eligible /\ e.cache = d.cache
    BY <1>0, UpdatedIs DEF Phase
  <1> HIDE DEF e
  <1> DEFINE s == [e.state EXCEPT !.scanned = TRUE]
             c == [e.catalog EXCEPT !.found = d.catalog.found \cup listed]
  <1>7. n = [state |-> s, catalog |-> c, prefilter |-> e.prefilter, eligible |-> e.eligible,
             cache |-> e.cache]
    <2>1. e = [state |-> e.state, catalog |-> e.catalog, prefilter |-> e.prefilter,
               eligible |-> e.eligible, cache |-> e.cache]
      BY <1>3, FilesHave, Zenon
    <2> QED BY <2>1, <1>1, Zenon
  <1>8. s \in StateFile /\ s.anchor = d.state.anchor /\ s.slot = d.state.slot
        /\ s.phase = "date_precision"
    <2>1. e.state \in StateFile BY <1>3, FilesHave
    <2>2. /\ e.state.anchor = d.state.anchor /\ e.state.slot = d.state.slot
          /\ e.state.phase = "date_precision"
      BY <1>3
    <2> QED BY <2>1, <2>2 DEF StateFile
  <1>9. c \in CatalogFile /\ c.gate = d.catalog.gate /\ c.eligible = d.catalog.eligible
    BY <1>0, <1>2, <1>3, FilesHave DEF CatalogFile
  <1> HIDE DEF s, c
  <1>4. /\ n \in Daily!Files /\ n.eligible = d.eligible /\ n.prefilter = d.prefilter
        /\ n.state.anchor = d.state.anchor /\ n.state.slot = d.state.slot
        /\ n.state.phase = "date_precision"
        /\ n.catalog.gate = d.catalog.gate /\ n.catalog.eligible = d.catalog.eligible
    BY <1>3, <1>7, <1>8, <1>9, FilesHave, FilesOf
  <1>5. Daily!PhaseNumber(d) = 1 /\ Daily!PhaseNumber(n) = 2
    BY <1>4, PhaseNumbers
  <1>6. d.prefilter.next \in Int BY <1>0 DEF Daily!Files
  <1> QED BY <1>4, <1>5, <1>6 DEF Keeps, PassAt, SoundFiles, Extends, Beyond, Finished

(* The gate, once open, lists games that it let through. *)
LEMMA GatedKeeps ==
  ASSUME NEW d, PassAt(d), d.state.phase = "date_precision", NEW n \in Daily!Gated(d)
  PROVE  Keeps(d, n)
  <1> DEFINE e == Daily!Updated(d, "prefilter")
  <1>0. d \in Daily!Files /\ stamps \in 0..OfDaily.MaxStamp BY DEF PassAt
  <1>3. /\ e \in Daily!Files
        /\ e.state = [anchor |-> d.state.anchor, slot |-> d.state.slot,
                      phase |-> "prefilter", scanned |-> d.state.scanned, updated |-> stamps]
        /\ e.catalog = d.catalog /\ e.prefilter = d.prefilter
        /\ e.eligible = d.eligible /\ e.cache = d.cache
    BY <1>0, UpdatedIs DEF Phase
  <1>1. \/ d.catalog.gate /\ n = e
        \/ ~d.catalog.gate /\ \E exact \in SUBSET d.catalog.found :
               n = [e EXCEPT !.catalog.gate = TRUE, !.catalog.eligible = exact]
    BY DEF Daily!Gated
  <1> HIDE DEF e
  <1>4. /\ n \in Daily!Files /\ n.eligible = d.eligible /\ n.prefilter = d.prefilter
        /\ n.state.anchor = d.state.anchor /\ n.state.slot = d.state.slot
        /\ n.state.phase = "prefilter"
        /\ n.catalog.gate /\ (d.catalog.gate => n.catalog.eligible = d.catalog.eligible)
    <2>1. CASE d.catalog.gate BY <1>1, <1>3, <2>1
    <2>2. CASE ~d.catalog.gate
      <3>1. PICK exact \in SUBSET d.catalog.found :
               n = [e EXCEPT !.catalog.gate = TRUE, !.catalog.eligible = exact]
        BY <1>1, <2>2
      <3>2. exact \subseteq OfDaily.App BY <1>0 DEF Daily!Files
      <3> DEFINE c == [e.catalog EXCEPT !.gate = TRUE, !.eligible = exact]
      <3>3. n = [state |-> e.state, catalog |-> c, prefilter |-> e.prefilter,
                 eligible |-> e.eligible, cache |-> e.cache]
        <4>1. e = [state |-> e.state, catalog |-> e.catalog, prefilter |-> e.prefilter,
                   eligible |-> e.eligible, cache |-> e.cache]
          BY <1>3, FilesHave, Zenon
        <4>2. n = [e EXCEPT !.catalog = c] BY <3>1, Zenon
        <4> QED BY <4>1, <4>2, Zenon
      <3>4. c \in CatalogFile /\ c.gate /\ c.eligible = exact
        BY <1>0, <1>3, <3>2, FilesHave DEF CatalogFile
      <3> HIDE DEF c
      <3>5. n \in Daily!Files BY <1>3, <3>3, <3>4, FilesHave, FilesOf
      <3> QED BY <3>3, <3>4, <3>5, <2>2, <1>3
    <2> QED BY <2>1, <2>2
  <1>5. Daily!PhaseNumber(d) = 2 /\ Daily!PhaseNumber(n) = 3
    BY <1>4, PhaseNumbers
  <1>6. d.prefilter.next \in Int BY <1>0 DEF Daily!Files
  <1>7. ~d.catalog.gate => Daily!Screened(d.prefilter) = {} BY DEF PassAt, SoundFiles
  <1> QED BY <1>4, <1>5, <1>6, <1>7 DEF Keeps, PassAt, SoundFiles, Extends, Beyond, Finished

(* A window of the screening. *)
LEMMA ScannedIs ==
  ASSUME Daily!DailyAssumption, NEW rows \in SUBSET OfDaily.App, NEW pre, NEW new \in Daily!Scanned(pre, rows),
         NEW d \in Daily!Files, pre = d.prefilter
  PROVE  /\ new = [day |-> pre.day, next |-> new.next, complete |-> pre.complete,
                   games |-> new.games]
         /\ new.next \in 0..Cardinality(OfDaily.App) /\ pre.next <= new.next
         /\ new.games \in [OfDaily.App -> OfDaily.Band \cup {Daily!Absent}]
         /\ Daily!Screened(pre) \subseteq Daily!Screened(new) /\ Daily!Screened(new) \subseteq Daily!Screened(pre) \cup rows
  <1> DEFINE window == Daily!WindowRows(pre, rows)
  <1>1. pre \in [day : 0..OfDaily.MaxDay, next : 0..Cardinality(OfDaily.App), complete : BOOLEAN,
                 games : [OfDaily.App -> OfDaily.Band \cup {Daily!Absent}]]
    BY DailyCounts DEF Daily!Files
  <1>2. PICK answer \in [window -> OfDaily.Band] :
          new = [pre EXCEPT !.next = pre.next + Cardinality(window),
                  !.games = [a \in OfDaily.App |-> IF a \in window THEN answer[a] ELSE pre.games[a]]]
    BY DailyCounts DEF Daily!Scanned
  <1>3. /\ Cardinality(window) \in Nat /\ window \subseteq rows
        /\ pre.next + Cardinality(window) \in 0..Cardinality(OfDaily.App)
    BY <1>1, WindowFits
  <1> HIDE DEF window
  <1> DEFINE told == [a \in OfDaily.App |-> IF a \in window THEN answer[a] ELSE pre.games[a]]
  <1>4. told \in [OfDaily.App -> OfDaily.Band \cup {Daily!Absent}]
    BY <1>1, <1>3
  <1>5. \A a \in OfDaily.App : /\ a \in window => told[a] # Daily!Absent
                               /\ a \notin window => told[a] = pre.games[a]
    BY <1>3 DEF Daily!DailyAssumption, Daily!Absent
  <1> HIDE DEF told
  <1>6. /\ new = [day |-> pre.day, next |-> pre.next + Cardinality(window),
                  complete |-> pre.complete, games |-> told]
    BY <1>1, <1>2 DEF told
  <1>7. Daily!Screened(pre) \subseteq Daily!Screened(new) /\ Daily!Screened(new) \subseteq Daily!Screened(pre) \cup rows
    BY <1>3, <1>5, <1>6 DEF Daily!Screened
  <1> QED BY <1>1, <1>3, <1>4, <1>6, <1>7

LEMMA RowsIn == ASSUME NEW d \in Daily!Files PROVE Daily!Rows(d) \in SUBSET OfDaily.App
  BY FilesHave DEF Daily!Rows, CatalogFile

(* The screening as a pass stamps it. *)
Marked(p, u, v) == [p EXCEPT !.day = u, !.complete = v]
Shaped(p) == \E x, y, z, w : p = [day |-> x, next |-> y, complete |-> z, games |-> w]

LEMMA MarkedIs ==
  ASSUME NEW p, Shaped(p), NEW u, NEW v
  PROVE  Marked(p, u, v) = [day |-> u, next |-> p.next, complete |-> v, games |-> p.games]
  <1>0. PICK x, y, z, w : p = [day |-> x, next |-> y, complete |-> z, games |-> w]
    BY DEF Shaped
  <1> DEFINE q == [p EXCEPT !.day = u]
  <1>1. q = [day |-> u, next |-> y, complete |-> z, games |-> w] BY <1>0
  <1>2. Marked(p, u, v) = [q EXCEPT !.complete = v]
    BY <1>0 DEF Marked
  <1>3. p.next = y /\ p.games = w BY <1>0
  <1> HIDE DEF q
  <1>4. [q EXCEPT !.complete = v] = [day |-> u, next |-> y, complete |-> v, games |-> w]
    BY <1>1
  <1> QED BY <1>2, <1>3, <1>4

(* A window is recorded: what was screened stays so, and the cursor goes on. *)
LEMMA PrescreenedKeeps ==
  ASSUME NEW d, PassAt(d), d.state.phase = "prefilter", NEW n \in Daily!Prescreened(d)
  PROVE  Keeps(d, n)
  <1>0. /\ Daily!DailyAssumption /\ d \in Daily!Files /\ stamps \in 0..OfDaily.MaxStamp /\ day \in 1..OfDaily.MaxDay
        /\ SoundFiles(d, run.blocked)
    BY DEF PassAt
  <1> DEFINE rows == Daily!Rows(d)
  <1>1. rows \in SUBSET OfDaily.App BY <1>0, RowsIn
  <1>2. PICK pre \in Daily!Scanned(d.prefilter, rows), phase \in {"followers", "prefilter"},
             yes \in BOOLEAN :
          /\ n = [Daily!Updated(d, phase) EXCEPT
                    !.prefilter = [pre EXCEPT !.day = day, !.complete = yes]]
          /\ yes = Daily!WindowComplete(pre, rows) /\ (phase = "followers" => yes)
    <2> DEFINE next(pre) == IF Daily!WindowComplete(pre, rows) THEN "followers" ELSE "prefilter"
    <2>1. PICK pre \in Daily!Scanned(d.prefilter, rows) :
            n = [Daily!Updated(d, next(pre)) EXCEPT
                   !.prefilter = [pre EXCEPT !.day = day, !.complete = Daily!WindowComplete(pre, rows)]]
      BY Zenon DEF Daily!Prescreened
    <2>2. Daily!WindowComplete(pre, rows) \in BOOLEAN BY DEF Daily!WindowComplete
    <2>3. /\ next(pre) \in {"followers", "prefilter"}
          /\ next(pre) = "followers" => Daily!WindowComplete(pre, rows)
      OBVIOUS
    <2> HIDE DEF next
    <2> QED BY <2>1, <2>2, <2>3, Zenon
  <1>3. d.catalog.gate BY DEF Daily!Prescreened
  <1>4. /\ pre = [day |-> d.prefilter.day, next |-> pre.next,
                  complete |-> d.prefilter.complete, games |-> pre.games]
        /\ pre.next \in 0..Cardinality(OfDaily.App) /\ d.prefilter.next <= pre.next
        /\ pre.games \in [OfDaily.App -> OfDaily.Band \cup {Daily!Absent}]
        /\ Daily!Screened(d.prefilter) \subseteq Daily!Screened(pre)
        /\ Daily!Screened(pre) \subseteq Daily!Screened(d.prefilter) \cup rows
    BY <1>0, <1>1, ScannedIs
  <1> HIDE DEF rows
  <1> DEFINE new == [day |-> day, next |-> pre.next, complete |-> yes, games |-> pre.games]
             e == Daily!Updated(d, phase)
  <1>7. [pre EXCEPT !.day = day, !.complete = yes] = new
    <2>1. Shaped(pre) BY <1>4, Zenon DEF Shaped
    <2>2. Marked(pre, day, yes) = new BY <2>1, MarkedIs, Zenon
    <2> QED BY <2>2, Zenon DEF Marked
  <1>8. /\ e \in Daily!Files
        /\ e.state = [anchor |-> d.state.anchor, slot |-> d.state.slot,
                      phase |-> phase, scanned |-> d.state.scanned, updated |-> stamps]
        /\ e.catalog = d.catalog /\ e.prefilter = d.prefilter
        /\ e.eligible = d.eligible /\ e.cache = d.cache
    <2>1. phase \in Phase BY DEF Phase
    <2> QED BY <1>0, <2>1, UpdatedIs
  <1>9. n = [e EXCEPT !.prefilter = new]
    BY <1>2, <1>7, Zenon
  <1> HIDE DEF e
  <1>10. new \in PrefilterFile
    <2>1. day \in 0..OfDaily.MaxDay BY <1>0 DEF Daily!DailyAssumption
    <2> QED BY <2>1, <1>4 DEF PrefilterFile
  <1>11. /\ new.next = pre.next /\ new.complete = yes /\ new.games = pre.games
        /\ Daily!Screened(new) = Daily!Screened(pre) /\ Daily!WindowComplete(new, rows) = Daily!WindowComplete(pre, rows)
    BY DEF Daily!Screened, Daily!WindowComplete
  <1> HIDE DEF new
  <1>12. n = [state |-> e.state, catalog |-> d.catalog, prefilter |-> new,
              eligible |-> d.eligible, cache |-> d.cache]
    BY <1>8, <1>9, FilesExcept, Zenon
  <1>13. n \in Daily!Files BY <1>0, <1>8, <1>10, <1>12, FilesHave, FilesOf
  <1>14. /\ n.state.phase = phase /\ n.state.anchor = d.state.anchor
         /\ n.state.slot = d.state.slot /\ n.catalog = d.catalog /\ n.prefilter = new
         /\ n.eligible = d.eligible
    BY <1>8, <1>12
  <1>15. Daily!Screened(new) \subseteq d.catalog.eligible
    BY <1>0, <1>4, <1>11 DEF SoundFiles, Daily!Rows, rows
  <1>16. Extends(d, n)
    <2>1. Daily!PhaseNumber(d) = 3 /\ Daily!PhaseNumber(n) \in {3, 4}
      BY <1>14, PhaseNumbers
    <2> QED BY <2>1, <1>4, <1>11, <1>14 DEF Extends
  <1>17. SoundFiles(n, run.blocked)
    <2>1. phase \in Finished => Daily!PrefilterComplete(new, d.catalog.eligible \ run.blocked)
      BY <1>2, <1>11 DEF Finished, Daily!PrefilterComplete, Daily!Rows, rows
    <2> QED BY <2>1, <1>0, <1>3, <1>14, <1>15 DEF SoundFiles
  <1> QED BY <1>3, <1>13, <1>14, <1>15, <1>16, <1>17 DEF Keeps, Finished

(* The counts that were asked only fill the cache. *)
LEMMA VerifiedKeeps ==
  ASSUME NEW d, PassAt(d), d.state.phase = "followers", NEW n \in Daily!Verified(d)
  PROVE  Keeps(d, n)
  <1>0. d \in Daily!Files /\ stamps \in 0..OfDaily.MaxStamp /\ SoundFiles(d, run.blocked) BY DEF PassAt
  <1> DEFINE remaining == {a \in Daily!PriorityRows(d) : d.cache[a] = 0}
             next(got) == IF got = remaining THEN "complete" ELSE "followers"
  <1>1. PICK got \in SUBSET remaining :
          n = [Daily!Updated(d, next(got)) EXCEPT
                 !.cache = [a \in OfDaily.App |-> IF a \in got THEN stamps ELSE d.cache[a]]]
    <2>1. \A p \in Phase : Daily!Updated(d, p).cache = d.cache BY <1>0, UpdatedIs
    <2>2. \A got : next(got) \in Phase BY DEF Phase
    <2>3. PICK got \in SUBSET remaining :
            n = [Daily!Updated(d, next(got)) EXCEPT
                   !.cache = [a \in OfDaily.App |-> IF a \in got THEN stamps
                                            ELSE Daily!Updated(d, next(got)).cache[a]]]
      BY Zenon DEF Daily!Verified
    <2> QED BY <2>1, <2>2, <2>3, Zenon
  <1> DEFINE phase == next(got)
             e == Daily!Updated(d, phase)
             new == [a \in OfDaily.App |-> IF a \in got THEN stamps ELSE d.cache[a]]
  <1>2. phase \in Finished /\ phase \in Phase BY DEF Finished, Phase
  <1>3. /\ e \in Daily!Files
        /\ e.state = [anchor |-> d.state.anchor, slot |-> d.state.slot,
                      phase |-> phase, scanned |-> d.state.scanned, updated |-> stamps]
        /\ e.catalog = d.catalog /\ e.prefilter = d.prefilter
        /\ e.eligible = d.eligible /\ e.cache = d.cache
    <2> HIDE DEF phase
    <2> QED BY <1>0, <1>2, UpdatedIs
  <1>4. n = [e EXCEPT !.cache = new] BY <1>1, Zenon
  <1>5. new \in CacheFile BY <1>0, FilesHave DEF CacheFile
  <1> HIDE DEF phase, e, new
  <1>6. n = [state |-> e.state, catalog |-> d.catalog, prefilter |-> d.prefilter,
             eligible |-> d.eligible, cache |-> new]
    BY <1>3, <1>4, FilesExcept, Zenon
  <1>7. n \in Daily!Files BY <1>0, <1>3, <1>5, <1>6, FilesHave, FilesOf
  <1>8. /\ n.state.phase = phase /\ n.state.anchor = d.state.anchor
        /\ n.state.slot = d.state.slot /\ n.catalog = d.catalog /\ n.prefilter = d.prefilter
        /\ n.eligible = d.eligible
    BY <1>3, <1>6
  <1>9. Daily!PhaseNumber(d) = 4 /\ Daily!PhaseNumber(n) \in {4, 5}
    BY <1>2, <1>8, PhaseNumbers DEF Finished
  <1>10. d.prefilter.next \in Int BY <1>0, FilesHave DEF PrefilterFile
  <1> QED BY <1>0, <1>2, <1>7, <1>8, <1>9, <1>10 DEF Keeps, SoundFiles, Extends, Finished, Beyond

(* Every phase of execute_pipeline. *)
LEMMA PipelineKeeps ==
  ASSUME NEW d, PassAt(d), NEW n \in Daily!Pipeline(d)
  PROVE  Keeps(d, n)
  <1>0. d \in Daily!Files /\ stamps \in 0..OfDaily.MaxStamp /\ SoundFiles(d, run.blocked) BY DEF PassAt
  <1>1. d.state.phase \in Phase BY <1>0, FilesHave DEF StateFile
  <1>2. CASE d.state.phase = "discovery"
    BY <1>2, DiscoveredKeeps DEF Daily!Pipeline
  <1>3. CASE d.state.phase = "date_precision"
    BY <1>3, GatedKeeps DEF Daily!Pipeline
  <1>4. CASE d.state.phase = "prefilter"
    BY <1>4, PrescreenedKeeps DEF Daily!Pipeline
  <1>5. CASE d.state.phase = "followers"
    <2>1. Daily!PrefilterComplete(d.prefilter, Daily!Rows(d)) BY <1>0, <1>5 DEF SoundFiles, Finished, Daily!Rows
    <2> QED BY <1>5, <2>1, VerifiedKeeps DEF Daily!Pipeline
  <1>6. CASE d.state.phase = "complete"
    <2>1. n = Daily!Updated(d, "complete") BY <1>6 DEF Daily!Pipeline
    <2>2. /\ n \in Daily!Files /\ n.state.phase = "complete" /\ n.state.anchor = d.state.anchor
          /\ n.state.slot = d.state.slot /\ n.catalog = d.catalog /\ n.prefilter = d.prefilter
          /\ n.eligible = d.eligible
      <3>1. "complete" \in Phase BY DEF Phase
      <3> HIDE DEF Phase
      <3>2. /\ n \in Daily!Files
            /\ n.state = [anchor |-> d.state.anchor, slot |-> d.state.slot,
                      phase |-> "complete", scanned |-> d.state.scanned, updated |-> stamps]
            /\ n.catalog = d.catalog /\ n.prefilter = d.prefilter /\ n.eligible = d.eligible
        BY <1>0, <2>1, <3>1, UpdatedIs, Zenon
      <3> QED BY <3>2
    <2>3. Daily!PhaseNumber(d) = 5 /\ Daily!PhaseNumber(n) = 5
      BY <1>6, <2>2, PhaseNumbers
    <2>4. d.prefilter.next \in Int BY <1>0, FilesHave DEF PrefilterFile
    <2> QED BY <1>0, <1>6, <2>2, <2>3, <2>4 DEF Keeps, SoundFiles, Extends, Finished, Beyond
  <1> QED BY <1>1, <1>2, <1>3, <1>4, <1>5, <1>6 DEF Phase

(* A pass that raises before it writes. *)
LEMMA FilesSelfKeep == ASSUME NEW d, PassAt(d) PROVE Keeps(d, d)
  <1>0. d \in Daily!Files /\ SoundFiles(d, run.blocked) BY DEF PassAt
  <1>1. d.prefilter.next \in Int BY <1>0, FilesHave DEF PrefilterFile
  <1>2. Daily!PhaseNumber(d) \in Int
    <2>1. d.state.phase \in Phase BY <1>0, FilesHave DEF StateFile
    <2> QED BY <2>1, PhaseNumbers DEF Phase
  <1> QED BY <1>0, <1>1, <1>2 DEF Keeps, SoundFiles, Extends

(* A pass that dies leaves the files in the order of the writes. *)
LEMMA TornKeeps ==
  ASSUME NEW d, PassAt(d), NEW n, Keeps(d, n), NEW k \in 0..Len(Daily!Written)
  PROVE  LET t == Daily!Torn(d, n, k) IN t \in Daily!Files /\ SoundFiles(t, run.blocked) /\ Extends(d, t)
  <1>0. d \in Daily!Files /\ SoundFiles(d, run.blocked) /\ n \in Daily!Files BY DEF PassAt, Keeps
  <1> DEFINE t == Daily!Torn(d, n, k)
             got(f) == f \in {Daily!Written[i] : i \in 1..k}
  <1>1. /\ t.state \in {d.state, n.state} /\ t.catalog \in {d.catalog, n.catalog}
        /\ t.prefilter \in {d.prefilter, n.prefilter} /\ t.cache \in {d.cache, n.cache}
        /\ t.eligible \in {d.eligible, n.eligible}
        /\ t = [state |-> t.state, catalog |-> t.catalog, prefilter |-> t.prefilter,
                eligible |-> t.eligible, cache |-> t.cache]
    BY DEF Daily!Torn, Daily!Paths, Daily!CandidatePaths
  <1>2. /\ got("state") => got("catalog")
        /\ got("catalog") => got("prefilter")
    BY DEF Daily!Written
  <1>3. /\ t.state = IF got("state") THEN n.state ELSE d.state
        /\ t.catalog = IF got("catalog") THEN n.catalog ELSE d.catalog
        /\ t.prefilter = IF got("prefilter") THEN n.prefilter ELSE d.prefilter
    BY DEF Daily!Torn, Daily!Paths, Daily!CandidatePaths
  <1> HIDE DEF t, got
  <1>4. t \in Daily!Files BY <1>0, <1>1, FilesHave, FilesOf
  <1>5. \/ t.state = d.state /\ t.catalog = d.catalog /\ t.prefilter = d.prefilter
        \/ t.state = d.state /\ t.catalog = d.catalog /\ t.prefilter = n.prefilter
        \/ t.state = d.state /\ t.catalog = n.catalog /\ t.prefilter = n.prefilter
        \/ t.state = n.state /\ t.catalog = n.catalog /\ t.prefilter = n.prefilter
    BY <1>2, <1>3
  <1>6. /\ t.state = d.state => Daily!PhaseNumber(t) = Daily!PhaseNumber(d)
        /\ t.state = n.state => Daily!PhaseNumber(t) = Daily!PhaseNumber(n)
        /\ Daily!PhaseNumber(d) \in Int
    <2>1. \A x, y : x.state = y.state => Daily!PhaseNumber(x) = Daily!PhaseNumber(y)
      BY Zenon DEF Daily!PhaseNumber
    <2>2. d.state.phase \in Phase BY <1>0, FilesHave DEF StateFile
    <2> QED BY <2>1, <2>2, PhaseNumbers DEF Phase
  <1>7. d.prefilter.next \in Int BY <1>0, FilesHave DEF PrefilterFile
  <1>8. Extends(d, t)
    BY <1>5, <1>6, <1>7 DEF Keeps, Extends
  <1>9. SoundFiles(t, run.blocked)
    <2>1. CASE t.state = n.state /\ t.catalog = n.catalog /\ t.prefilter = n.prefilter
      BY <2>1 DEF Keeps, SoundFiles
    <2>2. CASE t.state = d.state /\ t.catalog = d.catalog /\ t.prefilter = d.prefilter
      BY <2>2, <1>0 DEF SoundFiles
    <2>3. CASE t.state = d.state /\ t.catalog = d.catalog /\ t.prefilter = n.prefilter
      BY <2>3, <1>0 DEF Keeps, SoundFiles
    <2>4. CASE t.state = d.state /\ t.catalog = n.catalog /\ t.prefilter = n.prefilter
      <3>1. Daily!Screened(n.prefilter) \subseteq n.catalog.eligible
            /\ (~n.catalog.gate => n.catalog.eligible = {})
        BY DEF Keeps, SoundFiles
      <3>2. d.state.phase \in Beyond => n.catalog.gate
        BY <1>0 DEF Keeps, SoundFiles
      <3>3. d.state.phase \in Finished =>
              Daily!PrefilterComplete(n.prefilter, n.catalog.eligible \ run.blocked)
        BY <1>0, Zenon DEF Keeps, SoundFiles
      <3> QED BY <2>4, <1>0, <3>1, <3>2, <3>3 DEF SoundFiles
    <2> QED BY <2>1, <2>2, <2>3, <2>4, <1>5
  <1> QED BY <1>4, <1>8, <1>9 DEF t
--------------------------------------------------------------------------------
(* The merge of a frozen batch. *)
LEMMA MergesIn ==
  ASSUME NEW d \in Daily!Files, NEW b \in Daily!Files, NEW o \in Daily!Files,
         -1 \notin {Daily!MergeCache(d.cache, b.cache, o.cache)[a] : a \in OfDaily.App}
  PROVE  Daily!MergeCache(d.cache, b.cache, o.cache) \in CacheFile
  <1>1. d.cache \in CacheFile /\ b.cache \in CacheFile /\ o.cache \in CacheFile
    BY FilesHave
  <1> DEFINE m == Daily!MergeCache(d.cache, b.cache, o.cache)
  <1>2. \A a \in OfDaily.App : m[a] \in (0..OfDaily.MaxStamp) \cup {-1}
    BY <1>1 DEF Daily!MergeCache, Daily!MergeKey, CacheFile
  <1>3. m = [a \in OfDaily.App |-> m[a]] BY DEF Daily!MergeCache
  <1>4. \A a \in OfDaily.App : m[a] # -1 OBVIOUS
  <1> HIDE DEF m
  <1>5. \A a \in OfDaily.App : m[a] \in 0..OfDaily.MaxStamp BY <1>2, <1>4
  <1>6. m \in CacheFile BY <1>3, <1>5 DEF CacheFile
  <1> QED BY <1>6 DEF m

(* Either nothing but the cache changes, or the observed files are published. *)
LEMMA ReplayedIs ==
  ASSUME NEW frozen, frozen.base \in Daily!Files, frozen.observed \in Daily!Files, published \in Daily!Files,
         Daily!Mergeable(frozen)
  PROVE  LET r == Daily!Replayed(frozen) IN
         /\ r \in Daily!Files
         /\ \/ \A f \in Daily!CandidatePaths : r[f] = published[f]
            \/ \A f \in Daily!CandidatePaths :
                 r[f] = frozen.observed[f] /\ published[f] \in {frozen.base[f], frozen.observed[f]}
  <1> DEFINE r == Daily!Replayed(frozen)
             m == Daily!MergeCache(published.cache, frozen.base.cache, frozen.observed.cache)
  <1>1. m \in CacheFile
    BY MergesIn, Zenon DEF Daily!Mergeable
  <1>2. r.cache = m BY DEF Daily!Replayed, Daily!Paths
  <1>3. \A f \in Daily!CandidatePaths :
          r[f] = IF frozen.observed[f] = frozen.base[f] THEN published[f] ELSE frozen.observed[f]
    BY DEF Daily!Replayed, Daily!Paths, Daily!CandidatePaths
  <1>4. r = [state |-> r.state, catalog |-> r.catalog, prefilter |-> r.prefilter,
             eligible |-> r.eligible, cache |-> r.cache]
    BY DEF Daily!Replayed, Daily!Paths, Daily!CandidatePaths
  <1>5. \/ \A f \in Daily!CandidatePaths : r[f] = published[f]
        \/ \A f \in Daily!CandidatePaths :
             r[f] = frozen.observed[f] /\ published[f] \in {frozen.base[f], frozen.observed[f]}
    BY <1>3 DEF Daily!Mergeable, Daily!Replayable
  <1> HIDE DEF r, m
  <1>6. r \in Daily!Files
    <2>1. /\ r.state \in {published.state, frozen.observed.state}
          /\ r.catalog \in {published.catalog, frozen.observed.catalog}
          /\ r.prefilter \in {published.prefilter, frozen.observed.prefilter}
          /\ r.eligible \in {published.eligible, frozen.observed.eligible}
      BY <1>3 DEF Daily!CandidatePaths
    <2>2. /\ r.state \in StateFile /\ r.catalog \in CatalogFile
          /\ r.prefilter \in PrefilterFile /\ r.eligible \in EligibleFile
      BY <2>1, FilesHave
    <2> QED BY <2>2, <1>1, <1>2, <1>4, FilesOf
  <1> QED BY <1>5, <1>6 DEF r

(* What is kept of the day's progress between two states of the files. *)
LEMMA ReplayedKeeps ==
  ASSUME NEW frozen, frozen.base \in Daily!Files, frozen.observed \in Daily!Files, published \in Daily!Files,
         Daily!Mergeable(frozen), Extends(frozen.base, frozen.observed),
         NEW left, SoundFiles(published, left), SoundFiles(frozen.observed, left)
  PROVE  LET r == Daily!Replayed(frozen) IN
         r \in Daily!Files /\ SoundFiles(r, left) /\ Extends(published, r)
  <1> DEFINE r == Daily!Replayed(frozen)
  <1>1. /\ r \in Daily!Files
        /\ \/ \A f \in Daily!CandidatePaths : r[f] = published[f]
           \/ \A f \in Daily!CandidatePaths :
                r[f] = frozen.observed[f] /\ published[f] \in {frozen.base[f], frozen.observed[f]}
    BY ReplayedIs
  <1> HIDE DEF r
  <1>2. \A x, y : x.state = y.state => Daily!PhaseNumber(x) = Daily!PhaseNumber(y)
    BY Zenon DEF Daily!PhaseNumber
  <1>3. \A d \in Daily!Files : Daily!PhaseNumber(d) \in Int /\ d.prefilter.next \in Int
    <2> SUFFICES ASSUME NEW d \in Daily!Files
                 PROVE  Daily!PhaseNumber(d) \in Int /\ d.prefilter.next \in Int
      OBVIOUS
    <2>1. d.state.phase \in Phase /\ d.prefilter.next \in Int
      BY FilesHave DEF StateFile, PrefilterFile
    <2> QED BY <2>1, PhaseNumbers DEF Phase
  <1>4. CASE \A f \in Daily!CandidatePaths : r[f] = published[f]
    <2>1. /\ r.state = published.state /\ r.catalog = published.catalog
          /\ r.prefilter = published.prefilter
      BY <1>4 DEF Daily!CandidatePaths
    <2> QED BY <2>1, <1>1, <1>2, <1>3 DEF SoundFiles, Extends, r
  <1>5. CASE \A f \in Daily!CandidatePaths :
                r[f] = frozen.observed[f] /\ published[f] \in {frozen.base[f], frozen.observed[f]}
    <2>1. /\ r.state = frozen.observed.state /\ r.catalog = frozen.observed.catalog
          /\ r.prefilter = frozen.observed.prefilter
          /\ published.state \in {frozen.base.state, frozen.observed.state}
          /\ published.prefilter \in {frozen.base.prefilter, frozen.observed.prefilter}
      BY <1>5 DEF Daily!CandidatePaths
    <2>2. /\ Daily!PhaseNumber(r) = Daily!PhaseNumber(frozen.observed)
          /\ Daily!PhaseNumber(published) \in {Daily!PhaseNumber(frozen.base), Daily!PhaseNumber(frozen.observed)}
      BY <2>1, <1>2
    <2>3. SoundFiles(r, left) BY <2>1 DEF SoundFiles
    <2>4. Extends(published, r) BY <2>1, <2>2, <1>3 DEF Extends
    <2> QED BY <2>3, <2>4, <1>1 DEF r
  <1> QED BY <1>1, <1>4, <1>5
--------------------------------------------------------------------------------
(* What is not sound for a smaller exclusion is sound for a larger one. *)
LEMMA SoundGrows ==
  ASSUME Daily!DailyAssumption, NEW d \in Daily!Files, NEW less \in SUBSET OfDaily.App, NEW more \in SUBSET OfDaily.App,
         less \subseteq more, SoundFiles(d, less)
  PROVE  SoundFiles(d, more)
  <1> DEFINE old == d.catalog.eligible \ less
             new == d.catalog.eligible \ more
  <1>1. d.catalog.eligible \subseteq OfDaily.App /\ d.prefilter.next \in Int
    BY FilesHave DEF CatalogFile, PrefilterFile
  <1>2. IsFiniteSet(old) /\ new \subseteq old
    BY <1>1, FS_Subset, DailyCounts DEF Daily!DailyAssumption
  <1>3. Cardinality(new) <= Cardinality(old) /\ Cardinality(new) \in Nat /\ Cardinality(old) \in Nat
    BY <1>2, FS_Subset, FS_CardinalityType
  <1> HIDE DEF old, new
  <1>4. Daily!PrefilterComplete(d.prefilter, old) => Daily!PrefilterComplete(d.prefilter, new)
    BY <1>1, <1>2, <1>3, DailyCounts DEF Daily!PrefilterComplete, Daily!WindowComplete
  <1> QED BY <1>4 DEF SoundFiles, old, new

(* The first files, and no run. *)
LEMMA FirstFilesAre ==
  ASSUME Daily!DailyAssumption, NEW left
  PROVE  Daily!FirstFiles \in Daily!Files /\ SoundFiles(Daily!FirstFiles, left) /\ Extends(Daily!FirstFiles, Daily!FirstFiles)
  <1>0. /\ OfDaily.MaxDay \in Nat /\ OfDaily.MaxStamp \in Nat /\ IsFiniteSet(OfDaily.App) BY DailyCounts DEF Daily!DailyAssumption
  <1>1. Cardinality(OfDaily.App) \in Nat BY <1>0, FS_CardinalityType
  <1>2. Daily!FreshState(0) \in StateFile BY <1>0 DEF Daily!FreshState, StateFile, Phase
  <1>3. Daily!NoCatalog \in CatalogFile BY DEF Daily!NoCatalog, CatalogFile
  <1>4. Daily!NoPrefilter \in PrefilterFile BY <1>0, <1>1 DEF Daily!NoPrefilter, PrefilterFile
  <1>5. [day |-> 0, games |-> {}] \in EligibleFile BY <1>0 DEF EligibleFile
  <1>6. [a \in OfDaily.App |-> 0] \in CacheFile BY <1>0 DEF CacheFile
  <1>7. Daily!FirstFiles \in Daily!Files
    BY <1>2, <1>3, <1>4, <1>5, <1>6, FilesOf, Zenon DEF Daily!FirstFiles
  <1>8. /\ Daily!FirstFiles.state = Daily!FreshState(0) /\ Daily!FirstFiles.catalog = Daily!NoCatalog
        /\ Daily!FirstFiles.prefilter = Daily!NoPrefilter
    BY DEF Daily!FirstFiles
  <1>9. Daily!Screened(Daily!NoPrefilter) = {} /\ Daily!NoPrefilter.next = 0 BY DEF Daily!Screened, Daily!NoPrefilter
  <1>10. Daily!PhaseNumber(Daily!FirstFiles) = 1 BY <1>8, PhaseNumbers DEF Daily!FreshState
  <1> QED BY <1>7, <1>8, <1>9, <1>10
          DEF SoundFiles, Extends, Daily!FreshState, Daily!NoCatalog, Beyond, Finished

LEMMA NoRunIs == ASSUME Daily!DailyAssumption PROVE Daily!NoRun \in RunType
  <1>1. Daily!FreshState(0) \in StateFile /\ OfDaily.MaxPass \in Nat
    BY DEF Daily!DailyAssumption, Daily!FreshState, StateFile, Phase
  <1>2. Daily!FirstFiles \in Daily!Files BY FirstFilesAre
  <1> QED BY <1>1, <1>2 DEF Daily!NoRun, RunType

LEMMA DailyInvInit == ASSUME Daily!DailyAssumption, Daily!Init PROVE DailyIInv
  <1>0. /\ OfDaily.MaxDay \in Nat \ {0} /\ OfDaily.MaxStamp \in Nat /\ OfDaily.MaxLedger \in Nat /\ OfDaily.MaxFault \in Nat
        /\ OfDaily.MaxManual \in Nat /\ OfDaily.MaxPass \in Nat
    BY DEF Daily!DailyAssumption
  <1>1. \A left : Daily!FirstFiles \in Daily!Files /\ SoundFiles(Daily!FirstFiles, left) /\ Extends(Daily!FirstFiles, Daily!FirstFiles)
    BY FirstFilesAre
  <1>5. run \in RunType
    <2>1. Daily!NoRun \in RunType BY <1>0, NoRunIs
    <2> QED BY <2>1 DEF Daily!Init
  <1>2. /\ run.base = Daily!FirstFiles /\ run.passes = 0 /\ run.blocked = {} /\ run.pc = "idle"
        /\ kept.base = Daily!FirstFiles /\ kept.observed = Daily!FirstFiles
        /\ published = Daily!FirstFiles /\ disk = Daily!FirstFiles /\ ledger = {} /\ day = 1
        /\ manual = 0 /\ stamps = 0 /\ mishaps = 0
    BY DEF Daily!Init, Daily!NoRun, Daily!NoBatch
  <1>3. Cardinality(ledger) = 0 BY <1>2, FS_EmptySet
  <1>4. Daily!TypeOK
    BY <1>0, <1>1, <1>2, <1>3, DailyCounts DEF Daily!TypeOK
  <1> QED BY <1>1, <1>2, <1>4, <1>5 DEF DailyIInv
--------------------------------------------------------------------------------
LEMMA LaterIs == ASSUME NEW x \in Nat, NEW y \in Nat PROVE Daily!Min({x, y}) \in {x, y} /\ Daily!Min({x, y}) <= y
  <1>1. \E m \in {x, y} : \A z \in {x, y} : m <= z
    <2>1. CASE x <= y BY <2>1
    <2>2. CASE y <= x BY <2>2
    <2> QED BY <2>1, <2>2
  <1> QED BY <1>1 DEF Daily!Min

LEMMA StampsLater ==
  ASSUME Daily!DailyAssumption, stamps \in 0..OfDaily.MaxStamp, Daily!Later PROVE stamps' \in 0..OfDaily.MaxStamp
  <1>1. stamps + 1 \in Nat /\ OfDaily.MaxStamp \in Nat BY DEF Daily!DailyAssumption
  <1> QED BY <1>1, LaterIs DEF Daily!Later

LEMMA SelfExtends == ASSUME NEW d \in Daily!Files PROVE Extends(d, d)
  <1>1. d.state.phase \in Phase /\ d.prefilter.next \in Int
    BY FilesHave DEF StateFile, PrefilterFile
  <1> QED BY <1>1, PhaseNumbers DEF Phase, Extends

LEMMA ExtendsOn ==
  ASSUME NEW d \in Daily!Files, NEW e \in Daily!Files, NEW f \in Daily!Files, Extends(d, e), Extends(e, f)
  PROVE  Extends(d, f)
  <1>1. \A x \in Daily!Files : x.state.phase \in Phase /\ x.prefilter.next \in Int
    BY FilesHave DEF StateFile, PrefilterFile
  <1>2. \A x \in Daily!Files : Daily!PhaseNumber(x) \in Int
    BY <1>1, PhaseNumbers DEF Phase
  <1> QED BY <1>1, <1>2 DEF Extends

LEMMA ExtendsGives ==
  ASSUME published \in Daily!Files, published' \in Daily!Files, Extends(published, published')
  PROVE  Daily!KeepsProgress
  <1>1. published.state.anchor \in Int /\ published'.state.anchor \in Int
    BY FilesHave DEF StateFile
  <1> QED BY <1>1 DEF Extends, Daily!KeepsProgress

(* The bounds that a step respects. *)
LEMMA Mishaps == ASSUME Daily!TypeOK, Daily!DailyAssumption, Daily!Mishap \/ UNCHANGED mishaps
                 PROVE mishaps' \in 0..OfDaily.MaxFault
  BY DEF Daily!TypeOK, Daily!DailyAssumption, Daily!Mishap

(* A runner that is gone. *)
LEMMA GoneIs ==
  ASSUME Daily!DailyAssumption, Daily!Gone
  PROVE  /\ run' \in RunType /\ run'.blocked = {} /\ run'.pc = "idle" /\ run'.base \in Daily!Files
         /\ run'.passes \in 0..OfDaily.MaxPass /\ disk' \in Daily!Files /\ SoundFiles(disk', run'.blocked)
  <1>1. Daily!NoRun \in RunType BY NoRunIs
  <1>2. Daily!NoRun.blocked = {} /\ Daily!NoRun.pc = "idle" BY DEF Daily!NoRun
  <1>3. Daily!NoRun.base \in Daily!Files /\ Daily!NoRun.passes \in 0..OfDaily.MaxPass BY <1>1 DEF RunType
  <1>4. Daily!FirstFiles \in Daily!Files /\ SoundFiles(Daily!FirstFiles, {}) BY FirstFilesAre
  <1> QED BY <1>1, <1>2, <1>3, <1>4 DEF Daily!Gone

(* Each step of the workflow keeps the invariant and the progress. *)
LEMMA DailyStartKeeps ==
  ASSUME Daily!DailyAssumption, DailyIInv, NEW kind \in {"slot", "force", "continue"},
         NEW slot \in 1..OfDaily.MaxDay, Daily!Start(kind, slot)
  PROVE  DailyIInv' /\ Extends(published, published')
  <1>0. /\ Daily!TypeOK /\ run \in RunType /\ published \in Daily!Files /\ ledger \subseteq OfDaily.App
        /\ OfDaily.MaxManual \in Nat /\ manual \in 0..OfDaily.MaxManual
        /\ SoundFiles(published, ledger) /\ SoundFiles(kept.observed, ledger) /\ Extends(kept.base, kept.observed)
    BY DEF DailyIInv, Daily!TypeOK, Daily!DailyAssumption
  <1>1. /\ disk' = published /\ published' = published /\ kept' = kept /\ mishaps' = mishaps
        /\ day' = day /\ ledger' = ledger
    BY DEF Daily!Start, Daily!Still
  <1>2. /\ run' \in RunType /\ run'.blocked = ledger /\ run'.pc \in {"capture", "reset"}
    <2>1. run' = [Daily!NoRun EXCEPT !.pc = IF kind = "continue" THEN "capture" ELSE "reset",
                          !.kind = kind, !.initial = published.state, !.blocked = ledger]
      BY DEF Daily!Start
    <2>2. Daily!NoRun \in RunType BY NoRunIs
    <2>3. published.state \in StateFile BY <1>0, FilesHave
    <2> QED BY <2>1, <2>2, <2>3, <1>0 DEF RunType
  <1>3. run'.base \in Daily!Files /\ run'.passes \in 0..OfDaily.MaxPass BY <1>2 DEF RunType
  <1>4. stamps' \in 0..OfDaily.MaxStamp BY <1>0, StampsLater DEF Daily!Start, Daily!TypeOK
  <1>5. manual' \in 0..OfDaily.MaxManual BY <1>0 DEF Daily!Start
  <1>6. Daily!TypeOK' BY <1>0, <1>1, <1>2, <1>3, <1>4, <1>5 DEF Daily!TypeOK
  <1>7. Extends(published, published') BY <1>0, <1>1, SelfExtends
  <1> QED BY <1>0, <1>1, <1>2, <1>6, <1>7 DEF DailyIInv

(* Updates of one field at a time, for the reset. *)
Filed(d, s, c, p, e, k) ==
  d = [state |-> s, catalog |-> c, prefilter |-> p, eligible |-> e, cache |-> k]
Stated(w, a, b, c, x, y) ==
  w = [anchor |-> a, slot |-> b, phase |-> c, scanned |-> x, updated |-> y]

LEMMA FiledExcept ==
  ASSUME NEW d, NEW s, NEW c, NEW p, NEW e, NEW k, Filed(d, s, c, p, e, k), NEW v
  PROVE  /\ Filed([d EXCEPT !.state = v], v, c, p, e, k)
         /\ Filed([d EXCEPT !.catalog = v], s, v, p, e, k)
         /\ Filed([d EXCEPT !.prefilter = v], s, c, v, e, k)
         /\ d.state = s
  BY DEF Filed

LEMMA FiledHave ==
  ASSUME NEW d \in Daily!Files
  PROVE  Filed(d, d.state, d.catalog, d.prefilter, d.eligible, d.cache)
  BY FilesHave, Zenon DEF Filed

LEMMA SlotIs ==
  ASSUME NEW w, NEW a, NEW b, NEW c, NEW x, NEW y, NEW v, Stated(w, a, b, c, x, y)
  PROVE  Stated([w EXCEPT !.slot = v], a, v, c, x, y)
  BY DEF Stated

(* The state of a day that begins. *)
FreshSlot == [Daily!FreshState(day) EXCEPT !.slot = day]

LEMMA FreshSlotIs == Stated(FreshSlot, day, day, "discovery", FALSE, 0)
  <1>1. Stated(Daily!FreshState(day), day, 0, "discovery", FALSE, 0) BY Zenon DEF Stated, Daily!FreshState
  <1> QED BY <1>1, SlotIs, Zenon DEF FreshSlot

LEMMA FilesReset ==
  ASSUME NEW d, NEW s, NEW c, NEW p, NEW e, NEW k, Filed(d, s, c, p, e, k)
  PROVE  Filed([Daily!ResetFiles(d) EXCEPT !.state.slot = day], FreshSlot, Daily!NoCatalog, Daily!NoPrefilter, e, k)
  <1> DEFINE x == Daily!FreshState(day)
             d1 == [d EXCEPT !.state = x]
             d2 == [d1 EXCEPT !.catalog = Daily!NoCatalog]
             d3 == [d2 EXCEPT !.prefilter = Daily!NoPrefilter]
  <1>1. Daily!ResetFiles(d) = d3 BY DEF Daily!ResetFiles
  <1>2. Filed(d1, x, c, p, e, k) BY FiledExcept, Zenon
  <1> HIDE DEF d1
  <1>3. Filed(d2, x, Daily!NoCatalog, p, e, k) BY <1>2, FiledExcept, Zenon
  <1> HIDE DEF d2
  <1>4. Filed(d3, x, Daily!NoCatalog, Daily!NoPrefilter, e, k) BY <1>3, FiledExcept, Zenon
  <1> HIDE DEF d3
  <1>5. d3.state = x BY <1>4, FiledExcept, Zenon
  <1>6. [d3 EXCEPT !.state.slot = day] = [d3 EXCEPT !.state = FreshSlot]
    BY <1>5, Zenon DEF FreshSlot
  <1>7. Filed([d3 EXCEPT !.state = FreshSlot], FreshSlot, Daily!NoCatalog, Daily!NoPrefilter, e, k)
    BY <1>4, FiledExcept, Zenon
  <1> QED BY <1>1, <1>6, <1>7, Zenon

(* publish_daily_reset: what it publishes is sound, and what it throws away is another
   day's, or what the operator saw who asked for it. *)
LEMMA ResetIs ==
  ASSUME Daily!DailyAssumption, DailyIInv, NEW answered \in BOOLEAN, Daily!Reset(answered)
  PROVE  /\ published' \in Daily!Files /\ SoundFiles(published', ledger) /\ Daily!KeepsProgress
  <1>0. /\ published \in Daily!Files /\ SoundFiles(published, ledger) /\ day \in 1..OfDaily.MaxDay /\ OfDaily.MaxDay \in Nat
    BY DEF DailyIInv, Daily!TypeOK, Daily!DailyAssumption
  <1> DEFINE s == published.state
  <1>1. /\ s \in StateFile /\ s.anchor <= day /\ Daily!At("reset") BY <1>0, FilesHave DEF Daily!Reset
  <1>2. CASE Daily!ResetRequired(s)
    <2>1. published' = [Daily!ResetFiles(published) EXCEPT !.state.slot = day]
      BY <1>2 DEF Daily!Reset
    <2> DEFINE fresh == FreshSlot
    <2>2. /\ published' = [state |-> fresh, catalog |-> Daily!NoCatalog, prefilter |-> Daily!NoPrefilter,
                           eligible |-> published.eligible, cache |-> published.cache]
      <3>1. Filed(published, published.state, published.catalog, published.prefilter,
                  published.eligible, published.cache)
        BY <1>0, FiledHave, Zenon
      <3>2. Filed(published', FreshSlot, Daily!NoCatalog, Daily!NoPrefilter, published.eligible,
                  published.cache)
        BY <2>1, <3>1, FilesReset, Zenon
      <3> QED BY <3>2, Zenon DEF Filed
    <2>3. fresh \in StateFile /\ fresh.anchor = day /\ fresh.slot = day /\ fresh.phase = "discovery"
      BY <1>0, FreshSlotIs DEF Stated, StateFile, Phase, Daily!DailyAssumption
    <2>4. Daily!NoCatalog \in CatalogFile BY DEF Daily!NoCatalog, CatalogFile
    <2>5. Daily!NoPrefilter \in PrefilterFile
      <3>1. Cardinality(OfDaily.App) \in Nat BY FS_CardinalityType, DailyCounts DEF Daily!DailyAssumption
      <3> QED BY <3>1, <1>0 DEF Daily!NoPrefilter, PrefilterFile
    <2>6. published.eligible \in EligibleFile /\ published.cache \in CacheFile
      BY <1>0, FilesHave
    <2> HIDE DEF fresh
    <2>8. published' \in Daily!Files BY <2>2, <2>3, <2>4, <2>5, <2>6, FilesOf
    <2>9. Daily!Screened(Daily!NoPrefilter) = {} BY DEF Daily!Screened, Daily!NoPrefilter
    <2>10. SoundFiles(published', ledger)
      BY <2>2, <2>3, <2>9 DEF SoundFiles, Daily!NoCatalog, Beyond, Finished
    <2>11. published'.state.anchor = day BY <2>2, <2>3
    <2>12. CASE s.anchor = day
      <3>1. s.slot \in {0, day} BY <1>0, <2>12 DEF SoundFiles
      <3>2. run.kind = "force" /\ s = run.initial BY <1>2, <2>12, <3>1 DEF Daily!ResetRequired
      <3>3. Daily!KeepsProgress BY <1>0, <1>1, <2>11, <2>12, <3>2 DEF Daily!KeepsProgress
      <3> QED BY <2>8, <2>10, <3>3
    <2>13. CASE s.anchor # day
      <3>1. s.anchor \in Int BY <1>1 DEF StateFile
      <3>2. Daily!KeepsProgress BY <1>0, <1>1, <2>11, <2>13, <3>1 DEF Daily!KeepsProgress
      <3> QED BY <2>8, <2>10, <3>2
    <2> QED BY <2>8, <2>10, <2>12, <2>13
  <1>3. CASE ~Daily!ResetRequired(s)
    <2>1. published' = [published EXCEPT !.state.slot = day]
      BY <1>3 DEF Daily!Reset
    <2>2. s.anchor = day BY <1>3 DEF Daily!ResetRequired
    <2> DEFINE new == [s EXCEPT !.slot = day]
    <2>3. /\ new \in StateFile /\ new.anchor = day /\ new.slot = day /\ new.phase = s.phase
      BY <1>0, <1>1, <2>2 DEF StateFile
    <2>4. published' = [state |-> new, catalog |-> published.catalog,
             prefilter |-> published.prefilter, eligible |-> published.eligible,
             cache |-> published.cache]
      <3>1. published' = [published EXCEPT !.state = new] BY <2>1, Zenon
      <3> HIDE DEF new
      <3>2. Filed(published, published.state, published.catalog, published.prefilter,
                  published.eligible, published.cache)
        BY <1>0, FiledHave, Zenon
      <3>3. Filed(published', new, published.catalog, published.prefilter,
                  published.eligible, published.cache)
        BY <3>1, <3>2, FiledExcept, Zenon
      <3> QED BY <3>3, Zenon DEF Filed
    <2> HIDE DEF new
    <2>5. published' \in Daily!Files BY <1>0, <2>3, <2>4, FilesHave, FilesOf
    <2>6. SoundFiles(published', ledger)
      BY <1>0, <2>3, <2>4 DEF SoundFiles
    <2>7. Extends(published, published')
      <3>1. published.prefilter.next \in Int /\ s.phase \in Phase
        BY <1>0, FilesHave DEF StateFile, PrefilterFile
      <3>2. Daily!PhaseNumber(published) = Daily!PhaseNumber(published')
        BY <2>3, <2>4, Zenon DEF Daily!PhaseNumber
      <3>3. Daily!PhaseNumber(published) \in Int BY <3>1, PhaseNumbers DEF Phase
      <3> QED BY <2>2, <2>3, <2>4, <3>1, <3>2, <3>3 DEF Extends
    <2> QED BY <1>0, <2>5, <2>6, <2>7, ExtendsGives
  <1> QED BY <1>2, <1>3

LEMMA ResetKeeps ==
  ASSUME Daily!DailyAssumption, DailyIInv, NEW answered \in BOOLEAN, Daily!Reset(answered)
  PROVE  DailyIInv' /\ Daily!KeepsProgress
  <1>0. /\ Daily!TypeOK /\ run \in RunType /\ ledger \subseteq OfDaily.App
        /\ SoundFiles(kept.observed, ledger) /\ Extends(kept.base, kept.observed)
    BY DEF DailyIInv, Daily!TypeOK
  <1>1. published' \in Daily!Files /\ SoundFiles(published', ledger) /\ Daily!KeepsProgress BY ResetIs
  <1>2. /\ kept' = kept /\ manual' = manual /\ stamps' = stamps /\ day' = day /\ ledger' = ledger
    BY DEF Daily!Reset, Daily!Still
  <1>3. mishaps' \in 0..OfDaily.MaxFault BY <1>0, Mishaps DEF Daily!Reset
  <1>4. /\ run' \in RunType /\ run'.base \in Daily!Files /\ run'.passes \in 0..OfDaily.MaxPass
        /\ disk' \in Daily!Files /\ SoundFiles(disk', run'.blocked) /\ run'.blocked \subseteq ledger
        /\ run'.pc \in {"capture", "idle"}
    <2>1. CASE answered
      <3>1. run' = [run EXCEPT !.pc = "capture", !.blocked = ledger] /\ disk' = published'
        BY <2>1 DEF Daily!Reset
      <3>2. run' \in RunType /\ run'.blocked = ledger /\ run'.pc = "capture"
        BY <3>1, <1>0 DEF RunType
      <3> QED BY <3>1, <3>2, <1>1 DEF RunType
    <2>2. CASE ~answered
      BY <2>2, GoneIs DEF Daily!Reset
    <2> QED BY <2>1, <2>2
  <1>5. Daily!TypeOK'
    <2>1. run'.blocked \subseteq OfDaily.App /\ run'.pc \in {"idle", "capture"} BY <1>0, <1>4
    <2> QED BY <1>0, <1>1, <1>2, <1>3, <1>4, <2>1 DEF Daily!TypeOK
  <1> QED BY <1>0, <1>1, <1>2, <1>4, <1>5 DEF DailyIInv

LEMMA DailyCaptureKeeps ==
  ASSUME Daily!DailyAssumption, DailyIInv, Daily!Capture
  PROVE  DailyIInv' /\ Extends(published, published')
  <1>0. /\ Daily!TypeOK /\ run \in RunType /\ published \in Daily!Files /\ disk \in Daily!Files /\ run.blocked \subseteq ledger
        /\ SoundFiles(published, ledger) /\ SoundFiles(kept.observed, ledger) /\ Extends(kept.base, kept.observed)
        /\ SoundFiles(disk, run.blocked)
    BY DEF DailyIInv, Daily!TypeOK
  <1>1. /\ UNCHANGED <<published, disk, kept, manual, stamps, mishaps, day, ledger>>
        /\ run' = [run EXCEPT !.pc = "work", !.base = disk]
    BY DEF Daily!Capture, Daily!Still
  <1>2. /\ run' \in RunType /\ run'.blocked = run.blocked /\ run'.base = disk /\ run'.pc = "work"
        /\ run'.passes = run.passes
    BY <1>0, <1>1 DEF RunType
  <1>3. Daily!TypeOK' BY <1>0, <1>1, <1>2 DEF Daily!TypeOK
  <1>4. Extends(disk, disk) /\ Extends(published, published) BY <1>0, SelfExtends
  <1> QED BY <1>0, <1>1, <1>2, <1>3, <1>4 DEF DailyIInv

(* The run at work and what its passes leave. *)
LEMMA DailyAtWork ==
  ASSUME Daily!DailyAssumption, DailyIInv
  PROVE  PassAt(disk)
  BY DEF DailyIInv, Daily!TypeOK, PassAt

(* The files after a pass, or what is left of one. *)
LEMMA WorkKeeps ==
  ASSUME Daily!DailyAssumption, DailyIInv, Daily!At("work"), disk' \in Daily!Files, SoundFiles(disk', run.blocked),
         Extends(disk, disk'), UNCHANGED <<published, kept, manual, day, ledger>>,
         mishaps' \in 0..OfDaily.MaxFault, stamps' \in 0..OfDaily.MaxStamp,
         run' \in RunType, run'.base = run.base, run'.blocked = run.blocked,
         run'.pc \in {"work", "freeze", "publish"}
  PROVE  DailyIInv' /\ Extends(published, published')
  <1>0. /\ Daily!TypeOK /\ run \in RunType /\ published \in Daily!Files /\ disk \in Daily!Files /\ run.base \in Daily!Files
        /\ run.blocked \subseteq ledger /\ run.blocked \subseteq OfDaily.App
        /\ SoundFiles(published, ledger) /\ SoundFiles(kept.observed, ledger) /\ Extends(kept.base, kept.observed)
        /\ Extends(run.base, disk)
    BY DEF DailyIInv, Daily!TypeOK, Daily!At
  <1>1. run'.passes \in 0..OfDaily.MaxPass BY DEF RunType
  <1>2. Daily!TypeOK' BY <1>0, <1>1 DEF Daily!TypeOK
  <1>3. Extends(run'.base, disk') /\ Extends(published, published')
    BY <1>0, ExtendsOn, SelfExtends
  <1> QED BY <1>0, <1>2, <1>3 DEF DailyIInv

LEMMA PassKeeps ==
  ASSUME Daily!DailyAssumption, DailyIInv, Daily!Pass
  PROVE  DailyIInv' /\ Extends(published, published')
  <1>0. /\ Daily!TypeOK /\ run \in RunType /\ PassAt(disk) /\ stamps \in 0..OfDaily.MaxStamp /\ mishaps \in 0..OfDaily.MaxFault
    BY DailyAtWork DEF DailyIInv, Daily!TypeOK
  <1>1. Keeps(disk, disk') BY <1>0, PipelineKeeps DEF Daily!Pass
  <1>2. /\ Daily!At("work") /\ UNCHANGED <<published, kept, manual, mishaps, day, ledger>>
        /\ run' = [run EXCEPT !.passes = @ + 1] /\ Daily!Later
    BY DEF Daily!Pass, Daily!Still
  <1>3. run.passes + 1 \in 0..OfDaily.MaxPass
    <2>1. run.passes \in 0..OfDaily.MaxPass /\ OfDaily.MaxPass \in Nat \ {0} BY <1>0 DEF RunType, Daily!DailyAssumption
    <2>2. run.passes = 0 \/ run.passes < OfDaily.MaxPass BY DEF Daily!Pass, Daily!MorePasses
    <2> QED BY <2>1, <2>2
  <1>4. /\ run' \in RunType /\ run'.base = run.base /\ run'.blocked = run.blocked /\ run'.pc = run.pc
    BY <1>0, <1>2, <1>3 DEF RunType
  <1>5. stamps' \in 0..OfDaily.MaxStamp BY <1>0, <1>2, StampsLater
  <1> QED BY <1>0, <1>1, <1>2, <1>4, <1>5, WorkKeeps DEF Keeps, Daily!At

LEMMA PassDiesKeeps ==
  ASSUME Daily!DailyAssumption, DailyIInv, NEW n \in 0..Len(Daily!Written), Daily!PassDies(n)
  PROVE  DailyIInv' /\ Extends(published, published')
  <1>0. /\ Daily!TypeOK /\ run \in RunType /\ PassAt(disk) /\ stamps \in 0..OfDaily.MaxStamp
    BY DailyAtWork DEF DailyIInv, Daily!TypeOK
  <1>1. PICK new \in Daily!Pipeline(disk) \cup {disk} : disk' = Daily!Torn(disk, new, n) BY DEF Daily!PassDies
  <1>2. Keeps(disk, new) BY <1>0, PipelineKeeps, FilesSelfKeep
  <1>3. disk' \in Daily!Files /\ SoundFiles(disk', run.blocked) /\ Extends(disk, disk')
    BY <1>0, <1>1, <1>2, TornKeeps
  <1>4. /\ Daily!At("work") /\ UNCHANGED <<published, kept, manual, day, ledger>>
        /\ run' = [run EXCEPT !.pc = "freeze"] /\ Daily!Later
    BY DEF Daily!PassDies, Daily!Still
  <1>5. /\ run' \in RunType /\ run'.base = run.base /\ run'.blocked = run.blocked /\ run'.pc = "freeze"
    BY <1>0, <1>4 DEF RunType
  <1>6. stamps' \in 0..OfDaily.MaxStamp BY <1>0, <1>4, StampsLater
  <1>7. mishaps' \in 0..OfDaily.MaxFault
    <2>1. Daily!Mishap \/ UNCHANGED mishaps BY DEF Daily!PassDies
    <2> QED BY <1>0, <2>1, Mishaps
  <1> QED BY <1>3, <1>4, <1>5, <1>6, <1>7, WorkKeeps

LEMMA PassEndKeeps ==
  ASSUME Daily!DailyAssumption, DailyIInv, Daily!EndLoop
  PROVE  DailyIInv' /\ Extends(published, published')
  <1>0. /\ Daily!TypeOK /\ run \in RunType /\ disk \in Daily!Files /\ SoundFiles(disk, run.blocked) /\ day \in 1..OfDaily.MaxDay
        /\ stamps \in 0..OfDaily.MaxStamp /\ mishaps \in 0..OfDaily.MaxFault /\ OfDaily.MaxDay \in Nat
    BY DEF DailyIInv, Daily!TypeOK, Daily!DailyAssumption
  <1> DEFINE list == [day |-> day, games |-> disk.catalog.eligible]
  <1>1. disk' = [disk EXCEPT !.eligible = list] \/ disk' = disk
    BY Zenon DEF Daily!EndLoop
  <1>2. /\ disk' \in Daily!Files /\ disk'.state = disk.state /\ disk'.catalog = disk.catalog
        /\ disk'.prefilter = disk.prefilter
    <2>1. CASE disk' = disk BY <2>1, <1>0
    <2>2. CASE disk' = [disk EXCEPT !.eligible = list]
      <3>1. list \in EligibleFile BY <1>0, FilesHave DEF EligibleFile, CatalogFile
      <3> HIDE DEF list
      <3>2. disk' = [state |-> disk.state, catalog |-> disk.catalog, prefilter |-> disk.prefilter,
                     eligible |-> list, cache |-> disk.cache]
        BY <2>2, <1>0, FilesExcept, Zenon
      <3> QED BY <3>1, <3>2, <1>0, FilesHave, FilesOf
    <2> QED BY <1>1, <2>1, <2>2
  <1>3. SoundFiles(disk', run.blocked) BY <1>0, <1>2 DEF SoundFiles
  <1>4. Extends(disk, disk')
    <2>1. Extends(disk, disk) BY <1>0, SelfExtends
    <2>2. Daily!PhaseNumber(disk') = Daily!PhaseNumber(disk) BY <1>2, Zenon DEF Daily!PhaseNumber
    <2> QED BY <2>1, <2>2, <1>2 DEF Extends
  <1>5. /\ Daily!At("work") /\ UNCHANGED <<published, kept, manual, stamps, mishaps, day, ledger>>
        /\ run' = [run EXCEPT !.pc = "freeze"]
    BY DEF Daily!EndLoop, Daily!Still
  <1>6. /\ run' \in RunType /\ run'.base = run.base /\ run'.blocked = run.blocked /\ run'.pc = "freeze"
    BY <1>0, <1>5 DEF RunType
  <1> QED BY <1>0, <1>2, <1>3, <1>4, <1>5, <1>6, WorkKeeps

LEMMA DailyFreezeKeeps ==
  ASSUME Daily!DailyAssumption, DailyIInv, Daily!Freeze
  PROVE  DailyIInv' /\ Extends(published, published')
  <1>0. /\ Daily!TypeOK /\ run \in RunType /\ published \in Daily!Files /\ disk \in Daily!Files /\ run.base \in Daily!Files
        /\ run.blocked \subseteq ledger /\ run.blocked \in SUBSET OfDaily.App /\ ledger \in SUBSET OfDaily.App
        /\ SoundFiles(published, ledger) /\ SoundFiles(kept.observed, ledger) /\ Extends(kept.base, kept.observed)
        /\ SoundFiles(disk, run.blocked) /\ Extends(run.base, disk)
        /\ kept.base \in Daily!Files /\ kept.observed \in Daily!Files
    BY DEF DailyIInv, Daily!TypeOK, Daily!At, Daily!Freeze
  <1>1. /\ UNCHANGED <<published, disk, manual, stamps, mishaps, day, ledger>>
        /\ run' = [run EXCEPT !.pc = "publish"]
    BY DEF Daily!Freeze, Daily!Still
  <1>2. /\ run' \in RunType /\ run'.blocked = run.blocked /\ run'.base = run.base
        /\ run'.pc = "publish" /\ run'.passes = run.passes
    BY <1>0, <1>1 DEF RunType
  <1>3. SoundFiles(disk, ledger) BY <1>0, SoundGrows
  <1>4. /\ kept'.base \in Daily!Files /\ kept'.observed \in Daily!Files /\ SoundFiles(kept'.observed, ledger)
        /\ Extends(kept'.base, kept'.observed)
    BY <1>0, <1>3 DEF Daily!Freeze
  <1>5. Daily!TypeOK' BY <1>0, <1>1, <1>2, <1>4 DEF Daily!TypeOK
  <1>6. Extends(published, published) BY <1>0, SelfExtends
  <1> QED BY <1>0, <1>1, <1>2, <1>4, <1>5, <1>6 DEF DailyIInv

(* The run is gone, whatever it published. *)
LEMMA GoneKeeps ==
  ASSUME Daily!DailyAssumption, DailyIInv, Daily!Gone, UNCHANGED <<kept, manual, stamps, day, ledger>>,
         mishaps' \in 0..OfDaily.MaxFault, published' \in Daily!Files, SoundFiles(published', ledger)
  PROVE  DailyIInv'
  <1>0. /\ Daily!TypeOK /\ SoundFiles(kept.observed, ledger) /\ Extends(kept.base, kept.observed)
    BY DEF DailyIInv, Daily!TypeOK
  <1>1. /\ run' \in RunType /\ run'.blocked = {} /\ run'.pc = "idle" /\ run'.base \in Daily!Files
        /\ run'.passes \in 0..OfDaily.MaxPass /\ disk' \in Daily!Files /\ SoundFiles(disk', run'.blocked)
    BY GoneIs
  <1>2. Daily!TypeOK' BY <1>0, <1>1 DEF Daily!TypeOK
  <1> QED BY <1>0, <1>1, <1>2 DEF DailyIInv

LEMMA DailyPublishKeeps ==
  ASSUME Daily!DailyAssumption, DailyIInv, NEW answered \in BOOLEAN, Daily!Publish(answered)
  PROVE  DailyIInv' /\ Extends(published, published')
  <1>0. /\ Daily!TypeOK /\ published \in Daily!Files /\ disk \in Daily!Files /\ run.base \in Daily!Files
        /\ run.blocked \subseteq ledger /\ run.blocked \in SUBSET OfDaily.App /\ ledger \in SUBSET OfDaily.App
        /\ SoundFiles(published, ledger) /\ SoundFiles(disk, run.blocked) /\ Extends(run.base, disk)
    BY DEF DailyIInv, Daily!TypeOK, Daily!At, Daily!Publish
  <1>1. SoundFiles(disk, ledger) BY <1>0, SoundGrows
  <1>2. Daily!Batch.base = run.base /\ Daily!Batch.observed = disk BY DEF Daily!Batch
  <1>3. /\ Daily!Mergeable(Daily!Batch) /\ published' = Daily!Replayed(Daily!Batch) /\ Daily!Gone
        /\ UNCHANGED <<kept, manual, stamps, day, ledger>>
        /\ Daily!Mishap \/ UNCHANGED mishaps
    BY DEF Daily!Publish, Daily!Still
  <1>4. published' \in Daily!Files /\ SoundFiles(published', ledger) /\ Extends(published, published')
    BY <1>0, <1>1, <1>2, <1>3, ReplayedKeeps
  <1>5. mishaps' \in 0..OfDaily.MaxFault BY <1>0, <1>3, Mishaps
  <1> QED BY <1>3, <1>4, <1>5, GoneKeeps

LEMMA PublishConflictKeeps ==
  ASSUME Daily!DailyAssumption, DailyIInv, Daily!PublishConflict
  PROVE  DailyIInv' /\ Extends(published, published')
  <1>1. /\ Daily!Gone /\ UNCHANGED <<published, kept, manual, stamps, mishaps, day, ledger>>
    BY DEF Daily!PublishConflict, Daily!Still
  <1>2. published \in Daily!Files /\ SoundFiles(published, ledger) /\ mishaps \in 0..OfDaily.MaxFault
    BY DEF DailyIInv, Daily!TypeOK
  <1> QED BY <1>1, <1>2, GoneKeeps, SelfExtends

LEMMA RunEndsKeeps ==
  ASSUME Daily!DailyAssumption, DailyIInv, Daily!RunEnds
  PROVE  DailyIInv' /\ Extends(published, published')
  <1>1. /\ Daily!Gone /\ UNCHANGED <<published, kept, manual, stamps, day, ledger>>
        /\ Daily!Mishap \/ UNCHANGED mishaps
    BY DEF Daily!RunEnds, Daily!Still
  <1>2. Daily!TypeOK /\ published \in Daily!Files /\ SoundFiles(published, ledger)
    BY DEF DailyIInv, Daily!TypeOK
  <1>3. mishaps' \in 0..OfDaily.MaxFault BY <1>1, <1>2, Mishaps
  <1> QED BY <1>1, <1>2, <1>3, GoneKeeps, SelfExtends

LEMMA ReplayKeeps ==
  ASSUME Daily!DailyAssumption, DailyIInv, Daily!Replay
  PROVE  DailyIInv' /\ Extends(published, published')
  <1>0. /\ Daily!TypeOK /\ run \in RunType /\ published \in Daily!Files /\ kept.base \in Daily!Files /\ kept.observed \in Daily!Files
        /\ SoundFiles(published, ledger) /\ SoundFiles(kept.observed, ledger) /\ Extends(kept.base, kept.observed)
    BY DEF DailyIInv, Daily!TypeOK
  <1>1. /\ Daily!Mergeable(kept) /\ published' = Daily!Replayed(kept)
        /\ UNCHANGED <<disk, run, kept, manual, stamps, mishaps, day, ledger>>
    BY DEF Daily!Replay, Daily!Still
  <1>2. published' \in Daily!Files /\ SoundFiles(published', ledger) /\ Extends(published, published')
    BY <1>0, <1>1, ReplayedKeeps
  <1>3. Daily!TypeOK' BY <1>0, <1>1, <1>2 DEF Daily!TypeOK
  <1> QED BY <1>1, <1>2, <1>3 DEF DailyIInv

LEMMA NewDayKeeps ==
  ASSUME Daily!DailyAssumption, DailyIInv, Daily!NewDay
  PROVE  DailyIInv' /\ Extends(published, published')
  <1>1. /\ UNCHANGED <<published, disk, run, kept, ledger, manual, stamps, mishaps>>
        /\ day' = day + 1 /\ day < OfDaily.MaxDay
    BY DEF Daily!NewDay
  <1>2. Daily!TypeOK /\ published \in Daily!Files /\ day \in 1..OfDaily.MaxDay /\ OfDaily.MaxDay \in Nat
    BY DEF DailyIInv, Daily!TypeOK, Daily!DailyAssumption
  <1>3. Daily!TypeOK' BY <1>1, <1>2 DEF Daily!TypeOK
  <1> QED BY <1>1, <1>2, <1>3, SelfExtends DEF DailyIInv

LEMMA DailyExcludeKeeps ==
  ASSUME Daily!DailyAssumption, DailyIInv, NEW a \in OfDaily.App, Daily!Exclude(a)
  PROVE  DailyIInv' /\ Extends(published, published')
  <1>1. /\ UNCHANGED <<published, disk, run, kept, day, manual, stamps>>
        /\ ledger' = ledger \cup {a} /\ Daily!Mishap /\ Cardinality(ledger) < OfDaily.MaxLedger
        /\ a \notin ledger
    BY DailyCounts DEF Daily!Exclude
  <1>2. /\ Daily!TypeOK /\ published \in Daily!Files /\ kept.observed \in Daily!Files
        /\ ledger \in SUBSET OfDaily.App /\ ledger' \in SUBSET OfDaily.App /\ ledger \subseteq ledger'
        /\ SoundFiles(published, ledger) /\ SoundFiles(kept.observed, ledger)
    BY <1>1 DEF DailyIInv, Daily!TypeOK
  <1>3. Cardinality(ledger') <= OfDaily.MaxLedger
    <2>1. IsFiniteSet(ledger) BY <1>2, FS_Subset, DailyCounts DEF Daily!DailyAssumption
    <2>2. Cardinality(ledger') = Cardinality(ledger) + 1 BY <1>1, <2>1, FS_AddElement
    <2>3. Cardinality(ledger) \in Nat BY <2>1, FS_CardinalityType
    <2> QED BY <1>1, <2>2, <2>3 DEF Daily!DailyAssumption
  <1>4. mishaps' \in 0..OfDaily.MaxFault BY <1>1, <1>2, Mishaps
  <1>5. Daily!TypeOK' BY <1>1, <1>2, <1>3, <1>4, DailyCounts DEF Daily!TypeOK
  <1>6. SoundFiles(published, ledger') /\ SoundFiles(kept.observed, ledger') BY <1>2, SoundGrows
  <1>7. Extends(published, published) BY <1>2, SelfExtends
  <1> QED BY <1>1, <1>2, <1>5, <1>6, <1>7 DEF DailyIInv

LEMMA DailyStutterKeeps ==
  ASSUME Daily!DailyAssumption, DailyIInv, UNCHANGED Daily!daily
  PROVE  DailyIInv' /\ Extends(published, published')
  <1>1. UNCHANGED <<published, disk, run, kept, day, ledger, manual, stamps, mishaps>>
    BY DEF Daily!daily
  <1>2. Daily!TypeOK /\ published \in Daily!Files BY DEF DailyIInv, Daily!TypeOK
  <1>3. Daily!TypeOK' BY <1>1, <1>2 DEF Daily!TypeOK
  <1> QED BY <1>1, <1>2, <1>3, SelfExtends DEF DailyIInv

(* Every step. *)
LEMMA DailyInvNext ==
  ASSUME Daily!DailyAssumption, DailyIInv, [Daily!Next]_(Daily!daily)
  PROVE  DailyIInv' /\ Daily!KeepsProgress
  <1>1. (DailyIInv' /\ Extends(published, published')) => DailyIInv' /\ Daily!KeepsProgress
    <2>1. published \in Daily!Files BY DEF DailyIInv, Daily!TypeOK
    <2>2. DailyIInv' => published' \in Daily!Files BY DEF DailyIInv, Daily!TypeOK
    <2> QED BY <2>1, <2>2, ExtendsGives
  <1>2. CASE Daily!RunStep
    BY <1>1, <1>2, ResetKeeps, DailyPublishKeeps, DailyCaptureKeeps, PassKeeps, PassEndKeeps, DailyFreezeKeeps,
       PublishConflictKeeps, PassDiesKeeps DEF Daily!RunStep
  <1>3. CASE Daily!RunEnds BY <1>1, <1>3, RunEndsKeeps
  <1>4. CASE Daily!Replay BY <1>1, <1>4, ReplayKeeps
  <1>5. CASE Daily!NewDay BY <1>1, <1>5, NewDayKeeps
  <1>6. CASE \E kind \in {"slot", "force", "continue"}, slot \in 1..OfDaily.MaxDay : Daily!Start(kind, slot)
    BY <1>1, <1>6, DailyStartKeeps
  <1>7. CASE \E a \in OfDaily.App : Daily!Exclude(a) BY <1>1, <1>7, DailyExcludeKeeps
  <1>8. CASE UNCHANGED Daily!daily BY <1>1, <1>8, DailyStutterKeeps
  <1> QED BY <1>2, <1>3, <1>4, <1>5, <1>6, <1>7, <1>8 DEF Daily!Next

LEMMA DailyInvAlways == ASSUME Daily!DailyAssumption PROVE Daily!Spec => []DailyIInv
  BY DailyInvInit, DailyInvNext, PTL DEF Daily!Spec

LEMMA DailyInvGives == ASSUME DailyIInv PROVE Daily!TypeOK /\ Daily!HandoffIsCoherent
  BY DEF DailyIInv, SoundFiles, Daily!HandoffIsCoherent, Daily!HandedOff, Beyond, Finished, Daily!PrefilterComplete,
         Daily!WindowComplete

--------------------------------------------------------------------------------
(* Every variable of the daily candidates has its type (application/candidates.py,
   publication/daily_state.py). *)
THEOREM DailyTypeCorrect == Daily!Spec => []Daily!TypeOK
  <1>1. Daily!Spec => []DailyIInv BY SteamQueuesAssumption, DailyInvAlways
  <1> QED BY <1>1, DailyInvGives, PTL

(* The published files belong together after every death, lost answer and late batch:
   the handoff is screened, and what is handed off passed the gate (publish_daily_state,
   "Never stitch unrelated concurrent phases into a fabricated handoff"). *)
THEOREM HandoffAlways == Daily!Spec => []Daily!HandoffIsCoherent
  <1>1. Daily!Spec => []DailyIInv BY SteamQueuesAssumption, DailyInvAlways
  <1> QED BY <1>1, DailyInvGives, PTL

(* A day's progress is resumed and never undone but by the refresh that an operator asks
   of the state that it replaces (publish_daily_reset). *)
THEOREM ProgressAlways == Daily!Spec => Daily!ProgressIsKept
  <1>1. Daily!Spec => []DailyIInv BY SteamQueuesAssumption, DailyInvAlways
  <1>2. DailyIInv /\ [Daily!Next]_(Daily!daily) => [Daily!KeepsProgress]_(Daily!daily)
    BY SteamQueuesAssumption, DailyInvNext
  <1> QED BY <1>1, <1>2, PTL DEF Daily!Spec, Daily!ProgressIsKept

--------------------------------------------------------------------------------
(***************************************************************************)
(* OfficialQueue                                                           *)
(***************************************************************************)

(* The counts of the instance are those of the library. *)
LEMMA QueueCounts ==
  /\ \A S : Queue!IsFiniteSet(S) = IsFiniteSet(S)
  /\ \A S : Queue!Cardinality(S) = Cardinality(S)
  <1>1. \A S : Queue!IsFiniteSet(S) = IsFiniteSet(S)
    BY Zenon DEF Queue!IsFiniteSet, IsFiniteSet
  <1>2. \A S : Queue!Cardinality(S) = Cardinality(S)
    BY Zenon DEF Queue!Cardinality, Cardinality
  <1> QED BY <1>1, <1>2

(* The type of the checkpoint and of the hour. *)
Asked == [app : Queue!Game, kind : {"ok", "html", "failed"}]
Checkpoint ==
  [pending : [Queue!Game -> Queue!Rows], admitted : SUBSET OfQueue.Tracked, results : SUBSET Queue!Game,
   events : Seq(Asked), cooling : BOOLEAN]
Hour ==
  [pc : {"idle", "prepare", "groups", "query", "loop", "final", "finalize"},
   cp : Checkpoint, rest : Seq(Queue!Game), asked : Queue!Game \cup {0}, errors : Nat]

(* A Twitch row alone covers an ordinary one. *)
Covered(cp) ==
  /\ Len(cp.events) <= OfQueue.MaxEvents
  /\ \A g \in Queue!Game : cp.pending[g].normal # "none" => cp.pending[g].source = "twitch"

(* What a later checkpoint keeps of the candidates of an earlier one. *)
KeepsRow(row, new) ==
  Queue!OrdinaryRow(row) => Queue!OrdinaryRow(new) /\ (row.group => new.group)
KeepsRows(cp, new) ==
  \A g \in Queue!Game : KeepsRow(cp.pending[g], new.pending[g]) \/ g \in new.admitted

(* The inductive invariant: the types, and that the hour's checkpoint has every
   candidate that the durable one has while it may be saved over it. *)
QueueIInv ==
  /\ official \in Checkpoint /\ Covered(official)
  /\ batch \in Hour /\ Covered(batch.cp)
  /\ listing \subseteq OfQueue.Listed /\ fate \in [OfQueue.Tracked -> Queue!Fates] /\ slips \in 0..OfQueue.MaxSlip
  /\ batch.pc \in {"loop", "final"} => KeepsRows(official, batch.cp)
--------------------------------------------------------------------------------
(* The newest of some events. *)
LEMMA NewestIndex ==
  ASSUME NEW n \in Nat, NEW T, T \subseteq 1..n, T # {}
  PROVE  \E x \in T : \A y \in T : y <= x
  <1> DEFINE D == {n - x : x \in T}
  <1>1. D \subseteq Nat /\ D # {}
    <2>1. \A x \in T : n - x \in Nat OBVIOUS
    <2> QED BY <2>1
  <1>2. \E x \in D : \A y \in D : x <= y
    <2> HIDE DEF D
    <2>1. IsWellFoundedOn(Below, Nat) BY NatLessThanWellFounded, Zenon DEF OpToRel, Below
    <2>2. \E x \in D : \A y \in D : ~(<<y, x>> \in Below) BY <1>1, <2>1, WFMin, Zenon
    <2>3. \A x, y \in Nat : ~(<<y, x>> \in Below) => x <= y BY DEF Below
    <2> QED BY <1>1, <2>2, <2>3
  <1>3. PICK x \in T : \A y \in D : n - x <= y BY <1>2
  <1>4. \A y \in T : n - x <= n - y BY <1>3
  <1> QED BY <1>4

(* The newest failure of a game. *)
LEMMA FailedIsNat ==
  ASSUME NEW events \in Seq(Asked), NEW g
  PROVE  Queue!FailedAt(events, g) \in Nat
  <1> DEFINE at == {i \in DOMAIN events : events[i].app = g}
  <1>1. Len(events) \in Nat /\ at \subseteq 1..Len(events) OBVIOUS
  <1>2. CASE at = {} BY <1>2 DEF Queue!FailedAt, Queue!NewestOf
  <1>3. CASE at # {}
    <2>1. \E x \in at : \A y \in at : y <= x BY <1>1, <1>3, NewestIndex
    <2>2. Queue!NewestOf(events, g) \in at BY <1>3, <2>1 DEF Queue!NewestOf
    <2>3. Queue!NewestOf(events, g) \in 1..Len(events)
      <3> HIDE DEF at
      <3> QED BY <1>1, <2>2
    <2> QED BY <1>1, <2>3 DEF Queue!FailedAt
  <1> QED BY <1>2, <1>3
--------------------------------------------------------------------------------
(* The order of the queue, and the rank of a game in it. *)
LEMMA BeforeOrders ==
  ASSUME NEW cp \in Checkpoint, NEW C \in SUBSET Queue!Game, Queue!QueueAssumption
  PROVE  /\ \A a \in C : ~Queue!Before(cp, a, a)
         /\ \A a, b \in C : a # b => Queue!Before(cp, a, b) \/ Queue!Before(cp, b, a)
         /\ \A a, b, c \in C : Queue!Before(cp, a, b) /\ Queue!Before(cp, b, c) => Queue!Before(cp, a, c)
  <1> DEFINE failed(g) == Queue!FailedAt(cp.events, g)
             twitch(g) == IF cp.pending[g].source = "twitch" THEN 0 ELSE 1
  <1>1. \A a : failed(a) \in Nat /\ twitch(a) \in Nat
    <2>1. cp.events \in Seq(Asked) BY DEF Checkpoint
    <2> QED BY <2>1, FailedIsNat
  <1>2. \A a \in C : a \in Nat BY QueueCounts DEF Queue!QueueAssumption
  <1>3. \A a, b : Queue!Before(cp, a, b) <=>
          \/ failed(a) < failed(b)
          \/ failed(a) = failed(b) /\ twitch(a) < twitch(b)
          \/ failed(a) = failed(b) /\ twitch(a) = twitch(b) /\ a < b
    BY DEF Queue!Before
  <1> HIDE DEF failed, twitch
  <1> QED BY <1>1, <1>2, <1>3

LEMMA QueueIn ==
  ASSUME Queue!QueueAssumption, NEW cp \in Checkpoint
  PROVE  Queue!Queue(cp) \in Seq(Queue!Game)
  <1> DEFINE C == {g \in Queue!Pending(cp) : Queue!Due(cp, g) /\ Queue!Known(cp, g)}
             n == Cardinality(C)
             First(g) == {h \in C : Queue!Before(cp, h, g)}
             rank == [g \in C |-> Cardinality(First(g)) + 1]
  <1>1. C \in SUBSET Queue!Game /\ IsFiniteSet(C) /\ n \in Nat
    <2>1. C \in SUBSET Queue!Game BY DEF Queue!Pending
    <2>2. IsFiniteSet(Queue!Game) BY QueueCounts DEF Queue!QueueAssumption
    <2> QED BY <2>1, <2>2, FS_Subset, FS_CardinalityType
  <1>2. /\ \A a \in C : ~Queue!Before(cp, a, a)
        /\ \A a, b \in C : a # b => Queue!Before(cp, a, b) \/ Queue!Before(cp, b, a)
        /\ \A a, b, c \in C : Queue!Before(cp, a, b) /\ Queue!Before(cp, b, c) => Queue!Before(cp, a, c)
    BY <1>1, BeforeOrders
  <1> HIDE DEF C
  <1>3. \A g \in C : IsFiniteSet(First(g)) /\ Cardinality(First(g)) \in 0..(n - 1)
    <2> SUFFICES ASSUME NEW g \in C
                 PROVE  IsFiniteSet(First(g)) /\ Cardinality(First(g)) \in 0..(n - 1)
      OBVIOUS
    <2>1. First(g) \in SUBSET C /\ g \notin First(g) BY <1>2
    <2> HIDE DEF First
    <2>2. IsFiniteSet(First(g)) /\ Cardinality(First(g)) \in Nat /\ Cardinality(First(g)) <= n
      BY <1>1, <2>1, FS_Subset, FS_CardinalityType
    <2>3. Cardinality(First(g)) # n
      BY <1>1, <2>1, FS_Subset
    <2> QED BY <1>1, <2>2, <2>3
  <1>12. \A g \in C : IsFiniteSet(First(g)) /\ Cardinality(First(g)) \in Int
    <2> HIDE DEF First
    <2> QED BY <1>1, <1>3
  <1>4. \A a, b \in C : Queue!Before(cp, a, b) => Cardinality(First(a)) < Cardinality(First(b))
    <2> SUFFICES ASSUME NEW a \in C, NEW b \in C, Queue!Before(cp, a, b)
                 PROVE  Cardinality(First(a)) < Cardinality(First(b))
      OBVIOUS
    <2>1. First(a) \in SUBSET First(b) /\ a \in First(b) /\ a \notin First(a) BY <1>2
    <2> HIDE DEF First
    <2>2. /\ IsFiniteSet(First(b)) /\ Cardinality(First(b)) \in Int
          /\ Cardinality(First(a)) \in Int
      BY <1>12
    <2>3. Cardinality(First(a)) <= Cardinality(First(b)) /\ Cardinality(First(a)) # Cardinality(First(b))
      BY <2>1, <2>2, FS_Subset
    <2> QED BY <2>2, <2>3
  <1>5. rank \in [C -> 1..n]
    <2> HIDE DEF First
    <2> QED BY <1>1, <1>3
  <1>6. \A a, b \in C : a # b => rank[a] # rank[b]
    <2> SUFFICES ASSUME NEW a \in C, NEW b \in C, a # b PROVE rank[a] # rank[b]
      OBVIOUS
    <2>1. rank[a] = Cardinality(First(a)) + 1 /\ rank[b] = Cardinality(First(b)) + 1 OBVIOUS
    <2> HIDE DEF First
    <2>2. /\ Cardinality(First(a)) \in Int /\ Cardinality(First(b)) \in Int
      BY <1>12
    <2>3. Cardinality(First(a)) # Cardinality(First(b)) BY <1>2, <1>4, <2>2
    <2> HIDE DEF rank
    <2> QED BY <2>1, <2>2, <2>3
  <1> HIDE DEF rank
  <1>7. rank \in Surjection(C, 1..n)
    <2>1. rank \in Injection(C, 1..n) BY <1>5, <1>6 DEF Injection, IsInjective
    <2>2. IsFiniteSet(1..n) /\ Cardinality(1..n) = n BY <1>1, FS_Interval
    <2> QED BY <1>1, <2>1, <2>2, FS_Injection
  <1>8. \A i \in 1..n : \E g \in C : Cardinality(First(g)) = i - 1
    <2> SUFFICES ASSUME NEW i \in 1..n PROVE \E g \in C : Cardinality(First(g)) = i - 1
      OBVIOUS
    <2>1. PICK g \in C : rank[g] = i BY <1>7 DEF Surjection
    <2>2. rank[g] = Cardinality(First(g)) + 1 BY DEF rank
    <2> HIDE DEF First
    <2>3. Cardinality(First(g)) \in Int BY <1>12
    <2>4. Cardinality(First(g)) = i - 1 BY <2>1, <2>2, <2>3, <1>1
    <2> QED BY <2>4
  <1> DEFINE Q == [i \in 1..n |-> CHOOSE g \in C : Cardinality(First(g)) = i - 1]
  <1>9. Queue!Queue(cp) = Q
    BY Zenon DEF Queue!Queue, C, Queue!Cardinality, Cardinality
  <1>10. \A i \in 1..n : Q[i] \in C
    <2> HIDE DEF First
    <2> QED BY <1>8
  <1>11. Q \in Seq(Queue!Game)
    <2>1. Q = [i \in 1..n |-> Q[i]] OBVIOUS
    <2> HIDE DEF Q
    <2> QED BY <1>1, <1>10, <2>1
  <1> QED BY <1>9, <1>11
--------------------------------------------------------------------------------
(* Rows and what the operations make of them. *)
LEMMA RowsAre ==
  ASSUME NEW r \in Queue!Rows
  PROVE  /\ r.source \in {"frozen", "daily", "none", "twitch"}
         /\ r.normal \in {"frozen", "daily", "none"} /\ r.group \in BOOLEAN
  BY DEF Queue!Rows, Queue!Ordinary

(* A row that its Twitch row covers. *)
RowOK(r) == r.normal # "none" => r.source = "twitch"

LEMMA NoRowIs == Queue!NoRow \in Queue!Rows /\ RowOK(Queue!NoRow) /\ Queue!NoRow.source = "none"
  BY DEF Queue!NoRow, Queue!Rows, Queue!Ordinary, RowOK

LEMMA RefreshedKeeps ==
  ASSUME NEW r \in Queue!Rows, RowOK(r)
  PROVE  Queue!Refreshed(r) \in Queue!Rows /\ RowOK(Queue!Refreshed(r)) /\ KeepsRow(r, Queue!Refreshed(r))
  BY DEF Queue!Rows, RowOK, Queue!Refreshed, KeepsRow, Queue!OrdinaryRow, Queue!Ordinary

LEMMA FrozenKeeps ==
  LET r == [Queue!NoRow EXCEPT !.source = "frozen", !.group = TRUE]
  IN r \in Queue!Rows /\ RowOK(r) /\ KeepsRow(Queue!NoRow, r)
  BY DEF Queue!NoRow, Queue!Rows, Queue!Ordinary, RowOK, KeepsRow, Queue!OrdinaryRow

LEMMA OverlaidKeeps ==
  ASSUME NEW r \in Queue!Rows, RowOK(r)
  PROVE  Queue!Overlaid(r) \in Queue!Rows /\ RowOK(Queue!Overlaid(r)) /\ KeepsRow(r, Queue!Overlaid(r))
  BY DEF Queue!Rows, RowOK, Queue!Overlaid, KeepsRow, Queue!OrdinaryRow, Queue!Ordinary

LEMMA RestoredKeeps ==
  ASSUME NEW r \in Queue!Rows, RowOK(r), r.source = "twitch"
  PROVE  Queue!Restored(r) \in Queue!Rows /\ RowOK(Queue!Restored(r)) /\ KeepsRow(r, Queue!Restored(r))
  BY NoRowIs DEF Queue!Rows, RowOK, Queue!Restored, KeepsRow, Queue!OrdinaryRow, Queue!Ordinary

LEMMA RowsSelfKeep == ASSUME NEW r PROVE KeepsRow(r, r)
  BY DEF KeepsRow

LEMMA WithSourcesKeeps ==
  ASSUME NEW cp \in Checkpoint, Covered(cp)
  PROVE  LET new == Queue!WithSources(cp) IN
         new \in Checkpoint /\ Covered(new) /\ KeepsRows(cp, new)
  <1> DEFINE new == Queue!WithSources(cp)
             row(g) == IF g \in cp.admitted THEN Queue!NoRow
                       ELSE IF g \in listing \ cp.results THEN Queue!Refreshed(cp.pending[g])
                       ELSE IF g \in OfQueue.Frozen /\ cp.pending[g] = Queue!NoRow
                       THEN [Queue!NoRow EXCEPT !.source = "frozen", !.group = TRUE]
                       ELSE cp.pending[g]
             pending == [g \in Queue!Game |-> row(g)]
  <1>1. \A g \in Queue!Game : cp.pending[g] \in Queue!Rows /\ RowOK(cp.pending[g])
    BY DEF Checkpoint, Covered, RowOK
  <1>2. \A g \in Queue!Game : /\ row(g) \in Queue!Rows /\ RowOK(row(g))
                              /\ KeepsRow(cp.pending[g], row(g)) \/ g \in cp.admitted
    BY <1>1, NoRowIs, RefreshedKeeps, FrozenKeeps, RowsSelfKeep
  <1>3. new = [cp EXCEPT !.pending = pending]
    BY DEF Queue!WithSources
  <1> HIDE DEF row
  <1>4. pending \in [Queue!Game -> Queue!Rows] BY <1>2
  <1>5. \A g \in Queue!Game : pending[g] = row(g) OBVIOUS
  <1> HIDE DEF pending, new
  <1>6. /\ new \in Checkpoint /\ new.pending = pending /\ new.admitted = cp.admitted
        /\ new.events = cp.events
    BY <1>3, <1>4 DEF Checkpoint
  <1>7. Covered(new) BY <1>2, <1>5, <1>6 DEF Covered, RowOK
  <1>8. KeepsRows(cp, new) BY <1>2, <1>5, <1>6 DEF KeepsRows
  <1> QED BY <1>6, <1>7, <1>8 DEF new

LEMMA SyncedKeeps ==
  ASSUME NEW cp \in Checkpoint, Covered(cp)
  PROVE  LET new == Queue!Synced(cp) IN
         new \in Checkpoint /\ Covered(new) /\ KeepsRows(cp, new)
  <1> DEFINE new == Queue!Synced(cp)
             admitted == cp.admitted \cup {g \in OfQueue.Tracked \ cp.results : fate[g] = "accepted"}
             row(g) == IF g \in admitted \ cp.admitted THEN Queue!NoRow
                ELSE IF g \in OfQueue.Tracked /\ fate[g] = "retained"
                THEN IF g \in admitted THEN cp.pending[g] ELSE Queue!Overlaid(cp.pending[g])
                ELSE IF cp.pending[g].source = "twitch" THEN Queue!Restored(cp.pending[g])
                ELSE cp.pending[g]
             pending == [g \in Queue!Game |-> row(g)]
  <1>1. \A g \in Queue!Game : cp.pending[g] \in Queue!Rows /\ RowOK(cp.pending[g])
    BY DEF Checkpoint, Covered, RowOK
  <1>2. \A g \in Queue!Game : /\ row(g) \in Queue!Rows /\ RowOK(row(g))
                              /\ KeepsRow(cp.pending[g], row(g)) \/ g \in admitted
    <2> HIDE DEF admitted
    <2> QED BY <1>1, NoRowIs, OverlaidKeeps, RestoredKeeps, RowsSelfKeep
  <1>3. new = [cp EXCEPT !.pending = pending, !.admitted = admitted]
    BY DEF Queue!Synced
  <1>9. admitted \in SUBSET OfQueue.Tracked BY DEF Checkpoint
  <1> HIDE DEF row, admitted
  <1>4. pending \in [Queue!Game -> Queue!Rows] BY <1>2
  <1>5. \A g \in Queue!Game : pending[g] = row(g) OBVIOUS
  <1> HIDE DEF pending, new
  <1>6. /\ new \in Checkpoint /\ new.pending = pending /\ new.admitted = admitted
        /\ new.events = cp.events
    BY <1>3, <1>4, <1>9 DEF Checkpoint
  <1>7. Covered(new) BY <1>2, <1>5, <1>6 DEF Covered, RowOK
  <1>8. KeepsRows(cp, new) BY <1>2, <1>5, <1>6 DEF KeepsRows
  <1> QED BY <1>6, <1>7, <1>8 DEF new

(* The cut of the attempts, and the first requests of the queue. *)
LEMMA CutIn ==
  ASSUME Queue!QueueAssumption, NEW events \in Seq(Asked)
  PROVE  Queue!Cut(events) \in Seq(Asked) /\ Len(Queue!Cut(events)) <= OfQueue.MaxEvents
  <1>1. OfQueue.MaxEvents \in Nat /\ OfQueue.KeptEvents \in Nat /\ OfQueue.KeptEvents < OfQueue.MaxEvents
    BY QueueCounts DEF Queue!QueueAssumption
  <1>2. CASE Len(events) > OfQueue.MaxEvents
    <2> DEFINE m == Len(events) - OfQueue.KeptEvents + 1
               n == Len(events)
    <2>1. Queue!Cut(events) = SubSeq(events, m, n) BY <1>2 DEF Queue!Cut
    <2>2. m \in 1..(n + 1) /\ n \in Nat BY <1>1, <1>2
    <2>3. SubSeq(events, m, n) = [i \in 1..(n - m + 1) |-> events[i + m - 1]]
      BY <2>2
    <2>4. n - m + 1 = OfQueue.KeptEvents BY <1>1
    <2>5. \A i \in 1..OfQueue.KeptEvents : events[i + m - 1] \in Asked
      <3>1. \A i \in 1..OfQueue.KeptEvents : i + m - 1 \in 1..n BY <1>1, <2>2, <2>4
      <3> QED BY <3>1
    <2> HIDE DEF m, n
    <2> QED BY <1>1, <2>1, <2>3, <2>4, <2>5
  <1>3. CASE ~(Len(events) > OfQueue.MaxEvents) BY <1>1, <1>3 DEF Queue!Cut
  <1> QED BY <1>2, <1>3

LEMMA FirstOfIn ==
  ASSUME Queue!QueueAssumption, NEW seq \in Seq(Queue!Game)
  PROVE  Queue!FirstOf(seq) \in Seq(Queue!Game)
  <1> DEFINE n == IF Len(seq) < OfQueue.MaxRequests THEN Len(seq) ELSE OfQueue.MaxRequests
  <1>1. n \in Nat /\ n <= Len(seq) BY QueueCounts DEF Queue!QueueAssumption
  <1>2. Queue!FirstOf(seq) = SubSeq(seq, 1, n) BY DEF Queue!FirstOf
  <1> HIDE DEF n
  <1>3. SubSeq(seq, 1, n) = [i \in 1..n |-> seq[i]]
    BY <1>1
  <1>4. \A i \in 1..n : seq[i] \in Queue!Game BY <1>1
  <1> QED BY <1>1, <1>2, <1>3, <1>4

(* An answer changes no candidate. *)
LEMMA AnsweredKeeps ==
  ASSUME Queue!QueueAssumption, batch \in Hour, Covered(batch.cp), batch.rest # <<>>,
         NEW kind \in {"ok", "item", "other", "service", "html"}
  PROVE  LET new == Queue!Answered(kind) IN
         /\ new \in Checkpoint /\ Covered(new)
         /\ new.pending = batch.cp.pending /\ new.admitted = batch.cp.admitted
  <1> DEFINE cp == batch.cp
             g == Head(batch.rest)
             told == [app |-> g, kind |-> IF kind \in {"ok", "html"} THEN kind ELSE "failed"]
             events == Queue!Cut(Append(cp.events, told))
             results == IF kind = "ok" THEN cp.results \cup {g} ELSE cp.results
             cooling == (IF kind = "ok" THEN FALSE ELSE cp.cooling \/ kind \in {"service", "html"}) = TRUE
             new == Queue!Answered(kind)
  <1>1. cp \in Checkpoint /\ g \in Queue!Game BY DEF Hour
  <1>2. told \in Asked BY <1>1 DEF Asked
  <1>3. events \in Seq(Asked) /\ Len(events) <= OfQueue.MaxEvents
    <2>1. Append(cp.events, told) \in Seq(Asked) BY <1>1, <1>2 DEF Checkpoint
    <2> QED BY <2>1, CutIn
  <1>4. results \in SUBSET Queue!Game BY <1>1 DEF Checkpoint
  <1>5. cooling \in BOOLEAN OBVIOUS
  <1>6. cooling = (IF kind = "ok" THEN FALSE ELSE cp.cooling \/ kind \in {"service", "html"})
    <2>1. cp.cooling \in BOOLEAN BY <1>1 DEF Checkpoint
    <2> QED BY <2>1
  <1>7. new = [cp EXCEPT !.events = events, !.results = results, !.cooling = cooling]
    <2> HIDE DEF cooling
    <2> QED BY <1>6, Zenon DEF Queue!Answered
  <1> HIDE DEF cooling, events, results, new
  <1>8. /\ new \in Checkpoint /\ new.pending = cp.pending /\ new.admitted = cp.admitted
        /\ new.events = events
    BY <1>1, <1>3, <1>4, <1>5, <1>7 DEF Checkpoint
  <1>9. Covered(new) BY <1>3, <1>8 DEF Covered
  <1> QED BY <1>8, <1>9 DEF new
--------------------------------------------------------------------------------
(* The hour goes on. *)
Pcs == {"idle", "prepare", "groups", "query", "loop", "final", "finalize"}

LEMMA NoCheckpointIs ==
  ASSUME Queue!QueueAssumption PROVE Queue!NoCheckpoint \in Checkpoint /\ Covered(Queue!NoCheckpoint)
  <1>0. OfQueue.MaxEvents \in Nat BY QueueCounts DEF Queue!QueueAssumption
  <1> DEFINE rows == [g \in Queue!Game |-> Queue!NoRow]
             no == FALSE
  <1>1. Queue!NoCheckpoint = [pending |-> rows, admitted |-> {}, results |-> {}, events |-> <<>>,
                        cooling |-> no]
    BY Zenon DEF Queue!NoCheckpoint
  <1>2. rows \in [Queue!Game -> Queue!Rows] /\ no \in BOOLEAN BY NoRowIs
  <1>3. \A g \in Queue!Game : rows[g].normal = "none" BY DEF Queue!NoRow
  <1>4. <<>> \in Seq(Asked) /\ Len(<<>>) = 0 OBVIOUS
  <1> HIDE DEF rows, no
  <1>5. Queue!NoCheckpoint \in Checkpoint BY <1>1, <1>2, <1>4 DEF Checkpoint
  <1>6. Queue!NoCheckpoint.pending = rows /\ Queue!NoCheckpoint.events = <<>> BY <1>1
  <1> QED BY <1>0, <1>3, <1>4, <1>5, <1>6 DEF Covered

LEMMA QueueNoBatchIs ==
  ASSUME Queue!QueueAssumption
  PROVE  Queue!NoBatch \in Hour /\ Queue!NoBatch.cp = Queue!NoCheckpoint /\ Queue!NoBatch.pc = "idle"
  <1>1. Queue!NoCheckpoint \in Checkpoint BY NoCheckpointIs
  <1>2. <<>> \in Seq(Queue!Game) OBVIOUS
  <1> QED BY <1>1, <1>2 DEF Queue!NoBatch, Hour

LEMMA GoesIs ==
  ASSUME Queue!QueueAssumption, NEW l \in Pcs, Queue!Goes(l)
  PROVE  batch' \in Hour /\ Covered(batch'.cp) /\ batch'.pc = l
  <1>1. batch' = [Queue!NoBatch EXCEPT !.pc = l] BY DEF Queue!Goes
  <1>2. Queue!NoBatch \in Hour /\ Queue!NoBatch.cp = Queue!NoCheckpoint BY QueueNoBatchIs
  <1>3. batch' \in Hour /\ batch'.cp = Queue!NoCheckpoint /\ batch'.pc = l
    BY <1>1, <1>2 DEF Hour, Pcs
  <1> QED BY <1>3, NoCheckpointIs

LEMMA QueueInvInit == ASSUME Queue!QueueAssumption, Queue!Init PROVE QueueIInv
  <1>1. fate \in [OfQueue.Tracked -> Queue!Fates] BY DEF Queue!Init, Queue!Fates
  <1>2. slips \in 0..OfQueue.MaxSlip BY DEF Queue!Init, Queue!QueueAssumption
  <1> QED BY <1>1, <1>2, NoCheckpointIs, QueueNoBatchIs DEF Queue!Init, QueueIInv

LEMMA RowsSame == ASSUME NEW cp, NEW new, new.pending = cp.pending PROVE KeepsRows(cp, new)
  BY RowsSelfKeep DEF KeepsRows

(* The step of an hour that leaves the checkpoint official' . *)
RowsKept == KeepsRows(official, official')

LEMMA QueueGoesKeeps ==
  ASSUME Queue!QueueAssumption, QueueIInv, NEW l \in Pcs \ {"loop", "final"}, Queue!Goes(l),
         official' \in Checkpoint, Covered(official'), KeepsRows(official, official'),
         UNCHANGED <<listing, fate>>, slips' \in 0..OfQueue.MaxSlip
  PROVE  QueueIInv' /\ RowsKept
  <1>1. batch' \in Hour /\ Covered(batch'.cp) /\ batch'.pc = l BY GoesIs
  <1> QED BY <1>1 DEF QueueIInv, RowsKept

(* Each step of the hour. *)
LEMMA QueueStartKeeps == ASSUME Queue!QueueAssumption, QueueIInv, Queue!Start PROVE QueueIInv' /\ RowsKept
  <1>1. UNCHANGED <<official, slips, listing, fate>> /\ Queue!Goes("prepare")
    BY DEF Queue!Start, Queue!Outside
  <1>2. official \in Checkpoint /\ Covered(official) /\ slips \in 0..OfQueue.MaxSlip BY DEF QueueIInv
  <1>3. KeepsRows(official, official') BY <1>1, RowsSame
  <1> QED BY <1>1, <1>2, <1>3, QueueGoesKeeps DEF Pcs

LEMMA SyncTwitchKeeps == ASSUME Queue!QueueAssumption, QueueIInv, Queue!SyncTwitch PROVE QueueIInv' /\ RowsKept
  <1> DEFINE l == IF Queue!At("prepare") THEN "groups" ELSE "idle"
  <1>1. UNCHANGED <<slips, listing, fate>> /\ Queue!Goes(l) /\ official' = Queue!Synced(official)
    BY DEF Queue!SyncTwitch, Queue!Outside
  <1>2. official \in Checkpoint /\ Covered(official) /\ slips \in 0..OfQueue.MaxSlip BY DEF QueueIInv
  <1>3. official' \in Checkpoint /\ Covered(official') /\ KeepsRows(official, official')
    BY <1>1, <1>2, SyncedKeeps
  <1>4. l \in Pcs \ {"loop", "final"} BY DEF Pcs
  <1> HIDE DEF l
  <1> QED BY <1>1, <1>2, <1>3, <1>4, QueueGoesKeeps

LEMMA KeepsOn ==
  ASSUME NEW a \in Checkpoint, NEW b \in Checkpoint, NEW c \in Checkpoint,
         KeepsRows(a, b), b.admitted = c.admitted,
         \A g \in Queue!Game : KeepsRow(b.pending[g], c.pending[g])
  PROVE  KeepsRows(a, c)
  BY DEF KeepsRows, KeepsRow

LEMMA ResolveGroupsKeeps ==
  ASSUME Queue!QueueAssumption, QueueIInv, NEW found \in SUBSET Queue!Game, Queue!ResolveGroups(found)
  PROVE  QueueIInv' /\ RowsKept
  <1> DEFINE cp == Queue!WithSources(official)
             row(g) == IF g \in found THEN [cp.pending[g] EXCEPT !.group = TRUE] ELSE cp.pending[g]
             pending == [g \in Queue!Game |-> row(g)]
  <1>1. /\ UNCHANGED <<slips, listing, fate>> /\ Queue!Goes("query")
        /\ official' = [cp EXCEPT !.pending = pending]
    BY DEF Queue!ResolveGroups, Queue!Outside
  <1>2. official \in Checkpoint /\ Covered(official) /\ slips \in 0..OfQueue.MaxSlip BY DEF QueueIInv
  <1>3. cp \in Checkpoint /\ Covered(cp) /\ KeepsRows(official, cp)
    BY <1>2, WithSourcesKeeps
  <1> HIDE DEF cp
  <1>4. \A g \in Queue!Game : /\ row(g) \in Queue!Rows /\ row(g).normal = cp.pending[g].normal
                              /\ row(g).source = cp.pending[g].source
                              /\ KeepsRow(cp.pending[g], row(g))
    <2>1. \A g \in Queue!Game : cp.pending[g] \in Queue!Rows BY <1>3 DEF Checkpoint
    <2>2. \A r \in Queue!Rows : LET n == [r EXCEPT !.group = TRUE] IN
            n \in Queue!Rows /\ n.normal = r.normal /\ n.source = r.source /\ KeepsRow(r, n)
      BY DEF Queue!Rows, KeepsRow, Queue!OrdinaryRow
    <2> QED BY <2>1, <2>2, RowsSelfKeep
  <1> HIDE DEF row
  <1>5. pending \in [Queue!Game -> Queue!Rows] /\ \A g \in Queue!Game : pending[g] = row(g) BY <1>4
  <1> HIDE DEF pending
  <1>6. /\ official' \in Checkpoint /\ official'.pending = pending
        /\ official'.admitted = cp.admitted /\ official'.events = cp.events
    BY <1>1, <1>3, <1>5 DEF Checkpoint
  <1>7. Covered(official') BY <1>3, <1>4, <1>5, <1>6 DEF Covered
  <1>8. KeepsRows(official, official')
    BY <1>2, <1>3, <1>4, <1>5, <1>6, KeepsOn
  <1> QED BY <1>1, <1>2, <1>6, <1>7, <1>8, QueueGoesKeeps DEF Pcs

LEMMA MakeQueueKeeps ==
  ASSUME Queue!QueueAssumption, QueueIInv, NEW override \in BOOLEAN, Queue!MakeQueue(override)
  PROVE  QueueIInv' /\ RowsKept
  <1> DEFINE cp == Queue!WithSources(official)
             rest == IF official.cooling /\ ~override THEN <<>> ELSE Queue!FirstOf(Queue!Queue(cp))
  <1>1. /\ UNCHANGED <<official, slips, listing, fate>>
        /\ batch' = [Queue!NoBatch EXCEPT !.pc = "loop", !.cp = cp, !.rest = rest]
    BY DEF Queue!MakeQueue, Queue!Outside
  <1>2. official \in Checkpoint /\ Covered(official) BY DEF QueueIInv
  <1>3. cp \in Checkpoint /\ Covered(cp) /\ KeepsRows(official, cp)
    BY <1>2, WithSourcesKeeps
  <1>4. rest \in Seq(Queue!Game)
    <2> HIDE DEF cp
    <2>1. Queue!FirstOf(Queue!Queue(cp)) \in Seq(Queue!Game) BY <1>3, QueueIn, FirstOfIn
    <2>2. <<>> \in Seq(Queue!Game) OBVIOUS
    <2> QED BY <2>1, <2>2
  <1> HIDE DEF cp, rest
  <1>5. batch' \in Hour /\ batch'.cp = cp
    BY <1>1, <1>3, <1>4, QueueNoBatchIs DEF Hour
  <1>6. KeepsRows(official, official') BY <1>1, RowsSame
  <1> QED BY <1>1, <1>3, <1>5, <1>6 DEF QueueIInv, RowsKept

(* In the loop, after which official' is kept or is what was answered. *)
LEMMA LoopKeeps ==
  ASSUME Queue!QueueAssumption, QueueIInv, batch.pc \in {"loop", "final"}, batch' \in Hour, Covered(batch'.cp),
         batch'.cp.pending = batch.cp.pending, batch'.cp.admitted = batch.cp.admitted,
         official' \in {official, batch'.cp},
         UNCHANGED <<listing, fate>>, slips' \in 0..OfQueue.MaxSlip
  PROVE  QueueIInv' /\ RowsKept
  <1>1. /\ official \in Checkpoint /\ Covered(official) /\ KeepsRows(official, batch.cp) BY DEF QueueIInv
  <1>2. KeepsRows(official, batch'.cp) BY <1>1 DEF KeepsRows
  <1>3. KeepsRows(official, official) /\ KeepsRows(batch'.cp, batch'.cp) BY RowsSame
  <1>4. batch'.cp \in Checkpoint BY DEF Hour
  <1>5. official' \in Checkpoint /\ Covered(official') /\ KeepsRows(official', batch'.cp) /\ RowsKept
    BY <1>1, <1>2, <1>3, <1>4 DEF RowsKept
  <1> QED BY <1>5 DEF QueueIInv

LEMMA QueueAskKeeps ==
  ASSUME Queue!QueueAssumption, QueueIInv, NEW kind \in {"ok", "item", "other", "service", "html"}, Queue!Ask(kind)
  PROVE  QueueIInv' /\ RowsKept
  <1> DEFINE errors == IF kind = "item" THEN batch.errors + 1 ELSE 0
             goes == kind = "ok" \/ (kind = "item" /\ errors < 3)
             next == IF goes THEN "loop" ELSE "final"
             rest == IF goes THEN Tail(batch.rest) ELSE <<>>
             new == Queue!Answered(kind)
  <1>1. /\ UNCHANGED <<slips, listing, fate>> /\ batch.rest # <<>> /\ batch.pc = "loop"
        /\ batch' = [batch EXCEPT !.cp = new, !.asked = Head(batch.rest),
                               !.errors = errors, !.pc = next, !.rest = rest]
        /\ official' \in {official, new}
    BY DEF Queue!Ask, Queue!Outside, Queue!At
  <1>2. batch \in Hour /\ Covered(batch.cp) /\ slips \in 0..OfQueue.MaxSlip BY DEF QueueIInv
  <1>3. /\ new \in Checkpoint /\ Covered(new)
        /\ new.pending = batch.cp.pending /\ new.admitted = batch.cp.admitted
    BY <1>1, <1>2, AnsweredKeeps
  <1>4. /\ errors \in Nat /\ next \in {"loop", "final"} /\ rest \in Seq(Queue!Game)
        /\ Head(batch.rest) \in Queue!Game
    <2>1. batch.rest \in Seq(Queue!Game) /\ batch.rest # <<>> /\ batch.errors \in Nat
      BY <1>1, <1>2 DEF Hour
    <2>2. Tail(batch.rest) \in Seq(Queue!Game) /\ Head(batch.rest) \in Queue!Game /\ <<>> \in Seq(Queue!Game)
      BY <2>1
    <2> QED BY <2>1, <2>2
  <1> HIDE DEF errors, next, rest, new
  <1>5. batch' \in Hour /\ batch'.cp = new
    BY <1>1, <1>2, <1>3, <1>4 DEF Hour
  <1> QED BY <1>1, <1>2, <1>3, <1>5, LoopKeeps

LEMMA AskUnsavedKeeps == ASSUME Queue!QueueAssumption, QueueIInv, Queue!AskUnsaved PROVE QueueIInv' /\ RowsKept
  <1> DEFINE new == Queue!Answered("service")
  <1>1. /\ UNCHANGED <<official, listing, fate>> /\ batch.rest # <<>> /\ batch.pc = "loop"
        /\ batch' = [batch EXCEPT !.cp = new, !.asked = Head(batch.rest),
                               !.pc = "final", !.rest = <<>>]
        /\ slips < OfQueue.MaxSlip /\ slips' = slips + 1
    BY DEF Queue!AskUnsaved, Queue!Outside, Queue!At, Queue!Slip
  <1>2. batch \in Hour /\ Covered(batch.cp) /\ slips \in 0..OfQueue.MaxSlip /\ OfQueue.MaxSlip \in Nat
    BY DEF QueueIInv, Queue!QueueAssumption
  <1>3. /\ new \in Checkpoint /\ Covered(new)
        /\ new.pending = batch.cp.pending /\ new.admitted = batch.cp.admitted
    BY <1>1, <1>2, AnsweredKeeps
  <1>4. Head(batch.rest) \in Queue!Game /\ <<>> \in Seq(Queue!Game)
    <2>1. batch.rest \in Seq(Queue!Game) /\ batch.rest # <<>> BY <1>1, <1>2 DEF Hour
    <2> QED BY <2>1
  <1> HIDE DEF new
  <1>5. batch' \in Hour /\ batch'.cp = new
    BY <1>1, <1>2, <1>3, <1>4 DEF Hour
  <1>6. slips' \in 0..OfQueue.MaxSlip BY <1>1, <1>2
  <1> QED BY <1>1, <1>3, <1>5, <1>6, LoopKeeps

LEMMA SaveCountsKeeps == ASSUME Queue!QueueAssumption, QueueIInv, Queue!SaveCounts PROVE QueueIInv' /\ RowsKept
  BY LoopKeeps DEF Queue!SaveCounts, Queue!At, Queue!Outside, QueueIInv

LEMMA QueueEndLoopKeeps == ASSUME Queue!QueueAssumption, QueueIInv, Queue!EndLoop PROVE QueueIInv' /\ RowsKept
  <1>1. /\ UNCHANGED <<official, slips, listing, fate>> /\ batch.pc = "loop"
        /\ batch' = [batch EXCEPT !.pc = "final", !.rest = <<>>, !.asked = 0]
    BY DEF Queue!EndLoop, Queue!Outside, Queue!At
  <1>2. batch \in Hour /\ Covered(batch.cp) /\ slips \in 0..OfQueue.MaxSlip BY DEF QueueIInv
  <1>3. <<>> \in Seq(Queue!Game) OBVIOUS
  <1>4. batch' \in Hour /\ batch'.cp = batch.cp BY <1>1, <1>2, <1>3 DEF Hour
  <1> QED BY <1>1, <1>2, <1>4, LoopKeeps

LEMMA FinalSaveKeeps == ASSUME Queue!QueueAssumption, QueueIInv, Queue!FinalSave PROVE QueueIInv' /\ RowsKept
  <1>1. UNCHANGED <<slips, listing, fate>> /\ Queue!Goes("finalize") /\ official' = batch.cp
        /\ batch.pc = "final"
    BY DEF Queue!FinalSave, Queue!Outside, Queue!At
  <1>2. batch.cp \in Checkpoint /\ Covered(batch.cp) /\ slips \in 0..OfQueue.MaxSlip
        /\ KeepsRows(official, batch.cp)
    BY <1>1 DEF QueueIInv, Hour
  <1> QED BY <1>1, <1>2, QueueGoesKeeps DEF Pcs

LEMMA DieKeeps == ASSUME Queue!QueueAssumption, QueueIInv, Queue!Die PROVE QueueIInv' /\ RowsKept
  <1>1. UNCHANGED <<official, listing, fate>> /\ Queue!Goes("idle")
        /\ slips < OfQueue.MaxSlip /\ slips' = slips + 1
    BY DEF Queue!Die, Queue!Outside, Queue!Slip
  <1>2. official \in Checkpoint /\ Covered(official) /\ slips \in 0..OfQueue.MaxSlip /\ OfQueue.MaxSlip \in Nat
    BY DEF QueueIInv, Queue!QueueAssumption
  <1>3. KeepsRows(official, official') BY <1>1, RowsSame
  <1>4. slips' \in 0..OfQueue.MaxSlip BY <1>1, <1>2
  <1> QED BY <1>1, <1>2, <1>3, <1>4, QueueGoesKeeps DEF Pcs

LEMMA CoolDownKeeps == ASSUME Queue!QueueAssumption, QueueIInv, Queue!CoolDown PROVE QueueIInv' /\ RowsKept
  <1>0. /\ official \in Checkpoint /\ Covered(official) /\ batch \in Hour /\ Covered(batch.cp)
        /\ batch.pc \in {"loop", "final"} => KeepsRows(official, batch.cp)
    BY DEF QueueIInv
  <1>1. /\ UNCHANGED <<slips, listing, fate>>
        /\ official' = [official EXCEPT !.cooling = FALSE]
        /\ batch' = [batch EXCEPT !.cp.cooling = FALSE]
    BY DEF Queue!CoolDown, Queue!Outside
  <1>2. /\ official' \in Checkpoint /\ official'.pending = official.pending
        /\ official'.admitted = official.admitted /\ official'.events = official.events
    BY <1>0, <1>1 DEF Checkpoint
  <1> DEFINE cp == [batch.cp EXCEPT !.cooling = FALSE]
  <1>3. /\ cp \in Checkpoint /\ cp.pending = batch.cp.pending
        /\ cp.admitted = batch.cp.admitted /\ cp.events = batch.cp.events
    <2>1. batch.cp \in Checkpoint BY <1>0 DEF Hour
    <2> QED BY <2>1 DEF Checkpoint
  <1>4. batch' = [batch EXCEPT !.cp = cp] BY <1>1, Zenon
  <1> HIDE DEF cp
  <1>5. batch' \in Hour /\ batch'.cp = cp /\ batch'.pc = batch.pc
    BY <1>0, <1>3, <1>4 DEF Hour
  <1>6. Covered(official') /\ Covered(batch'.cp)
    BY <1>0, <1>2, <1>3, <1>5 DEF Covered
  <1>7. batch'.pc \in {"loop", "final"} => KeepsRows(official', batch'.cp)
    BY <1>0, <1>2, <1>3, <1>5 DEF KeepsRows
  <1>8. RowsKept BY <1>2, RowsSame DEF RowsKept
  <1> QED BY <1>1, <1>2, <1>5, <1>6, <1>7, <1>8 DEF QueueIInv

LEMMA OutsideKeeps ==
  ASSUME Queue!QueueAssumption, QueueIInv, UNCHANGED <<official, batch, slips>>,
         listing' \subseteq OfQueue.Listed, fate' \in [OfQueue.Tracked -> Queue!Fates]
  PROVE  QueueIInv' /\ RowsKept
  <1>1. RowsKept BY RowsSame DEF RowsKept
  <1> QED BY <1>1 DEF QueueIInv

(* Every step. *)
LEMMA QueueInvNext == ASSUME Queue!QueueAssumption, QueueIInv, [Queue!Next]_(Queue!queue) PROVE QueueIInv' /\ RowsKept
  <1>0. listing \subseteq OfQueue.Listed /\ fate \in [OfQueue.Tracked -> Queue!Fates] BY DEF QueueIInv
  <1>1. CASE Queue!HourStep
    BY <1>1, SyncTwitchKeeps, SaveCountsKeeps, QueueEndLoopKeeps, FinalSaveKeeps, ResolveGroupsKeeps,
       MakeQueueKeeps, QueueAskKeeps DEF Queue!HourStep
  <1>2. CASE Queue!Start BY <1>2, QueueStartKeeps
  <1>3. CASE Queue!AskUnsaved BY <1>3, AskUnsavedKeeps
  <1>4. CASE Queue!Die BY <1>4, DieKeeps
  <1>5. CASE Queue!CoolDown BY <1>5, CoolDownKeeps
  <1>6. CASE \E games \in SUBSET OfQueue.Listed : Queue!List(games)
    BY <1>0, <1>6, OutsideKeeps DEF Queue!List
  <1>7. CASE \E g \in OfQueue.Tracked, f \in Queue!Fates : Queue!Report(g, f)
    <2>1. PICK g \in OfQueue.Tracked, f \in Queue!Fates : Queue!Report(g, f) BY <1>7
    <2>2. fate' \in [OfQueue.Tracked -> Queue!Fates] BY <1>0, <2>1 DEF Queue!Report
    <2> QED BY <1>0, <2>1, <2>2, OutsideKeeps DEF Queue!Report
  <1>8. CASE UNCHANGED Queue!queue BY <1>0, <1>8, OutsideKeeps DEF Queue!queue
  <1> QED BY <1>1, <1>2, <1>3, <1>4, <1>5, <1>6, <1>7, <1>8 DEF Queue!Next

LEMMA QueueInvAlways == ASSUME Queue!QueueAssumption PROVE Queue!Spec => []QueueIInv
  BY QueueInvInit, QueueInvNext, PTL DEF Queue!Spec

LEMMA QueueInvGives == ASSUME QueueIInv PROVE Queue!TypeOK
  <1>1. official \in Checkpoint /\ batch \in Hour /\ batch.cp \in Checkpoint
        /\ Covered(official) /\ Covered(batch.cp)
    BY DEF QueueIInv, Hour
  <1>2. \A cp \in {official, batch.cp} :
       /\ cp.pending \in [Queue!Game -> Queue!Rows] /\ cp.admitted \subseteq OfQueue.Tracked /\ cp.results \subseteq Queue!Game
       /\ Len(cp.events) <= OfQueue.MaxEvents
       /\ \A g \in Queue!Game : cp.pending[g].normal # "none" => cp.pending[g].source = "twitch"
    BY <1>1 DEF Checkpoint, Covered
  <1>3. batch.pc \in {"idle", "prepare", "groups", "query", "loop", "final", "finalize"}
    BY <1>1 DEF Hour
  <1> QED BY <1>2, <1>3 DEF QueueIInv, Queue!TypeOK

LEMMA KeptGives == ASSUME RowsKept PROVE Queue!KeepsCandidates
  BY DEF RowsKept, KeepsRows, KeepsRow, Queue!KeepsCandidates

--------------------------------------------------------------------------------
(* Every variable of the hourly queue has its type (official_followers.py, make_queue;
   twitch_intake.py, sync_twitch_queue). *)
THEOREM QueueTypeCorrect == Queue!Spec => []Queue!TypeOK
  <1>1. Queue!Spec => []QueueIInv BY SteamQueuesAssumption, QueueInvAlways
  <1> QED BY <1>1, QueueInvGives, PTL

(* An ordinary candidate stays in the durable checkpoint, with its group, until Twitch
   admits it, whichever hours die and whatever Twitch says in between (make_queue,
   sync_twitch_queue). *)
THEOREM CandidateAlways == Queue!Spec => Queue!CandidateIsKept
  <1>1. Queue!Spec => []QueueIInv BY SteamQueuesAssumption, QueueInvAlways
  <1>2. QueueIInv /\ [Queue!Next]_(Queue!queue) => [Queue!KeepsCandidates]_(Queue!queue)
    BY SteamQueuesAssumption, QueueInvNext, KeptGives
  <1> QED BY <1>1, <1>2, PTL DEF Queue!Spec, Queue!CandidateIsKept
--------------------------------------------------------------------------------
(* CommunityCooldown *)

LEMMA CooldownGiven == Cooldown!CooldownAssumption
  BY SteamQueuesAssumption

(* The counts of the instance are those of the library. *)
LEMMA CooldownCounts == \A S : Cooldown!IsFiniteSet(S) = IsFiniteSet(S)
  BY Zenon DEF Cooldown!IsFiniteSet, IsFiniteSet

(* A finite set of numbers has a greatest: without the least of those that have none,
   one could take an element away. *)
LEMMA MaximumIs ==
  ASSUME NEW S \in SUBSET Nat, IsFiniteSet(S), S # {}
  PROVE  Cooldown!Max(S) \in S /\ \A x \in S : x <= Cooldown!Max(S)
  <1> DEFINE Topped(U) == \E m \in U : \A x \in U : x <= m
             T == {n \in Nat : \E U \in SUBSET S : U # {} /\ ~Topped(U) /\ Cardinality(U) = n}
  <1>1. Topped(S)
    <2> SUFFICES ASSUME ~Topped(S) PROVE FALSE
      OBVIOUS
    <2>1. \A U \in SUBSET S : IsFiniteSet(U) /\ Cardinality(U) \in Nat
      BY FS_Subset, FS_CardinalityType
    <2>2. T \in SUBSET Nat /\ Cardinality(S) \in T
      BY <2>1
    <2>3. PICK n \in T : \A k \in T : n <= k
      BY <2>2, MinimumIs
    <2>4. PICK U \in SUBSET S : U # {} /\ ~Topped(U) /\ Cardinality(U) = n
      BY <2>3
    <2>5. PICK u : u \in U
      BY <2>4
    <2> DEFINE V == U \ {u}
    <2>6. Cardinality(V) = n - 1 /\ Cardinality(V) \in Nat /\ n \in Nat
      BY <2>1, <2>4, <2>5, FS_RemoveElement
    <2>7. CASE V = {}
      <3>1. \A x \in U : x = u
        BY <2>7
      <3> QED BY <2>4, <2>5, <3>1
    <2>8. CASE V # {}
      <3>1. Topped(V)
        <4> SUFFICES ASSUME ~Topped(V) PROVE FALSE
          OBVIOUS
        <4>1. Cardinality(V) \in T
          BY <2>6, <2>8
        <4> HIDE DEF T, V
        <4> QED BY <2>3, <2>6, <4>1
      <3>2. PICK m \in V : \A x \in V : x <= m
        BY <3>1
      <3>3. m \in Nat /\ u \in Nat /\ m \in U
        BY <3>2, <2>5
      <3>4. \A x \in U : x = u \/ x <= m
        BY <3>2
      <3>5. CASE u <= m
        BY <3>3, <3>4, <3>5, <2>4
      <3>6. CASE m <= u
        <4>1. \A x \in U : x <= u
          BY <3>3, <3>4, <3>6
        <4> QED BY <4>1, <2>4, <2>5
      <3> QED BY <3>3, <3>5, <3>6
    <2> QED BY <2>7, <2>8
  <1>2. \E m \in S : \A x \in S : m >= x
    BY <1>1
  <1>3. Cooldown!Max(S) \in S /\ \A x \in S : Cooldown!Max(S) >= x
    BY <1>2, Zenon DEF Cooldown!Max
  <1> QED BY <1>3

(* What a worker and a kept batch are. *)
IsAsker(r) ==
  r = [pc |-> r.pc, kind |-> r.kind, start |-> r.start, base |-> r.base, cp |-> r.cp,
       asked |-> r.asked, failed |-> r.failed]
IsKept(b) == b = [base |-> b.base, seen |-> b.seen, failed |-> b.failed]

AskerOK(r) ==
  /\ IsAsker(r)
  /\ r.start \in Cooldown!Record /\ r.base \in Cooldown!Record /\ r.cp \in Cooldown!Record
  /\ r.failed \subseteq 1..OfCooldown.MaxNow /\ r.asked \in 0..OfCooldown.MaxNow
  /\ r.pc = "asking" => r.asked = minute /\ minute < OfCooldown.MaxNow

CoolInv ==
  /\ community \in Cooldown!Record
  /\ AskerOK(asker)
  /\ \A b \in unsent : IsKept(b) /\ b.base \in Cooldown!Record /\ b.seen \in Cooldown!Record
                       /\ b.failed \subseteq 1..OfCooldown.MaxNow
  /\ minute \in 1..OfCooldown.MaxNow /\ losses \in 0..OfCooldown.MaxLoss

(* Every wait ends in time. *)
LEMMA WaitsEnd ==
  /\ Cooldown!Max(OfCooldown.Wait \cup {0}) \in Nat
  /\ \A w \in OfCooldown.Wait : w \in Nat /\ w # 0 /\ w <= Cooldown!Max(OfCooldown.Wait \cup {0})
  /\ OfCooldown.MaxNow \in Nat /\ OfCooldown.MaxLoss \in Nat /\ OfCooldown.MaxUnsent \in Nat
  <1> DEFINE S == OfCooldown.Wait \cup {0}
  <1>1. OfCooldown.Wait \subseteq Nat \ {0} /\ IsFiniteSet(OfCooldown.Wait)
        /\ OfCooldown.MaxNow \in Nat /\ OfCooldown.MaxLoss \in Nat /\ OfCooldown.MaxUnsent \in Nat
    BY CooldownGiven, CooldownCounts DEF Cooldown!CooldownAssumption
  <1>2. S \in SUBSET Nat /\ IsFiniteSet(S) /\ S # {}
    BY <1>1, FS_AddElement
  <1> HIDE DEF S
  <1>3. Cooldown!Max(S) \in S /\ \A x \in S : x <= Cooldown!Max(S)
    BY <1>2, MaximumIs
  <1> QED BY <1>1, <1>2, <1>3 DEF S

(* A record with other fields. *)
LEMMA FieldsWith ==
  ASSUME NEW r \in Cooldown!Record, NEW x \in Cooldown!Times, NEW y \in Cooldown!Times
  PROVE  /\ [r EXCEPT !.until = x, !.limited = y] \in Cooldown!Record
         /\ [r EXCEPT !.until = x] \in Cooldown!Record
         /\ [r EXCEPT !.until = x, !.limited = y].until = x
         /\ [r EXCEPT !.until = x, !.limited = y].limited = y
         /\ [r EXCEPT !.until = x, !.limited = y].success = r.success
         /\ [r EXCEPT !.until = x].until = x /\ [r EXCEPT !.until = x].limited = r.limited
         /\ [r EXCEPT !.until = x].success = r.success
  BY DEF Cooldown!Record, Cooldown!Fields

LEMMA TimesAre ==
  /\ Cooldown!Times \subseteq Nat /\ 0..OfCooldown.MaxNow \subseteq Cooldown!Times
  /\ \A w \in OfCooldown.Wait, t \in 0..OfCooldown.MaxNow : t + w \in Cooldown!Times
  /\ \A x, y \in Cooldown!Times : Cooldown!Larger(x, y) \in {x, y} /\ Cooldown!Larger(x, y) \in Cooldown!Times
                                  /\ x <= Cooldown!Larger(x, y) /\ y <= Cooldown!Larger(x, y)
  /\ \A r \in Cooldown!Record : r.until \in Cooldown!Times /\ r.limited \in Cooldown!Times
                                /\ r.success \in Cooldown!Times
  <1>1. Cooldown!Times \subseteq Nat /\ 0..OfCooldown.MaxNow \subseteq Cooldown!Times
    BY WaitsEnd DEF Cooldown!Times
  <1>2. \A w \in OfCooldown.Wait, t \in 0..OfCooldown.MaxNow : t + w \in Cooldown!Times
    BY WaitsEnd DEF Cooldown!Times
  <1>3. \A x, y \in Cooldown!Times : Cooldown!Larger(x, y) \in {x, y} /\ Cooldown!Larger(x, y) \in Cooldown!Times
                                  /\ x <= Cooldown!Larger(x, y) /\ y <= Cooldown!Larger(x, y)
    BY <1>1 DEF Cooldown!Larger
  <1> QED BY <1>1, <1>2, <1>3 DEF Cooldown!Record, Cooldown!Fields

LEMMA AdoptedIs ==
  ASSUME NEW latest \in Cooldown!Record, NEW b, b.seen \in Cooldown!Record, b.base \in Cooldown!Record
  PROVE  Cooldown!Adopted(latest, b) \in Cooldown!Record
  BY DEF Cooldown!Adopted, Cooldown!Record

(* A merge makes a checkpoint of two. *)
LEMMA CooldownMerged ==
  ASSUME NEW latest \in Cooldown!Record, NEW b, b.seen \in Cooldown!Record, b.base \in Cooldown!Record
  PROVE  Cooldown!Merge(latest, b) \in Cooldown!Record
  <1> DEFINE limit == IF b.seen.limited # 0 /\ Cooldown!FailedAt(b) >= latest.limited
                      THEN b.seen.limited ELSE latest.limited
             until == Cooldown!Longest(latest, b)
  <1>1. until \in Cooldown!Times /\ limit \in Cooldown!Times
    BY TimesAre DEF Cooldown!Longest
  <1>2. [latest EXCEPT !.until = until, !.limited = limit] \in Cooldown!Record
        /\ [latest EXCEPT !.until = until] \in Cooldown!Record
    <2> HIDE DEF until, limit
    <2> QED BY <1>1, FieldsWith
  <1>3. \/ Cooldown!Merge(latest, b) = latest
        \/ Cooldown!Merge(latest, b) = Cooldown!Adopted(latest, b)
        \/ Cooldown!Merge(latest, b) = [latest EXCEPT !.until = until, !.limited = limit]
        \/ Cooldown!Merge(latest, b) = [latest EXCEPT !.until = until]
    BY DEF Cooldown!Merge
  <1> QED BY <1>2, <1>3, AdoptedIs
--------------------------------------------------------------------------------
(* The fields of a worker. *)
LEMMA AskerFields ==
  ASSUME NEW p, NEW k, NEW s, NEW b, NEW c, NEW a, NEW f, NEW r,
         r = [pc |-> p, kind |-> k, start |-> s, base |-> b, cp |-> c, asked |-> a, failed |-> f]
  PROVE  /\ IsAsker(r) /\ r.pc = p /\ r.kind = k /\ r.start = s /\ r.base = b /\ r.cp = c
         /\ r.asked = a /\ r.failed = f
  BY DEF IsAsker

LEMMA QuietIs == Cooldown!Quiet \in Cooldown!Record /\ AskerOK(Cooldown!NoAsker)
  <1>1. Cooldown!Quiet \in Cooldown!Record
    BY TimesAre, WaitsEnd DEF Cooldown!Quiet, Cooldown!Record
  <1> QED BY <1>1, WaitsEnd DEF Cooldown!NoAsker, AskerOK, IsAsker

LEMMA CoolStarts ==
  ASSUME Cooldown!Init, OfCooldown.MaxNow # 0
  PROVE  CoolInv
  BY QuietIs, WaitsEnd DEF Cooldown!Init, CoolInv

(* An answer: a later time, and what the worker makes of it. *)
LEMMA AnswerTypes ==
  ASSUME CoolInv
  PROVE  /\ Cooldown!Succeed => CoolInv'
         /\ \A limited \in BOOLEAN, wait \in OfCooldown.Wait : Cooldown!Refused(limited, wait) => CoolInv'
  <1>1. /\ community \in Cooldown!Record /\ minute \in 1..OfCooldown.MaxNow /\ losses \in 0..OfCooldown.MaxLoss
        /\ AskerOK(asker) /\ asker.cp \in Cooldown!Record /\ OfCooldown.MaxNow \in Nat
        /\ \A b \in unsent : IsKept(b) /\ b.base \in Cooldown!Record /\ b.seen \in Cooldown!Record
                             /\ b.failed \subseteq 1..OfCooldown.MaxNow
    BY WaitsEnd DEF CoolInv, AskerOK
  <1>0. PICK p1, k1, s1, b1, c1, a1, f1 :
          asker = [pc |-> p1, kind |-> k1, start |-> s1, base |-> b1, cp |-> c1, asked |-> a1, failed |-> f1]
    BY <1>1, Zenon DEF AskerOK, IsAsker
  <1>2. ASSUME Cooldown!Succeed PROVE CoolInv'
    <2> DEFINE cp == [until |-> 0, limited |-> 0, success |-> minute']
               p == IF asker.kind = "growth" THEN "save" ELSE "item"
    <2>1. /\ asker.pc = "asking" /\ minute' = minute + 1 /\ UNCHANGED <<community, unsent, losses>>
          /\ asker' = [asker EXCEPT !.cp = cp, !.pc = p] /\ p # "asking"
      BY <1>2 DEF Cooldown!Succeed, Cooldown!AtStep
    <2>2. minute' \in 1..OfCooldown.MaxNow
      BY <1>1, <2>1 DEF AskerOK
    <2>3. cp \in Cooldown!Record
      BY <2>2, TimesAre, <1>1 DEF Cooldown!Record, Cooldown!Fields
    <2> HIDE DEF cp, p
    <2>4. asker' = [pc |-> p, kind |-> k1, start |-> s1, base |-> b1, cp |-> cp, asked |-> a1, failed |-> f1]
      BY <2>1, <1>0
    <2>5. AskerOK(asker)'
      <3>1. /\ IsAsker(asker') /\ asker'.pc = p /\ asker'.start = s1
            /\ asker'.base = b1 /\ asker'.cp = cp /\ asker'.asked = a1 /\ asker'.failed = f1
        BY <2>4, AskerFields
      <3> QED BY <1>1, <1>0, <2>1, <2>3, <3>1 DEF AskerOK
    <2> QED BY <1>1, <2>1, <2>2, <2>5 DEF CoolInv
  <1>3. ASSUME NEW limited \in BOOLEAN, NEW wait \in OfCooldown.Wait, Cooldown!Refused(limited, wait)
        PROVE  CoolInv'
    <2> DEFINE until == Cooldown!Larger(minute + 1 + wait, asker.cp.until)
               limit == IF limited THEN minute + 1 ELSE asker.cp.limited
               cp == [asker.cp EXCEPT !.until = until, !.limited = limit]
               failed == asker.failed \cup {IF asker.kind = "growth" THEN minute + 1 ELSE asker.asked}
               p == IF limited /\ asker.kind = "growth" THEN "save" ELSE "last"
    <2>1. /\ asker.pc = "asking" /\ minute' = minute + 1 /\ UNCHANGED <<community, unsent, losses>>
          /\ asker' = [asker EXCEPT !.cp.until = until, !.cp.limited = IF limited THEN minute + 1 ELSE @,
                                    !.failed = @ \cup {IF asker.kind = "growth" THEN minute + 1 ELSE asker.asked},
                                    !.pc = p]
          /\ p # "asking"
      BY <1>3 DEF Cooldown!Refused, Cooldown!AtStep
    <2>2. minute' \in 1..OfCooldown.MaxNow /\ asker.asked \in 1..OfCooldown.MaxNow
      BY <1>1, <2>1 DEF AskerOK
    <2>3. until \in Cooldown!Times /\ limit \in Cooldown!Times
      BY <1>1, <2>1, <2>2, TimesAre
    <2>4. cp \in Cooldown!Record
      <3> HIDE DEF until, limit
      <3> QED BY <1>1, <2>3, FieldsWith
    <2>5. failed \subseteq 1..OfCooldown.MaxNow
      BY <1>1, <2>1, <2>2 DEF AskerOK
    <2>6. asker.asked = a1 /\ asker.failed = f1 /\ asker.kind = k1 /\ asker.cp = c1
      BY <1>0
    <2>7. asker' = [pc |-> p, kind |-> k1, start |-> s1, base |-> b1, cp |-> cp, asked |-> a1, failed |-> failed]
      <3> HIDE DEF until, p
      <3> QED BY <2>1, <1>0
    <2> HIDE DEF until, limit, cp, failed, p
    <2>8. AskerOK(asker)'
      <3>1. /\ IsAsker(asker') /\ asker'.pc = p /\ asker'.start = s1
            /\ asker'.base = b1 /\ asker'.cp = cp /\ asker'.asked = a1
            /\ asker'.failed = failed
        BY <2>7, AskerFields
      <3> QED BY <1>1, <1>0, <2>1, <2>4, <2>5, <2>6, <3>1 DEF AskerOK
    <2> QED BY <1>1, <2>1, <2>2, <2>8 DEF CoolInv
  <1> QED BY <1>2, <1>3

LEMMA AskerMade ==
  ASSUME NEW p, NEW k, NEW s \in Cooldown!Record, NEW b \in Cooldown!Record, NEW c \in Cooldown!Record,
         NEW a \in 0..OfCooldown.MaxNow, NEW f \in SUBSET (1..OfCooldown.MaxNow),
         asker' = [pc |-> p, kind |-> k, start |-> s, base |-> b, cp |-> c, asked |-> a, failed |-> f],
         p = "asking" => a = minute' /\ minute' < OfCooldown.MaxNow
  PROVE  AskerOK(asker)'
  <1>1. /\ IsAsker(asker') /\ asker'.pc = p /\ asker'.start = s /\ asker'.base = b /\ asker'.cp = c
        /\ asker'.asked = a /\ asker'.failed = f
    BY AskerFields
  <1> QED BY <1>1 DEF AskerOK

SubmittedOK(b) ==
  /\ IsKept(b) /\ b.base \in Cooldown!Record /\ b.seen \in Cooldown!Record
  /\ b.failed \subseteq 1..OfCooldown.MaxNow

(* What the worker submits. *)
LEMMA SubmitsTypes ==
  ASSUME CoolInv
  PROVE  SubmittedOK(Cooldown!Progress) /\ SubmittedOK(Cooldown!Delivery)
  <1>1. AskerOK(asker)
    BY DEF CoolInv
  <1> QED BY <1>1 DEF AskerOK, SubmittedOK, IsKept, Cooldown!Progress, Cooldown!Delivery

LEMMA MergesTypes ==
  ASSUME CoolInv, NEW b, SubmittedOK(b)
  PROVE  Cooldown!Merge(community, b) \in Cooldown!Record
  BY CooldownMerged DEF CoolInv, SubmittedOK

(* The worker's own steps. *)
LEMMA AskerTypes ==
  ASSUME CoolInv
  PROVE  /\ \A kind : Cooldown!Start(kind) => CoolInv'
         /\ (Cooldown!Ask \/ Cooldown!NextItem \/ Cooldown!Stop) => CoolInv'
         /\ (Cooldown!Save \/ \E accepted \in BOOLEAN : Cooldown!SaveFails(accepted)) => CoolInv'
  <1>1. /\ community \in Cooldown!Record /\ minute \in 1..OfCooldown.MaxNow /\ losses \in 0..OfCooldown.MaxLoss
        /\ AskerOK(asker) /\ OfCooldown.MaxNow \in Nat /\ OfCooldown.MaxLoss \in Nat
        /\ \A b \in unsent : SubmittedOK(b)
    BY WaitsEnd DEF CoolInv, SubmittedOK
  <1>2. PICK p1, k1, s1, b1, c1, a1, f1 :
          asker = [pc |-> p1, kind |-> k1, start |-> s1, base |-> b1, cp |-> c1, asked |-> a1, failed |-> f1]
    BY <1>1, Zenon DEF AskerOK, IsAsker
  <1>3. /\ asker.pc = p1 /\ s1 \in Cooldown!Record /\ b1 \in Cooldown!Record /\ c1 \in Cooldown!Record
        /\ a1 \in 0..OfCooldown.MaxNow /\ f1 \in SUBSET (1..OfCooldown.MaxNow)
        /\ p1 = "asking" => a1 = minute /\ minute < OfCooldown.MaxNow
    <2>1. /\ asker.pc = p1 /\ asker.start = s1 /\ asker.base = b1 /\ asker.cp = c1 /\ asker.asked = a1
          /\ asker.failed = f1
      BY <1>2, AskerFields
    <2> QED BY <1>1, <2>1 DEF AskerOK
  <1>4. ASSUME AskerOK(asker)', community' \in Cooldown!Record, UNCHANGED <<unsent, minute>>,
               losses' \in 0..OfCooldown.MaxLoss
        PROVE  CoolInv'
    BY <1>1, <1>4 DEF CoolInv, SubmittedOK
  <1>5. ASSUME NEW kind, Cooldown!Start(kind) PROVE CoolInv'
    <2>1. UNCHANGED <<community, unsent, losses, minute>>
      BY <1>5 DEF Cooldown!Start, Cooldown!SameClock
    <2>2. asker' = [pc |-> "ready", kind |-> kind, start |-> community, base |-> community, cp |-> community,
                    asked |-> 0, failed |-> {}]
      BY <1>5 DEF Cooldown!Start, Cooldown!NoAsker
    <2>3. AskerOK(asker)'
      BY <1>1, <2>2, AskerMade
    <2> QED BY <1>1, <1>4, <2>1, <2>3
  <1>6. ASSUME Cooldown!Ask PROVE CoolInv'
    <2>1. UNCHANGED <<community, unsent, losses, minute>> /\ minute < OfCooldown.MaxNow
      BY <1>6 DEF Cooldown!Ask, Cooldown!SameClock
    <2>2. asker' = [pc |-> "asking", kind |-> k1, start |-> s1, base |-> b1, cp |-> c1,
                    asked |-> minute, failed |-> f1]
      BY <1>2, <1>6 DEF Cooldown!Ask
    <2>3. AskerOK(asker)'
      BY <1>1, <1>3, <2>1, <2>2, AskerMade
    <2> QED BY <1>1, <1>4, <2>1, <2>3
  <1>7. ASSUME Cooldown!NextItem \/ Cooldown!Stop PROVE CoolInv'
    <2>1. UNCHANGED <<community, unsent, losses, minute>>
      BY <1>7 DEF Cooldown!NextItem, Cooldown!Stop, Cooldown!SameClock
    <2>2. PICK p \in {"save", "ready", "final"} : asker' = [asker EXCEPT !.pc = p]
      BY <1>7, Zenon DEF Cooldown!NextItem, Cooldown!Stop
    <2>3. asker' = [pc |-> p, kind |-> k1, start |-> s1, base |-> b1, cp |-> c1, asked |-> a1, failed |-> f1]
      BY <1>2, <2>2
    <2>4. AskerOK(asker)'
      BY <1>3, <2>3, AskerMade
    <2> QED BY <1>1, <1>4, <2>1, <2>4
  <1>8. Cooldown!Merge(community, Cooldown!Progress) \in Cooldown!Record
    BY SubmitsTypes, MergesTypes
  <1>9. ASSUME Cooldown!Save PROVE CoolInv'
    <2> DEFINE merged == Cooldown!Merge(community, Cooldown!Progress)
               failed == IF asker.kind = "growth" THEN asker.failed ELSE {}
               p == IF asker.pc = "last" THEN "final" ELSE "ready"
    <2>1. UNCHANGED <<unsent, losses, minute>> /\ community' = merged
      BY <1>9 DEF Cooldown!Save, Cooldown!SameClock
    <2>2. asker' = [asker EXCEPT !.base = merged, !.cp = merged,
                               !.failed = IF asker.kind = "growth" THEN @ ELSE {}, !.pc = p]
      BY <1>9, Zenon DEF Cooldown!Save, Cooldown!AtStep
    <2>3. failed = (IF asker.kind = "growth" THEN f1 ELSE {}) /\ failed \in SUBSET (1..OfCooldown.MaxNow)
      BY <1>2, <1>3
    <2>4. p # "asking" /\ merged \in Cooldown!Record
      BY <1>8
    <2> HIDE DEF merged, p
    <2>5. asker' = [pc |-> p, kind |-> k1, start |-> s1, base |-> merged, cp |-> merged, asked |-> a1,
                    failed |-> IF asker.kind = "growth" THEN f1 ELSE {}]
      BY <1>2, <2>2
    <2> HIDE DEF failed
    <2>6. asker' = [pc |-> p, kind |-> k1, start |-> s1, base |-> merged, cp |-> merged, asked |-> a1,
                    failed |-> failed]
      BY <2>3, <2>5
    <2>7. AskerOK(asker)'
      BY <1>3, <2>3, <2>4, <2>6, AskerMade
    <2> QED BY <1>1, <1>4, <2>1, <2>4, <2>7
  <1>10. ASSUME NEW accepted \in BOOLEAN, Cooldown!SaveFails(accepted) PROVE CoolInv'
    <2>1. /\ UNCHANGED <<unsent, minute>> /\ community' \in Cooldown!Record
          /\ losses' \in 0..OfCooldown.MaxLoss
      BY <1>1, <1>8, <1>10 DEF Cooldown!SaveFails, Cooldown!SameClock, Cooldown!Lost
    <2> DEFINE failed == IF asker.kind = "growth" THEN {} ELSE asker.failed
    <2>2. asker' = [asker EXCEPT !.pc = "final", !.failed = IF asker.kind = "growth" THEN {} ELSE @]
      BY <1>10, Zenon DEF Cooldown!SaveFails
    <2>3. failed = (IF asker.kind = "growth" THEN {} ELSE f1) /\ failed \in SUBSET (1..OfCooldown.MaxNow)
      BY <1>2, <1>3
    <2>5. asker' = [pc |-> "final", kind |-> k1, start |-> s1, base |-> b1, cp |-> c1, asked |-> a1,
                    failed |-> IF asker.kind = "growth" THEN {} ELSE f1]
      BY <1>2, <2>2
    <2> HIDE DEF failed
    <2>6. asker' = [pc |-> "final", kind |-> k1, start |-> s1, base |-> b1, cp |-> c1, asked |-> a1,
                    failed |-> failed]
      BY <2>3, <2>5
    <2>7. AskerOK(asker)'
      <3>1. "final" # "asking" OBVIOUS
      <3>2. failed \in SUBSET (1..OfCooldown.MaxNow) BY <2>3
      <3> QED BY <1>3, <2>6, <3>1, <3>2, AskerMade
    <2> QED BY <1>4, <2>1, <2>7
  <1> QED BY <1>5, <1>6, <1>7, <1>9, <1>10

(* The worker ends, a kept batch is submitted, time passes. *)
LEMMA EndTypes ==
  ASSUME CoolInv
  PROVE  /\ (Cooldown!Deliver \/ Cooldown!DeliveryFails \/ Cooldown!Vanish) => CoolInv'
         /\ ((\E b \in unsent : Cooldown!Resubmit(b)) \/ Cooldown!Tick) => CoolInv'
  <1>1. /\ community \in Cooldown!Record /\ minute \in 1..OfCooldown.MaxNow /\ losses \in 0..OfCooldown.MaxLoss
        /\ AskerOK(asker) /\ OfCooldown.MaxNow \in Nat /\ OfCooldown.MaxLoss \in Nat
        /\ \A b \in unsent : SubmittedOK(b)
    BY WaitsEnd DEF CoolInv, SubmittedOK
  <1>2. SubmittedOK(Cooldown!Delivery) /\ Cooldown!Merge(community, Cooldown!Delivery) \in Cooldown!Record
    BY SubmitsTypes, MergesTypes
  <1>3. ASSUME AskerOK(asker)', community' \in Cooldown!Record, minute' \in 1..OfCooldown.MaxNow,
               losses' \in 0..OfCooldown.MaxLoss, unsent' \subseteq unsent \cup {Cooldown!Delivery}
        PROVE  CoolInv'
    <2>1. \A b \in unsent' : SubmittedOK(b)
      BY <1>1, <1>2, <1>3
    <2> QED BY <1>3, <2>1 DEF CoolInv, SubmittedOK
  <1>4. ASSUME Cooldown!Deliver \/ Cooldown!DeliveryFails \/ Cooldown!Vanish PROVE CoolInv'
    <2>1. asker' = Cooldown!NoAsker /\ community' \in Cooldown!Record /\ UNCHANGED minute
          /\ losses' \in 0..OfCooldown.MaxLoss
      BY <1>1, <1>2, <1>4 DEF Cooldown!Deliver, Cooldown!DeliveryFails, Cooldown!Vanish, Cooldown!SameClock, Cooldown!Lost
    <2>2. unsent' \subseteq unsent \cup {Cooldown!Delivery}
      BY <1>4 DEF Cooldown!Deliver, Cooldown!DeliveryFails, Cooldown!Vanish, Cooldown!Keep
    <2>3. AskerOK(asker)'
      BY <2>1, QuietIs DEF AskerOK, Cooldown!NoAsker
    <2> QED BY <1>1, <1>3, <2>1, <2>2, <2>3
  <1>5. ASSUME NEW b \in unsent, Cooldown!Resubmit(b) PROVE CoolInv'
    <2>1. community' \in Cooldown!Record /\ UNCHANGED <<asker, unsent, losses, minute>>
      BY <1>1, <1>5, MergesTypes DEF Cooldown!Resubmit, Cooldown!SameClock
    <2> QED BY <1>1, <1>3, <2>1 DEF AskerOK
  <1>6. ASSUME Cooldown!Tick PROVE CoolInv'
    <2>1. /\ UNCHANGED <<community, asker, unsent, losses>> /\ asker.pc # "asking"
          /\ minute' \in 1..OfCooldown.MaxNow
      BY <1>1, <1>6 DEF Cooldown!Tick, Cooldown!AtStep
    <2>2. AskerOK(asker)'
      BY <1>1, <2>1 DEF AskerOK
    <2> QED BY <1>1, <1>3, <2>1, <2>2
  <1> QED BY <1>4, <1>5, <1>6

LEMMA CoolSteps ==
  ASSUME CoolInv, [Cooldown!Next]_(Cooldown!cooldown)
  PROVE  CoolInv'
  <1>1. CASE UNCHANGED Cooldown!cooldown
    BY <1>1 DEF Cooldown!cooldown, CoolInv, AskerOK
  <1> QED BY <1>1, AnswerTypes, AskerTypes, EndTypes DEF Cooldown!Next

(* The cooldown fields, the worker and the kept batches have their types. *)
THEOREM CooldownTypeCorrect == Cooldown!Spec => []Cooldown!TypeOK
  <1>1. CoolInv => Cooldown!TypeOK
    BY DEF CoolInv, AskerOK, Cooldown!TypeOK
  <1>2. Cooldown!Init => CoolInv
    BY CoolStarts, CooldownGiven DEF Cooldown!CooldownAssumption
  <1> QED BY <1>1, <1>2, CoolSteps, PTL DEF Cooldown!Spec
--------------------------------------------------------------------------------
(* What a merge makes of the times.  The last success never goes back, and a deadline
   that gets shorter is the batch's own, after the batch's own success. *)
LEMMA AdoptedFields ==
  ASSUME NEW latest \in Cooldown!Record, NEW b, b.seen \in Cooldown!Record, b.base \in Cooldown!Record
  PROVE  LET a == Cooldown!Adopted(latest, b) IN
         /\ a.until = IF b.seen.until # b.base.until THEN b.seen.until ELSE latest.until
         /\ a.success = IF b.seen.success # b.base.success THEN b.seen.success ELSE latest.success
         /\ latest = b.base => a = b.seen
  <1>1. \A f \in Cooldown!Fields : Cooldown!Adopted(latest, b)[f]
                                   = IF b.seen[f] # b.base[f] THEN b.seen[f] ELSE latest[f]
    BY DEF Cooldown!Adopted, Cooldown!Changed
  <1>2. Cooldown!Adopted(latest, b) \in Cooldown!Record
    BY AdoptedIs
  <1>3. ASSUME latest = b.base PROVE Cooldown!Adopted(latest, b) = b.seen
    <2>1. \A f \in Cooldown!Fields : Cooldown!Adopted(latest, b)[f] = b.seen[f]
      BY <1>1, <1>3
    <2> QED BY <1>2, <2>1 DEF Cooldown!Record
  <1> QED BY <1>1, <1>3 DEF Cooldown!Fields

LEMMA MergeTells ==
  ASSUME NEW latest \in Cooldown!Record, NEW b, b.seen \in Cooldown!Record, b.base \in Cooldown!Record,
         b.base.success <= b.seen.success
  PROVE  LET m == Cooldown!Merge(latest, b) IN
         /\ m.success >= latest.success /\ m.success \in {latest.success, b.seen.success}
         /\ m.until \in {latest.until, b.seen.until}
         /\ latest = b.base => m = b.seen
         /\ m.until < latest.until /\ b.base.success <= latest.success =>
              m.until = b.seen.until /\ m.success >= b.seen.success
  <1> DEFINE m == Cooldown!Merge(latest, b)
             a == Cooldown!Adopted(latest, b)
             until == Cooldown!Longest(latest, b)
             limit == IF b.seen.limited # 0 /\ Cooldown!FailedAt(b) >= latest.limited
                      THEN b.seen.limited ELSE latest.limited
  <1>1. /\ latest.until \in Nat /\ latest.success \in Nat /\ b.seen.until \in Nat /\ b.seen.success \in Nat
        /\ b.base.until \in Nat /\ b.base.success \in Nat
        /\ until \in Cooldown!Times /\ until \in {latest.until, b.seen.until} /\ latest.until <= until
        /\ limit \in Cooldown!Times
    BY TimesAre DEF Cooldown!Longest
  <1>2. /\ a.until = IF b.seen.until # b.base.until THEN b.seen.until ELSE latest.until
        /\ a.success = IF b.seen.success # b.base.success THEN b.seen.success ELSE latest.success
        /\ latest = b.base => a = b.seen
    BY AdoptedFields
  <1>3. /\ [latest EXCEPT !.until = until, !.limited = limit].until = until
        /\ [latest EXCEPT !.until = until, !.limited = limit].success = latest.success
        /\ [latest EXCEPT !.until = until].until = until
        /\ [latest EXCEPT !.until = until].success = latest.success
    <2>1. \A x, y \in Cooldown!Times :
            /\ [latest EXCEPT !.until = x, !.limited = y].until = x
            /\ [latest EXCEPT !.until = x, !.limited = y].success = latest.success
            /\ [latest EXCEPT !.until = x].until = x
            /\ [latest EXCEPT !.until = x].success = latest.success
      BY DEF Cooldown!Record, Cooldown!Fields
    <2> HIDE DEF m, a, until, limit
    <2> QED BY <1>1, <2>1
  <1>4. CASE latest = b.base
    <2>1. CASE Cooldown!Changed(b) = {}
      <3>1. \A f \in Cooldown!Fields : b.seen[f] = b.base[f]
        BY <2>1 DEF Cooldown!Changed
      <3>2. b.seen = b.base
        BY <3>1 DEF Cooldown!Record
      <3> QED BY <1>1, <1>4, <2>1, <3>2 DEF Cooldown!Merge
    <2>2. CASE Cooldown!Changed(b) # {}
      <3>1. m = b.seen
        BY <1>2, <1>4, <2>2 DEF Cooldown!Merge
      <3> QED BY <1>1, <1>4, <3>1
    <2> QED BY <2>1, <2>2
  <1>5. CASE latest # b.base
    <2>1. \/ m = latest
          \/ m = a /\ ~Cooldown!Outdated(latest, b)
          \/ m = [latest EXCEPT !.until = until, !.limited = limit]
          \/ m = [latest EXCEPT !.until = until]
      BY <1>5 DEF Cooldown!Merge
    <2>2. CASE m = a /\ ~Cooldown!Outdated(latest, b)
      <3>1. latest.success <= b.seen.success
        BY <1>1, <2>2 DEF Cooldown!Outdated
      <3> HIDE DEF m, a, until, limit
      <3>2. m.success >= latest.success /\ m.success \in {latest.success, b.seen.success}
            /\ m.until \in {latest.until, b.seen.until}
        BY <1>1, <1>2, <2>2, <3>1
      <3>3. m.until < latest.until /\ b.base.success <= latest.success =>
              m.until = b.seen.until /\ m.success >= b.seen.success
        BY <1>1, <1>2, <2>2, <3>1
      <3> QED BY <1>5, <3>2, <3>3 DEF m
    <2>3. CASE m.until \in {latest.until, until} /\ m.success = latest.success
      <3> HIDE DEF m, until
      <3>1. m.until \in {latest.until, b.seen.until} /\ ~(m.until < latest.until)
        BY <1>1, <2>3
      <3> QED BY <1>1, <1>5, <2>3, <3>1 DEF m
    <2> HIDE DEF m, until, limit, a
    <2> QED BY <1>3, <2>1, <2>2, <2>3
  <1> QED BY <1>4, <1>5
--------------------------------------------------------------------------------
(* What the checkpoint, a worker and a batch know of the last success is in order. *)
KnownInv ==
  /\ \A r \in refusals : r.at \in Nat /\ r.at <= minute
  /\ community.success <= minute /\ asker.cp.success <= minute
  /\ asker.base.success <= asker.cp.success /\ asker.start.success <= asker.cp.success
  /\ asker.base.success <= community.success /\ asker.start.success <= community.success
  /\ \A b \in unsent : b.base.success <= b.seen.success /\ b.seen.success <= minute

(* A refusal set a deadline, and one that is shorter comes from a success after it. *)
Told(x) == x.until = 0 \/ \E r \in refusals : r.until = x.until
Settles(x, y) ==
  y.until >= x.until \/ \E r \in refusals : r.until = x.until /\ r.at <= y.success

(* As long as no batch is kept, only the running worker writes: what is durable is its
   baseline, or what it has made of it. *)
AloneInv ==
  unsent = {} =>
    /\ Told(community) /\ Told(asker.cp) /\ Told(asker.base)
    /\ Settles(asker.base, asker.cp)
    /\ \/ asker.pc = "idle" \/ community = asker.base
       \/ asker.pc = "final" /\ community = asker.cp

AnswersInv == CoolInv /\ KnownInv /\ AloneInv

LEMMA NumbersAre ==
  ASSUME CoolInv
  PROVE  /\ minute \in Nat
         /\ community \in Cooldown!Record /\ community.until \in Nat /\ community.success \in Nat
         /\ asker.cp \in Cooldown!Record /\ asker.cp.until \in Nat /\ asker.cp.success \in Nat
         /\ asker.base \in Cooldown!Record /\ asker.base.until \in Nat /\ asker.base.success \in Nat
         /\ asker.start \in Cooldown!Record /\ asker.start.success \in Nat
         /\ \A b \in unsent : SubmittedOK(b) /\ b.base.success \in Nat /\ b.seen.success \in Nat
  <1>1. \A r \in Cooldown!Record : r.until \in Nat /\ r.success \in Nat
    BY TimesAre
  <1> QED BY <1>1, WaitsEnd DEF CoolInv, AskerOK, SubmittedOK

LEMMA QuietKnows ==
  /\ Cooldown!NoAsker.pc = "idle"
  /\ Cooldown!NoAsker.cp.success = 0 /\ Cooldown!NoAsker.base.success = 0
  /\ Cooldown!NoAsker.start.success = 0
  /\ Cooldown!NoAsker.cp.until = 0 /\ Cooldown!NoAsker.base.until = 0
  BY DEF Cooldown!NoAsker, Cooldown!Quiet, Cooldown!Fields

LEMMA AnswersStart ==
  ASSUME Cooldown!Init, CoolInv
  PROVE  AnswersInv
  <1>1. /\ community.success = 0 /\ community.until = 0 /\ asker = Cooldown!NoAsker /\ unsent = {}
        /\ refusals = {} /\ minute = 1
    BY DEF Cooldown!Init, Cooldown!Quiet, Cooldown!Fields
  <1> QED BY <1>1, QuietKnows DEF AnswersInv, KnownInv, AloneInv, Told, Settles

(* What the worker submits: its fields over a baseline that it knows. *)
LEMMA SubmitsKnow ==
  ASSUME AnswersInv, NEW b \in {Cooldown!Progress, Cooldown!Delivery}
  PROVE  /\ SubmittedOK(b) /\ b.seen = asker.cp
         /\ b.base.success <= b.seen.success /\ b.seen.success <= minute
         /\ b.base.success <= community.success
  <1>1. SubmittedOK(b)
    BY SubmitsTypes DEF AnswersInv
  <1>2. b.seen = asker.cp /\ b.base \in {asker.start, asker.base}
    BY DEF Cooldown!Progress, Cooldown!Delivery
  <1> QED BY <1>1, <1>2 DEF AnswersInv, KnownInv

(* What a merge of it leaves: nothing that was told is unsaid. *)
LEMMA WriteTells ==
  ASSUME AnswersInv, NEW b, SubmittedOK(b), b.base.success <= b.seen.success, b.seen.success <= minute
  PROVE  LET m == Cooldown!Merge(community, b) IN
         /\ m \in Cooldown!Record /\ m.success \in Nat /\ m.until \in Nat
         /\ m.success >= community.success /\ m.success <= minute
         /\ unsent = {} /\ asker.pc # "idle" /\ b \in {Cooldown!Progress, Cooldown!Delivery} =>
              Told(m) /\ Settles(community, m)
  <1> DEFINE m == Cooldown!Merge(community, b)
  <1>1. b.seen \in Cooldown!Record /\ b.base \in Cooldown!Record
    BY DEF SubmittedOK
  <1>2. m \in Cooldown!Record
    BY MergesTypes DEF AnswersInv
  <1>3. m.success \in Nat /\ m.until \in Nat /\ b.seen.success \in Nat /\ b.seen.until \in Nat
    BY <1>1, <1>2, TimesAre
  <1>4. /\ m.success >= community.success /\ m.success \in {community.success, b.seen.success}
        /\ m.until \in {community.until, b.seen.until}
        /\ community = b.base => m = b.seen
        /\ m.until < community.until /\ b.base.success <= community.success =>
             m.until = b.seen.until /\ m.success >= b.seen.success
    BY <1>1, NumbersAre, MergeTells DEF AnswersInv
  <1> HIDE DEF m
  <1>5. m.success <= minute
    BY <1>4 DEF AnswersInv, KnownInv
  <1>6. ASSUME unsent = {}, asker.pc # "idle", b \in {Cooldown!Progress, Cooldown!Delivery}
        PROVE  Told(m) /\ Settles(community, m)
    <2>1. b.seen = asker.cp /\ b.base.success <= community.success
      BY <1>6, SubmitsKnow
    <2>2. /\ Told(community) /\ Told(asker.cp) /\ Settles(asker.base, asker.cp)
          /\ community = asker.base \/ community = asker.cp
      BY <1>6 DEF AnswersInv, AloneInv
    <2>3. Told(m)
      BY <1>4, <2>1, <2>2 DEF Told
    <2>4. ASSUME ~(m.until >= community.until)
          PROVE  \E r \in refusals : r.until = community.until /\ r.at <= m.success
      <3>1. m.until < community.until
        BY <1>3, <2>4, NumbersAre DEF AnswersInv
      <3>2. m.until = asker.cp.until /\ m.success >= asker.cp.success
        BY <1>4, <2>1, <3>1
      <3>3. community = asker.base /\ ~(asker.cp.until >= asker.base.until)
        <4>1. community.until \in Nat /\ asker.cp.until \in Nat
          BY NumbersAre DEF AnswersInv
        <4>2. community # asker.cp
          BY <3>1, <3>2, <4>1
        <4> QED BY <2>2, <3>1, <3>2, <4>1, <4>2
      <3>4. PICK r \in refusals : r.until = community.until /\ r.at <= asker.cp.success
        BY <2>2, <3>3 DEF Settles
      <3>5. r.at \in Nat /\ asker.cp.success \in Nat
        BY NumbersAre DEF AnswersInv, KnownInv
      <3> QED BY <1>3, <3>2, <3>4, <3>5
    <2> QED BY <2>3, <2>4 DEF Settles
  <1> QED BY <1>2, <1>3, <1>4, <1>5, <1>6 DEF m

(* A worker that starts or ends: all that it knows is durable, or nothing. *)
LEMMA EndsKnow ==
  ASSUME AnswersInv, asker' = Cooldown!NoAsker, UNCHANGED <<minute, refusals>>,
         community'.success \in Nat, community'.success <= minute, unsent = {} => Told(community'),
         unsent' \subseteq unsent \cup {Cooldown!Delivery}, unsent \subseteq unsent'
  PROVE  (KnownInv /\ AloneInv)'
  <1>1. KnownInv'
    <2>1. \A b \in unsent' : b.base.success <= b.seen.success /\ b.seen.success <= minute
      BY SubmitsKnow DEF AnswersInv, KnownInv
    <2>2. minute \in Nat /\ \A r \in refusals : r.at \in Nat /\ r.at <= minute
      BY NumbersAre DEF AnswersInv, KnownInv
    <2> QED BY <2>1, <2>2, QuietKnows DEF KnownInv
  <1>2. AloneInv'
    BY QuietKnows DEF AloneInv, Told, Settles
  <1> QED BY <1>1, <1>2

LEMMA StartKnows ==
  ASSUME AnswersInv, NEW kind, Cooldown!Start(kind)
  PROVE  (KnownInv /\ AloneInv)'
  <1>1. /\ asker'.start = community /\ asker'.base = community /\ asker'.cp = community
        /\ UNCHANGED <<community, unsent, minute, refusals>>
    BY DEF Cooldown!Start, Cooldown!SameClock, Cooldown!NoAsker
  <1>2. /\ community.success \in Nat /\ community.until \in Nat
    BY NumbersAre DEF AnswersInv
  <1>3. KnownInv'
    BY <1>1, <1>2 DEF AnswersInv, KnownInv
  <1>4. AloneInv'
    BY <1>1, <1>2 DEF AnswersInv, AloneInv, Told, Settles
  <1> QED BY <1>3, <1>4

(* Steps that change no time that the worker knows. *)
LEMMA WaitKnows ==
  ASSUME AnswersInv, UNCHANGED <<community, unsent, refusals>>, minute' \in Nat, minute <= minute',
         UNCHANGED <<asker.start, asker.base, asker.cp>>,
         asker.pc = "idle" => asker'.pc = "idle", asker.pc = "final" => asker'.pc = "final"
  PROVE  (KnownInv /\ AloneInv)'
  <1>1. KnownInv'
    <2>1. \A x \in Nat : x <= minute => x <= minute'
      BY NumbersAre DEF AnswersInv
    <2>2. /\ \A r \in refusals : r.at \in Nat /\ r.at <= minute'
          /\ community.success <= minute' /\ asker.cp.success <= minute'
          /\ \A b \in unsent : b.base.success <= b.seen.success /\ b.seen.success <= minute'
      BY <2>1, NumbersAre DEF AnswersInv, KnownInv
    <2>3. /\ asker.base.success <= asker.cp.success /\ asker.start.success <= asker.cp.success
          /\ asker.base.success <= community.success /\ asker.start.success <= community.success
      BY DEF AnswersInv, KnownInv
    <2> QED BY <2>2, <2>3 DEF KnownInv
  <1>2. AloneInv'
    BY DEF AnswersInv, AloneInv, Told, Settles
  <1> QED BY <1>1, <1>2

(* A success: the worker knows it, and no deadline that was told is left. *)
LEMMA SuccessKnows ==
  ASSUME AnswersInv, Cooldown!Succeed
  PROVE  (KnownInv /\ AloneInv)'
  <1> DEFINE cp == [until |-> 0, limited |-> 0, success |-> minute']
             p == IF asker.kind = "growth" THEN "save" ELSE "item"
  <1>1. /\ asker.pc = "asking" /\ minute' = minute + 1 /\ UNCHANGED <<community, unsent, losses, refusals>>
        /\ asker' = [asker EXCEPT !.cp = cp, !.pc = p] /\ p # "asking"
    BY DEF Cooldown!Succeed, Cooldown!AtStep
  <1>2. IsAsker(asker)
    BY DEF AnswersInv, CoolInv, AskerOK
  <1>3. asker'.cp = cp /\ UNCHANGED <<asker.start, asker.base>>
    <2> HIDE DEF cp, p
    <2> QED BY <1>1, <1>2 DEF IsAsker
  <1>4. asker'.cp.until = 0 /\ asker'.cp.success = minute'
    BY <1>3
  <1> HIDE DEF cp, p
  <1>5. /\ minute \in Nat /\ minute' \in Nat /\ minute <= minute'
        /\ asker.base.success \in Nat /\ asker.start.success \in Nat /\ asker.cp.success \in Nat
        /\ community.success \in Nat
        /\ \A b \in unsent : b.base.success \in Nat /\ b.seen.success \in Nat
    BY <1>1, NumbersAre DEF AnswersInv
  <1>6. KnownInv'
    <2>1. /\ asker.base.success <= minute' /\ asker.start.success <= minute'
          /\ community.success <= minute'
      BY <1>5 DEF AnswersInv, KnownInv
    <2>2. \A r \in refusals : r.at \in Nat /\ r.at <= minute'
      BY <1>5 DEF AnswersInv, KnownInv
    <2>3. \A b \in unsent : b.base.success <= b.seen.success /\ b.seen.success <= minute'
      BY <1>5 DEF AnswersInv, KnownInv
    <2> QED BY <1>1, <1>3, <1>4, <1>5, <2>1, <2>2, <2>3 DEF AnswersInv, KnownInv
  <1>7. AloneInv'
    <2> SUFFICES ASSUME unsent' = {}
                 PROVE  /\ Told(community)' /\ Told(asker.cp)' /\ Told(asker.base)'
                        /\ Settles(asker.base, asker.cp)' /\ (community = asker.base)'
      BY DEF AloneInv
    <2>1. Told(community) /\ Told(asker.base) /\ community = asker.base
      BY <1>1 DEF AnswersInv, AloneInv
    <2>2. asker.base.until = 0 \/ \E r \in refusals : r.until = asker.base.until /\ r.at <= minute'
      BY <1>5, <2>1 DEF AnswersInv, KnownInv, Told
    <2> QED BY <1>1, <1>3, <1>4, <2>1, <2>2 DEF Told, Settles
  <1> QED BY <1>6, <1>7

(* A refusal: the deadline that the worker knows only grows, and it was told. *)
LEMMA RefusalKnows ==
  ASSUME AnswersInv, NEW limited \in BOOLEAN, NEW wait \in OfCooldown.Wait, Cooldown!Refused(limited, wait)
  PROVE  (KnownInv /\ AloneInv)'
  <1> DEFINE until == Cooldown!Larger(minute + 1 + wait, asker.cp.until)
             limit == IF limited THEN minute + 1 ELSE asker.cp.limited
             cp == [asker.cp EXCEPT !.until = until, !.limited = limit]
             p == IF limited /\ asker.kind = "growth" THEN "save" ELSE "last"
             r0 == [at |-> minute + 1, until |-> until, limited |-> limited]
  <1>1. /\ asker.pc = "asking" /\ minute' = minute + 1 /\ UNCHANGED <<community, unsent, losses>>
        /\ asker' = [asker EXCEPT !.cp.until = until, !.cp.limited = IF limited THEN minute + 1 ELSE @,
                                  !.failed = @ \cup {IF asker.kind = "growth" THEN minute + 1 ELSE asker.asked},
                                  !.pc = p]
        /\ refusals' = refusals \cup {r0}
    BY DEF Cooldown!Refused, Cooldown!AtStep
  <1>2. IsAsker(asker)
    BY DEF AnswersInv, CoolInv, AskerOK
  <1>3. asker'.cp = cp /\ UNCHANGED <<asker.start, asker.base>>
    <2> HIDE DEF until, p
    <2> QED BY <1>1, <1>2 DEF IsAsker
  <1>4. /\ minute + 1 + wait \in Cooldown!Times /\ asker.cp.until \in Cooldown!Times
        /\ asker.cp.limited \in Cooldown!Times /\ minute + 1 \in Cooldown!Times
    <2>1. minute + 1 \in 0..OfCooldown.MaxNow
      BY <1>1, WaitsEnd DEF AnswersInv, CoolInv, AskerOK
    <2>2. asker.cp \in Cooldown!Record
      BY NumbersAre DEF AnswersInv
    <2> QED BY <2>1, <2>2, TimesAre
  <1>5. until \in Cooldown!Times /\ limit \in Cooldown!Times /\ asker.cp.until <= until
    BY <1>4, TimesAre
  <1>6. cp.until = until /\ cp.success = asker.cp.success
    <2>1. \A x, y \in Cooldown!Times : /\ [asker.cp EXCEPT !.until = x, !.limited = y].until = x
                                       /\ [asker.cp EXCEPT !.until = x, !.limited = y].success = asker.cp.success
      BY NumbersAre DEF AnswersInv, Cooldown!Record, Cooldown!Fields
    <2> HIDE DEF until, limit
    <2> QED BY <1>5, <2>1
  <1>7. r0.at = minute + 1 /\ r0.until = until /\ r0 \in refusals' /\ refusals \subseteq refusals'
    BY <1>1
  <1> HIDE DEF until, limit, cp, p, r0
  <1>8. /\ minute \in Nat /\ minute' \in Nat /\ minute <= minute' /\ minute' = minute + 1
        /\ asker.base.until \in Nat /\ asker.cp.until \in Nat /\ until \in Nat
    BY <1>1, <1>5, TimesAre, NumbersAre DEF AnswersInv
  <1>9. KnownInv'
    <2>1. \A x \in Nat : x <= minute => x <= minute'
      BY <1>8
    <2>2. \A r \in refusals' : r.at \in Nat /\ r.at <= minute'
      BY <1>1, <1>7, <1>8, <2>1 DEF AnswersInv, KnownInv
    <2>3. /\ community.success <= minute' /\ asker.cp.success <= minute'
          /\ \A b \in unsent : b.base.success <= b.seen.success /\ b.seen.success <= minute'
      BY <2>1, NumbersAre DEF AnswersInv, KnownInv
    <2> QED BY <1>1, <1>3, <1>6, <2>2, <2>3 DEF AnswersInv, KnownInv
  <1>10. AloneInv'
    <2> SUFFICES ASSUME unsent' = {}
                 PROVE  /\ Told(community)' /\ Told(asker.cp)' /\ Told(asker.base)'
                        /\ Settles(asker.base, asker.cp)' /\ (community = asker.base)'
      BY DEF AloneInv
    <2>1. /\ Told(community) /\ Told(asker.base) /\ community = asker.base
          /\ Settles(asker.base, asker.cp)
      BY <1>1 DEF AnswersInv, AloneInv
    <2>2. Told(community)' /\ Told(asker.base)'
      BY <1>1, <1>3, <1>7, <2>1 DEF Told
    <2>3. Told(asker.cp)'
      BY <1>3, <1>6, <1>7 DEF Told
    <2>4. asker.cp.until >= asker.base.until => until >= asker.base.until
      BY <1>5, <1>8
    <2>5. Settles(asker.base, asker.cp)'
      BY <1>3, <1>6, <1>7, <2>1, <2>4 DEF Settles
    <2> QED BY <1>1, <1>3, <2>1, <2>2, <2>3, <2>5
  <1> QED BY <1>9, <1>10

(* A save: the worker goes on with what is durable. *)
LEMMA SaveKnows ==
  ASSUME AnswersInv, Cooldown!Save
  PROVE  (KnownInv /\ AloneInv)'
  <1> DEFINE m == Cooldown!Merge(community, Cooldown!Progress)
             p == IF asker.pc = "last" THEN "final" ELSE "ready"
  <1>1. UNCHANGED <<unsent, minute, refusals>> /\ community' = m /\ asker.pc \in {"save", "last"}
    BY DEF Cooldown!Save, Cooldown!SameClock, Cooldown!Saving, Cooldown!AtStep
  <1>2. asker' = [asker EXCEPT !.base = m, !.cp = m,
                               !.failed = IF asker.kind = "growth" THEN @ ELSE {}, !.pc = p]
    BY Zenon DEF Cooldown!Save, Cooldown!AtStep
  <1>3. IsAsker(asker)
    BY DEF AnswersInv, CoolInv, AskerOK
  <1>4. asker'.base = m /\ asker'.cp = m /\ UNCHANGED asker.start
    <2> HIDE DEF m, p
    <2> QED BY <1>2, <1>3 DEF IsAsker
  <1>5. /\ m \in Cooldown!Record /\ m.success \in Nat /\ m.until \in Nat
        /\ m.success >= community.success /\ m.success <= minute
        /\ unsent = {} => Told(m)
    <2>1. asker.pc # "idle"
      BY <1>1
    <2>2. LET b == Cooldown!Progress IN
          SubmittedOK(b) /\ b.base.success <= b.seen.success /\ b.seen.success <= minute
      BY SubmitsKnow
    <2> QED BY <2>1, <2>2, WriteTells
  <1> HIDE DEF m, p
  <1>6. community.success \in Nat /\ asker.start.success \in Nat /\ minute \in Nat
    BY NumbersAre DEF AnswersInv
  <1>7. KnownInv'
    BY <1>1, <1>4, <1>5, <1>6 DEF AnswersInv, KnownInv
  <1>8. AloneInv'
    BY <1>1, <1>4, <1>5 DEF AnswersInv, AloneInv, Told, Settles
  <1> QED BY <1>7, <1>8

(* A save whose answer is lost: the durable fields are the worker's, or its baseline. *)
LEMMA FailedSaveKnows ==
  ASSUME AnswersInv, NEW accepted \in BOOLEAN, Cooldown!SaveFails(accepted)
  PROVE  (KnownInv /\ AloneInv)'
  <1> DEFINE m == Cooldown!Merge(community, Cooldown!Progress)
  <1>1. UNCHANGED <<unsent, minute, refusals>> /\ community' \in {m, community} /\ asker.pc \in {"save", "last"}
    BY DEF Cooldown!SaveFails, Cooldown!SameClock, Cooldown!Saving, Cooldown!AtStep
  <1>2. asker' = [asker EXCEPT !.pc = "final", !.failed = IF asker.kind = "growth" THEN {} ELSE @]
    BY Zenon DEF Cooldown!SaveFails
  <1>3. IsAsker(asker)
    BY DEF AnswersInv, CoolInv, AskerOK
  <1>4. asker'.pc = "final" /\ UNCHANGED <<asker.start, asker.base, asker.cp>>
    BY <1>2, <1>3 DEF IsAsker
  <1>5. LET b == Cooldown!Progress IN
        SubmittedOK(b) /\ b.base.success <= b.seen.success /\ b.seen.success <= minute
    BY SubmitsKnow
  <1>6. /\ m \in Cooldown!Record /\ m.success \in Nat /\ m.until \in Nat
        /\ m.success >= community.success /\ m.success <= minute
        /\ unsent = {} => Told(m)
    BY <1>1, <1>5, WriteTells
  <1>7. unsent = {} => community = asker.base /\ m = asker.cp
    <2> SUFFICES ASSUME unsent = {} PROVE community = asker.base /\ m = asker.cp
      OBVIOUS
    <2>1. community = asker.base
      BY <1>1 DEF AnswersInv, AloneInv
    <2>2. Cooldown!Progress.base = community /\ Cooldown!Progress.seen = asker.cp
      BY <2>1 DEF Cooldown!Progress
    <2>3. community = Cooldown!Progress.base => m = Cooldown!Progress.seen
      <3>1. Cooldown!Progress.seen \in Cooldown!Record /\ Cooldown!Progress.base \in Cooldown!Record
        BY <1>5 DEF SubmittedOK
      <3>2. community \in Cooldown!Record
        BY NumbersAre DEF AnswersInv
      <3> QED BY <1>5, <3>1, <3>2, MergeTells
    <2> QED BY <2>1, <2>2, <2>3
  <1> HIDE DEF m
  <1>8. community.success \in Nat /\ asker.start.success \in Nat /\ asker.base.success \in Nat /\ minute \in Nat
    BY NumbersAre DEF AnswersInv
  <1>9. KnownInv'
    <2>1. community'.success <= minute /\ asker.base.success <= community'.success
          /\ asker.start.success <= community'.success
      BY <1>1, <1>6, <1>8 DEF AnswersInv, KnownInv
    <2> QED BY <1>1, <1>4, <2>1 DEF AnswersInv, KnownInv
  <1>10. AloneInv'
    BY <1>1, <1>4, <1>7 DEF AnswersInv, AloneInv, Told, Settles
  <1> QED BY <1>9, <1>10

LEMMA AnswersSteps ==
  ASSUME AnswersInv, [Cooldown!Next]_(Cooldown!cooldown)
  PROVE  AnswersInv'
  <1>0. CoolInv'
    BY CoolSteps DEF AnswersInv
  <1>1. /\ minute \in Nat /\ community.success \in Nat /\ community.success <= minute
        /\ unsent = {} => Told(community)
    BY NumbersAre DEF AnswersInv, KnownInv, AloneInv
  <1>2. ASSUME NEW accepted \in BOOLEAN, Cooldown!SaveFails(accepted) PROVE (KnownInv /\ AloneInv)'
    BY <1>2, FailedSaveKnows
  <1>3. ASSUME NEW limited \in BOOLEAN, NEW wait \in OfCooldown.Wait, Cooldown!Refused(limited, wait)
        PROVE  (KnownInv /\ AloneInv)'
    BY <1>3, RefusalKnows
  <1>4. ASSUME NEW kind, Cooldown!Start(kind) PROVE (KnownInv /\ AloneInv)'
    BY <1>4, StartKnows
  <1>5. ASSUME Cooldown!Ask \/ Cooldown!NextItem \/ Cooldown!Stop PROVE (KnownInv /\ AloneInv)'
    <2>1. UNCHANGED <<community, unsent, minute, refusals>> /\ asker.pc \in {"ready", "item"}
      BY <1>5 DEF Cooldown!Ask, Cooldown!NextItem, Cooldown!Stop, Cooldown!SameClock, Cooldown!AtStep
    <2>2. IsAsker(asker)
      BY DEF AnswersInv, CoolInv, AskerOK
    <2>3. UNCHANGED <<asker.start, asker.base, asker.cp>>
      BY <1>5, <2>2 DEF Cooldown!Ask, Cooldown!NextItem, Cooldown!Stop, IsAsker
    <2> QED BY <1>1, <2>1, <2>3, WaitKnows
  <1>6. ASSUME Cooldown!Deliver PROVE (KnownInv /\ AloneInv)'
    <2>1. /\ asker.pc = "final" /\ community' = Cooldown!Merge(community, Cooldown!Delivery)
          /\ asker' = Cooldown!NoAsker /\ UNCHANGED <<minute, refusals>>
          /\ unsent' \subseteq unsent \cup {Cooldown!Delivery} /\ unsent \subseteq unsent'
      BY <1>6 DEF Cooldown!Deliver, Cooldown!AtStep, Cooldown!SameClock, Cooldown!Keep
    <2>2. LET b == Cooldown!Delivery IN
          SubmittedOK(b) /\ b.base.success <= b.seen.success /\ b.seen.success <= minute
      BY SubmitsKnow
    <2>3. /\ community'.success \in Nat /\ community'.success <= minute
          /\ unsent = {} => Told(Cooldown!Merge(community, Cooldown!Delivery))
      <3>1. asker.pc # "idle"
        BY <2>1
      <3> QED BY <2>1, <2>2, <3>1, WriteTells
    <2>4. unsent = {} => Told(community')
      BY <2>1, <2>3
    <2> QED BY <2>1, <2>3, <2>4, EndsKnow
  <1>7. ASSUME Cooldown!DeliveryFails \/ Cooldown!Vanish PROVE (KnownInv /\ AloneInv)'
    <2>1. /\ UNCHANGED <<community, minute, refusals>> /\ asker' = Cooldown!NoAsker
          /\ unsent' \subseteq unsent \cup {Cooldown!Delivery} /\ unsent \subseteq unsent'
      BY <1>7 DEF Cooldown!DeliveryFails, Cooldown!Vanish, Cooldown!SameClock, Cooldown!Keep
    <2>2. unsent = {} => Told(community')
      BY <1>1, <2>1
    <2> QED BY <1>1, <2>1, <2>2, EndsKnow
  <1>8. ASSUME NEW b \in unsent, Cooldown!Resubmit(b) PROVE (KnownInv /\ AloneInv)'
    <2>1. /\ community' = Cooldown!Merge(community, b) /\ UNCHANGED <<asker, unsent, minute, refusals>>
      BY <1>8 DEF Cooldown!Resubmit, Cooldown!SameClock
    <2>2. SubmittedOK(b) /\ b.base.success <= b.seen.success /\ b.seen.success <= minute
      BY NumbersAre DEF AnswersInv, KnownInv
    <2>3. /\ community'.success \in Nat /\ community'.success >= community.success
          /\ community'.success <= minute
      BY <2>1, <2>2, WriteTells
    <2>4. asker.base.success \in Nat /\ asker.start.success \in Nat
      BY NumbersAre DEF AnswersInv
    <2>5. KnownInv'
      BY <1>1, <2>1, <2>3, <2>4 DEF AnswersInv, KnownInv
    <2>6. AloneInv'
      BY <2>1 DEF AloneInv
    <2> QED BY <2>5, <2>6
  <1>9. ASSUME Cooldown!Tick PROVE (KnownInv /\ AloneInv)'
    <2>1. UNCHANGED <<community, asker, unsent, refusals>> /\ minute' \in Nat /\ minute <= minute'
      BY <1>1, <1>9 DEF Cooldown!Tick
    <2> QED BY <2>1, WaitKnows
  <1>10. ASSUME UNCHANGED Cooldown!cooldown PROVE (KnownInv /\ AloneInv)'
    BY <1>1, <1>10, WaitKnows DEF Cooldown!cooldown
  <1> QED
    BY <1>0, <1>2, <1>3, <1>4, <1>5, <1>6, <1>7, <1>8, <1>9, <1>10, SuccessKnows, SaveKnows
       DEF Cooldown!Next, AnswersInv

(* A worker's write: the success that was known stays, and a shorter deadline is one
   that a success has settled. *)
LEMMA WriteKeeps ==
  ASSUME AnswersInv, [Cooldown!Next]_(Cooldown!cooldown)
  PROVE  Cooldown!KeepsAnswers
  <1>1. community.success \in Nat /\ community.until \in Nat
    BY NumbersAre DEF AnswersInv
  <1>2. ASSUME community' = community PROVE Cooldown!KeepsAnswers
    BY <1>1, <1>2 DEF Cooldown!KeepsAnswers, Cooldown!KeepsFailure
  <1>3. ASSUME NEW b, SubmittedOK(b), b.base.success <= b.seen.success, b.seen.success <= minute,
               community' = Cooldown!Merge(community, b),
               unsent = {} => asker.pc # "idle" /\ b \in {Cooldown!Progress, Cooldown!Delivery}
        PROVE  Cooldown!KeepsAnswers
    <2> DEFINE m == Cooldown!Merge(community, b)
    <2>1. /\ m.success \in Nat /\ m.until \in Nat /\ m.success >= community.success
          /\ unsent = {} => Settles(community, m)
      BY <1>3, WriteTells
    <2> HIDE DEF m
    <2>2. community' = m
      BY <1>3 DEF m
    <2>3. ASSUME unsent = {} PROVE Cooldown!KeepsFailure
      BY <1>1, <2>1, <2>2, <2>3 DEF Cooldown!KeepsFailure, Cooldown!SetBy, Settles
    <2> QED BY <2>1, <2>2, <2>3 DEF Cooldown!KeepsAnswers
  <1>4. ASSUME NEW b \in {Cooldown!Progress, Cooldown!Delivery}, asker.pc # "idle",
               community' \in {community, Cooldown!Merge(community, b)}
        PROVE  Cooldown!KeepsAnswers
    BY <1>2, <1>3, <1>4, SubmitsKnow
  <1>5. ASSUME NEW b \in unsent, Cooldown!Resubmit(b) PROVE Cooldown!KeepsAnswers
    <2>1. SubmittedOK(b) /\ b.base.success <= b.seen.success /\ b.seen.success <= minute
          /\ community' = Cooldown!Merge(community, b)
      BY <1>5, NumbersAre DEF AnswersInv, KnownInv, Cooldown!Resubmit
    <2> QED BY <1>3, <2>1
  <1>6. CASE Cooldown!Save \/ \E accepted \in BOOLEAN : Cooldown!SaveFails(accepted)
    <2>1. asker.pc # "idle" /\ community' \in {community, Cooldown!Merge(community, Cooldown!Progress)}
      BY <1>6 DEF Cooldown!Save, Cooldown!SaveFails, Cooldown!Saving, Cooldown!AtStep
    <2> QED BY <1>4, <2>1
  <1>7. CASE Cooldown!Deliver
    <2>1. asker.pc # "idle" /\ community' \in {community, Cooldown!Merge(community, Cooldown!Delivery)}
      BY <1>7 DEF Cooldown!Deliver, Cooldown!AtStep
    <2> QED BY <1>4, <2>1
  <1>8. CASE \/ \E kind \in {"official", "override", "growth"} : Cooldown!Start(kind)
             \/ Cooldown!Ask \/ Cooldown!Succeed \/ Cooldown!NextItem \/ Cooldown!Stop
             \/ \E limited \in BOOLEAN, wait \in OfCooldown.Wait : Cooldown!Refused(limited, wait)
             \/ Cooldown!DeliveryFails \/ Cooldown!Vanish \/ Cooldown!Tick
             \/ UNCHANGED Cooldown!cooldown
    <2>1. community' = community
      BY <1>8 DEF Cooldown!Start, Cooldown!Ask, Cooldown!Succeed, Cooldown!NextItem, Cooldown!Stop,
                  Cooldown!Refused, Cooldown!DeliveryFails, Cooldown!Vanish, Cooldown!Tick,
                  Cooldown!cooldown
    <2> QED BY <1>2, <2>1
  <1> QED BY <1>5, <1>6, <1>7, <1>8 DEF Cooldown!Next

(* As long as no batch is kept, a shorter deadline is that of a success after a refusal
   that set it, whatever answers are lost; and no batch undoes a later success. *)
THEOREM AnswersKept == Cooldown!Spec => Cooldown!AnswersAreKept
  <1>1. Cooldown!Init => AnswersInv
    BY CoolStarts, AnswersStart, CooldownGiven DEF Cooldown!CooldownAssumption
  <1>2. AnswersInv /\ [Cooldown!Next]_(Cooldown!cooldown) => AnswersInv'
    BY AnswersSteps
  <1>3. AnswersInv /\ [Cooldown!Next]_(Cooldown!cooldown) => [Cooldown!KeepsAnswers]_(Cooldown!cooldown)
    BY WriteKeeps
  <1> QED BY <1>1, <1>2, <1>3, PTL DEF Cooldown!Spec, Cooldown!AnswersAreKept
--------------------------------------------------------------------------------
(* TwitchIntake *)

LEMMA TwitchGiven == Twitch!TwitchAssumption
  BY SteamQueuesAssumption

IsEvidence(r) ==
  r = [date |-> r.date, followers |-> r.followers, proof |-> r.proof, adult |-> r.adult]

(* Evidence was observed by now. *)
EvidenceOK(r, seen) ==
  /\ IsEvidence(r) /\ r.adult \in BOOLEAN /\ r.proof \in Nat /\ r.proof <= seen
  /\ r.date \in Nat /\ r.date <= seen /\ r.followers \in Nat /\ r.followers <= seen
MasterOK(rows, seen) ==
  /\ rows = [a \in OfTwitch.Title |-> rows[a]]
  /\ \A a \in OfTwitch.Title : EvidenceOK(rows[a], seen)
ProofsOK(proofs, seen) ==
  /\ proofs = [a \in OfTwitch.Title |-> proofs[a]]
  /\ \A a \in OfTwitch.Title : proofs[a] \in Nat /\ proofs[a] <= seen
CooldownOK(c) ==
  c = [retry |-> c.retry, updated |-> c.updated] /\ c.retry \in 0..(OfTwitch.MaxTime + 3)

BatchOK(b, seen) ==
  /\ b = [at |-> b.at, records |-> b.records, states |-> b.states, cooldown |-> b.cooldown]
  /\ b.at \in Nat /\ b.at <= seen /\ MasterOK(b.records, seen) /\ CooldownOK(b.cooldown)

IsIntake(j) ==
  j = [pc |-> j.pc, todo |-> j.todo, proofs |-> j.proofs, rows |-> j.rows, states |-> j.states,
       blocked |-> j.blocked, batch |-> j.batch]
NoRecords(j) == \A a \in OfTwitch.Title : j.batch.records[a].date = 0
IntakeOK(j, seen) ==
  /\ IsIntake(j) /\ MasterOK(j.rows, seen) /\ ProofsOK(j.proofs, seen) /\ BatchOK(j.batch, seen)
  /\ j.pc = "dispatch" => NoRecords(j)

(* A dispatch has receipts to save, and no rows. *)
TwitchInv ==
  /\ time \in 1..OfTwitch.MaxTime /\ ProofsOK(discovered, time) /\ MasterOK(master, time)
  /\ CooldownOK(steam) /\ adult \subseteq OfTwitch.Title
  /\ IntakeOK(job, time)

LEMMA RowsLater ==
  ASSUME NEW seen \in Nat, NEW then \in Nat, seen <= then, NEW rows, MasterOK(rows, seen)
  PROVE  MasterOK(rows, then)
  <1>1. \A a \in OfTwitch.Title : EvidenceOK(rows[a], seen)
    BY DEF MasterOK
  <1>2. ASSUME NEW r, EvidenceOK(r, seen) PROVE EvidenceOK(r, then)
    BY <1>2 DEF EvidenceOK
  <1> QED BY <1>1, <1>2 DEF MasterOK

LEMMA ProofsLater ==
  ASSUME NEW seen \in Nat, NEW then \in Nat, seen <= then, NEW proofs, ProofsOK(proofs, seen)
  PROVE  ProofsOK(proofs, then)
  BY DEF ProofsOK

LEMMA JobLater ==
  ASSUME NEW seen \in Nat, NEW then \in Nat, seen <= then, NEW j, IntakeOK(j, seen)
  PROVE  IntakeOK(j, then)
  <1>1. MasterOK(j.rows, then) /\ MasterOK(j.batch.records, then)
    BY RowsLater DEF IntakeOK, BatchOK
  <1>2. BatchOK(j.batch, then)
    BY <1>1 DEF IntakeOK, BatchOK
  <1>3. ProofsOK(j.proofs, then)
    BY ProofsLater DEF IntakeOK
  <1> QED BY <1>1, <1>2, <1>3 DEF IntakeOK

LEMMA NoRowsAre ==
  ASSUME NEW seen \in Nat
  PROVE  /\ MasterOK([a \in OfTwitch.Title |-> Twitch!NoRow], seen)
         /\ \A a \in OfTwitch.Title : [b \in OfTwitch.Title |-> Twitch!NoRow][a].date = 0
  <1>1. EvidenceOK(Twitch!NoRow, seen) /\ Twitch!NoRow.date = 0
    <2>1. IsEvidence(Twitch!NoRow) /\ Twitch!NoRow.adult \in BOOLEAN
      BY DEF Twitch!NoRow, IsEvidence
    <2>2. Twitch!NoRow.date = 0 /\ Twitch!NoRow.proof = 0 /\ Twitch!NoRow.followers = 0
      BY DEF Twitch!NoRow
    <2> QED BY <2>1, <2>2 DEF EvidenceOK
  <1> QED BY <1>1 DEF MasterOK

LEMMA NoBatchIs ==
  ASSUME NEW seen \in Nat
  PROVE  /\ BatchOK(Twitch!NoBatch, seen)
         /\ \A a \in OfTwitch.Title : Twitch!NoBatch.records[a].date = 0
         /\ Twitch!NoBatch.states = [a \in OfTwitch.Title |-> Twitch!NoUpdate]
  <1> DEFINE records == [a \in OfTwitch.Title |-> Twitch!NoRow]
             states == [a \in OfTwitch.Title |-> Twitch!NoUpdate]
             cooldown == [retry |-> 0, updated |-> 0]
  <1>1. MasterOK(records, seen) /\ \A a \in OfTwitch.Title : records[a].date = 0
    BY NoRowsAre
  <1>2. CooldownOK(cooldown)
    BY TwitchGiven DEF CooldownOK, Twitch!TwitchAssumption
  <1>3. Twitch!NoBatch = [at |-> 0, records |-> records, states |-> states, cooldown |-> cooldown]
    BY DEF Twitch!NoBatch
  <1> HIDE DEF records, states, cooldown
  <1> QED BY <1>1, <1>2, <1>3 DEF BatchOK, states

LEMMA NoJobIs ==
  ASSUME NEW seen \in Nat, NEW label
  PROVE  LET with == [Twitch!NoJob EXCEPT !.pc = label]
         IN /\ IntakeOK(Twitch!NoJob, seen) /\ Twitch!NoJob.pc = "idle" /\ Twitch!NoJob.todo = {}
            /\ Twitch!NoJob.batch.states = [a \in OfTwitch.Title |-> Twitch!NoUpdate]
            /\ IntakeOK(with, seen) /\ with.pc = label /\ with.todo = {}
            /\ with.batch.states = [a \in OfTwitch.Title |-> Twitch!NoUpdate]
  <1> DEFINE zero == [a \in OfTwitch.Title |-> 0]
             rows == [a \in OfTwitch.Title |-> Twitch!NoRow]
             states == [a \in OfTwitch.Title |-> Twitch!NoState]
             none == {}
             with == [Twitch!NoJob EXCEPT !.pc = label]
  <1>1. Twitch!NoJob =
                [pc |-> "idle", todo |-> none, proofs |-> zero, rows |-> rows, states |-> states,
                 blocked |-> none, batch |-> Twitch!NoBatch]
    BY DEF Twitch!NoJob
  <1>2. MasterOK(rows, seen)
    BY NoRowsAre
  <1>3. ProofsOK(zero, seen)
    BY DEF ProofsOK
  <1>4. /\ BatchOK(Twitch!NoBatch, seen)
        /\ \A a \in OfTwitch.Title : Twitch!NoBatch.records[a].date = 0
        /\ Twitch!NoBatch.states = [a \in OfTwitch.Title |-> Twitch!NoUpdate]
    BY NoBatchIs
  <1>5. with = [Twitch!NoJob EXCEPT !.pc = label]
    OBVIOUS
  <1> HIDE DEF zero, rows, states, none, with
  <1>6. with = [pc |-> label, todo |-> none, proofs |-> zero, rows |-> rows, states |-> states,
                blocked |-> none, batch |-> Twitch!NoBatch]
    BY <1>1, <1>5
  <1>7. IntakeOK(Twitch!NoJob, seen)
    BY <1>1, <1>2, <1>3, <1>4 DEF IntakeOK, IsIntake, NoRecords
  <1>8. IntakeOK(with, seen)
    BY <1>2, <1>3, <1>4, <1>6 DEF IntakeOK, IsIntake, NoRecords
  <1>9. /\ Twitch!NoJob.pc = "idle" /\ Twitch!NoJob.todo = none /\ Twitch!NoJob.batch = Twitch!NoBatch
        /\ with.pc = label /\ with.todo = none /\ with.batch = Twitch!NoBatch
    BY <1>1, <1>6
  <1> QED BY <1>4, <1>7, <1>8, <1>9 DEF with, none
--------------------------------------------------------------------------------
(* Nothing is applied: what the job does has no effect on the master. *)
LEMMA Still ==
  ASSUME TwitchInv, UNCHANGED <<master, adult, discovered, steam>>,
         time' \in 1..OfTwitch.MaxTime, time <= time',
         IntakeOK(job', time')
  PROVE  TwitchInv' /\ Twitch!KeepsEvidence
  <1>1. MasterOK(master, time') /\ ProofsOK(discovered, time')
    BY RowsLater, ProofsLater DEF TwitchInv
  <1>2. /\ CooldownOK(steam) /\ steam.retry \in Nat /\ adult \subseteq OfTwitch.Title
        /\ \A a \in OfTwitch.Title : /\ master[a].date \in Nat /\ master[a].followers \in Nat
                                     /\ master[a].proof \in Nat
    BY DEF TwitchInv, MasterOK, EvidenceOK, CooldownOK
  <1>3. Twitch!KeepsEvidence
    BY <1>2 DEF Twitch!KeepsEvidence
  <1>4. TwitchInv'
    BY <1>1, <1>2 DEF TwitchInv
  <1> QED BY <1>3, <1>4

(* Other workflows observe what is, now. *)
LEMMA OthersKeep ==
  ASSUME TwitchInv, NEW a \in OfTwitch.Title,
         \/ Twitch!Discover(a) \/ Twitch!Expire(a) \/ Twitch!Audit(a)
         \/ \E what \in {"date", "followers", "adult"} : Twitch!Observe(a, what)
  PROVE  TwitchInv' /\ Twitch!KeepsEvidence
  <1>1. /\ time' = time + 1 /\ time \in Nat /\ job' = job /\ steam' = steam
        /\ time' \in 1..OfTwitch.MaxTime /\ adult' \subseteq OfTwitch.Title
        /\ CooldownOK(steam) /\ steam.retry \in Nat /\ ProofsOK(discovered, time)
        /\ MasterOK(master, time) /\ IntakeOK(job, time)
    BY TwitchGiven DEF Twitch!Discover, Twitch!Expire, Twitch!Audit, Twitch!Observe,
       Twitch!Update, Twitch!Later, TwitchInv, CooldownOK, Twitch!TwitchAssumption
  <1>2. MasterOK(master, time') /\ IntakeOK(job, time') /\ ProofsOK(discovered, time')
    BY <1>1, RowsLater, JobLater, ProofsLater
  <1>3. \A b \in OfTwitch.Title : /\ master[b].date \in Nat /\ master[b].followers \in Nat
                                  /\ master[b].proof \in Nat
    BY <1>1 DEF MasterOK, EvidenceOK
  <1>4. CASE Twitch!Discover(a) \/ Twitch!Expire(a) \/ Twitch!Audit(a)
    <2>1. master' = master
      BY <1>4 DEF Twitch!Discover, Twitch!Expire, Twitch!Audit
    <2>2. ProofsOK(discovered', time')
      BY <1>1, <1>2, <1>4 DEF Twitch!Discover, Twitch!Expire, Twitch!Audit, ProofsOK
    <2>3. Twitch!KeepsEvidence
      BY <1>1, <1>3, <2>1 DEF Twitch!KeepsEvidence
    <2> QED BY <1>1, <1>2, <2>1, <2>2, <2>3 DEF TwitchInv
  <1>5. CASE \E what \in {"date", "followers", "adult"} : Twitch!Observe(a, what)
    <2>1. PICK what \in {"date", "followers", "adult"} : Twitch!Observe(a, what)
      BY <1>5
    <2> DEFINE seen == time'
               yes == TRUE
               found == CASE what = "date" -> [master[a] EXCEPT !.date = seen]
                               [] what = "followers" -> [master[a] EXCEPT !.followers = seen]
                               [] what = "adult" -> [master[a] EXCEPT !.adult = yes]
    <2>2. master' = [master EXCEPT ![a] = found] /\ discovered' = discovered
      BY <2>1 DEF Twitch!Observe
    <2>3. EvidenceOK(master[a], time)
      BY <1>1 DEF MasterOK
    <2>4. PICK d, f, p, u : master[a] = [date |-> d, followers |-> f, proof |-> p, adult |-> u]
      BY <2>3, Zenon DEF EvidenceOK, IsEvidence
    <2>5. /\ d = master[a].date /\ f = master[a].followers /\ p = master[a].proof
          /\ u = master[a].adult
      BY <2>4
    <2>12. \/ found = [master[a] EXCEPT !.date = seen]
           \/ found = [master[a] EXCEPT !.followers = seen]
           \/ found = [master[a] EXCEPT !.adult = yes]
      BY <2>1
    <2> HIDE DEF found, yes
    <2>6. \/ found = [date |-> seen, followers |-> f, proof |-> p, adult |-> u]
          \/ found = [date |-> d, followers |-> seen, proof |-> p, adult |-> u]
          \/ found = [date |-> d, followers |-> f, proof |-> p, adult |-> yes]
      <3>1. CASE found = [master[a] EXCEPT !.date = seen]
        BY <2>4, <3>1
      <3>2. CASE found = [master[a] EXCEPT !.followers = seen]
        BY <2>4, <3>2
      <3>3. CASE found = [master[a] EXCEPT !.adult = yes]
        BY <2>4, <3>3
      <3> QED BY <2>12, <3>1, <3>2, <3>3
    <2>7. seen \in Nat /\ time <= seen
      BY <1>1
    <2> HIDE DEF seen
    <2>8. /\ EvidenceOK(found, seen) /\ found.date >= d /\ found.followers >= f /\ found.proof = p
          /\ u => found.adult
      <3>1. EvidenceOK(master[a], seen) /\ EvidenceOK(master[a], time)
        BY <1>2, <2>3 DEF MasterOK, seen
      <3>2. /\ d \in Nat /\ d <= seen /\ f \in Nat /\ f <= seen /\ p \in Nat /\ p <= seen /\ u \in BOOLEAN
        BY <2>5, <3>1 DEF EvidenceOK
      <3>3. CASE found = [date |-> seen, followers |-> f, proof |-> p, adult |-> u]
        <4>1. /\ IsEvidence(found) /\ found.date = seen /\ found.followers = f
              /\ found.proof = p /\ found.adult = u
          BY <3>3 DEF IsEvidence
        <4> QED BY <2>7, <3>2, <4>1 DEF EvidenceOK
      <3>4. CASE found = [date |-> d, followers |-> seen, proof |-> p, adult |-> u]
        <4>1. /\ IsEvidence(found) /\ found.date = d /\ found.followers = seen
              /\ found.proof = p /\ found.adult = u
          BY <3>4 DEF IsEvidence
        <4> QED BY <2>7, <3>2, <4>1 DEF EvidenceOK
      <3>5. CASE found = [date |-> d, followers |-> f, proof |-> p, adult |-> yes]
        <4>1. /\ IsEvidence(found) /\ found.date = d /\ found.followers = f /\ found.proof = p
              /\ found.adult /\ found.adult \in BOOLEAN
          BY <3>5 DEF IsEvidence, yes
        <4> QED BY <2>7, <3>2, <4>1 DEF EvidenceOK
      <3> QED BY <2>6, <3>3, <3>4, <3>5
    <2>9. master' = [b \in OfTwitch.Title |-> IF b = a THEN found ELSE master[b]]
      BY <1>1, <2>2 DEF MasterOK
    <2>10. MasterOK(master', seen)
      BY <1>2, <2>8, <2>9 DEF MasterOK, seen
    <2>11. Twitch!KeepsEvidence
      BY <1>1, <1>3, <2>5, <2>8, <2>9 DEF Twitch!KeepsEvidence
    <2> QED BY <1>1, <1>2, <2>2, <2>10, <2>11 DEF TwitchInv, seen
  <1> QED BY <1>4, <1>5
--------------------------------------------------------------------------------
(* A game that is dealt with has a state in the batch, and nothing else. *)
LEMMA RecordedAre ==
  ASSUME NEW seen \in Nat, IntakeOK(job, seen), NEW answer, NEW a
  PROVE  LET r == Twitch!Recorded(answer, a)
             s == Twitch!Stopped(answer, a)
         IN /\ IntakeOK(r, seen) /\ r.batch.records = job.batch.records /\ r.pc = job.pc
            /\ IntakeOK(s, seen) /\ s.batch.records = job.batch.records /\ s.pc = job.pc
            /\ r.batch.states = [job.batch.states EXCEPT ![a] = answer]
            /\ s.batch.states = [job.batch.states EXCEPT ![a] = answer]
            /\ r.todo = job.todo \ {a} /\ s.todo = {}
  <1> DEFINE r == Twitch!Recorded(answer, a)
             s == Twitch!Stopped(answer, a)
             todo == job.todo \ {a}
             none == {}
             states == [job.batch.states EXCEPT ![a] = answer]
  <1>1. PICK label, t, q, w, n, k, b :
          job = [pc |-> label, todo |-> t, proofs |-> q, rows |-> w, states |-> n, blocked |-> k,
                 batch |-> b]
    BY Zenon DEF IntakeOK, IsIntake
  <1>2. PICK at, e, g, c : b = [at |-> at, records |-> e, states |-> g, cooldown |-> c]
    <2>1. BatchOK(b, seen)
      BY <1>1 DEF IntakeOK
    <2> QED BY <2>1, Zenon DEF BatchOK
  <1>3. r = [job EXCEPT !.todo = todo, !.batch = [job.batch EXCEPT !.states = states]]
    BY <1>1, <1>2 DEF Twitch!Recorded
  <1>4. s = [r EXCEPT !.todo = none]
    BY DEF Twitch!Stopped
  <1> HIDE DEF r, s, todo, states, none
  <1> DEFINE parcel == [at |-> at, records |-> e, states |-> states, cooldown |-> c]
  <1>5. r = [pc |-> label, todo |-> todo, proofs |-> q, rows |-> w, states |-> n, blocked |-> k,
             batch |-> parcel]
    BY <1>1, <1>2, <1>3
  <1>6. s = [pc |-> label, todo |-> none, proofs |-> q, rows |-> w, states |-> n, blocked |-> k,
             batch |-> parcel]
    BY <1>4, <1>5
  <1>7. MasterOK(w, seen) /\ ProofsOK(q, seen) /\ BatchOK(b, seen) /\ job.pc = label /\ job.batch = b
    BY <1>1 DEF IntakeOK
  <1>8. b.records = e /\ (label = "dispatch" => \A x \in OfTwitch.Title : e[x].date = 0)
    BY <1>1, <1>2 DEF IntakeOK, NoRecords
  <1>9. BatchOK(parcel, seen) /\ parcel.records = e /\ parcel.states = states
    BY <1>2, <1>7 DEF BatchOK
  <1> HIDE DEF parcel
  <1>10. IsIntake(r) /\ r.rows = w /\ r.proofs = q /\ r.batch = parcel /\ r.pc = label /\ r.todo = todo
    BY <1>5 DEF IsIntake
  <1>11. IsIntake(s) /\ s.rows = w /\ s.proofs = q /\ s.batch = parcel /\ s.pc = label /\ s.todo = none
    BY <1>6 DEF IsIntake
  <1>12. IntakeOK(r, seen)
    BY <1>7, <1>8, <1>9, <1>10 DEF IntakeOK, NoRecords
  <1>13. IntakeOK(s, seen)
    BY <1>7, <1>8, <1>9, <1>11 DEF IntakeOK, NoRecords
  <1> QED BY <1>7, <1>8, <1>9, <1>10, <1>11, <1>12, <1>13 DEF r, s, states, todo, none

LEMMA RecordedIs ==
  ASSUME NEW seen \in Nat, IntakeOK(job, seen), NEW answer, NEW a
  PROVE  /\ IntakeOK(Twitch!Recorded(answer, a), seen)
         /\ Twitch!Recorded(answer, a).batch.records = job.batch.records
         /\ Twitch!Recorded(answer, a).pc = job.pc
         /\ IntakeOK(Twitch!Stopped(answer, a), seen)
         /\ Twitch!Stopped(answer, a).batch.records = job.batch.records
         /\ Twitch!Stopped(answer, a).pc = job.pc
  <1>1. LET r == Twitch!Recorded(answer, a)
            s == Twitch!Stopped(answer, a)
        IN /\ IntakeOK(r, seen) /\ r.batch.records = job.batch.records /\ r.pc = job.pc
           /\ IntakeOK(s, seen) /\ s.batch.records = job.batch.records /\ s.pc = job.pc
           /\ r.batch.states = [job.batch.states EXCEPT ![a] = answer]
           /\ s.batch.states = [job.batch.states EXCEPT ![a] = answer]
           /\ r.todo = job.todo \ {a} /\ s.todo = {}
    BY RecordedAre
  <1> QED BY <1>1, Zenon

LEMMA TodoIs ==
  ASSUME NEW seen \in Nat, IntakeOK(job, seen), NEW todo
  PROVE  LET r == [job EXCEPT !.todo = todo]
         IN IntakeOK(r, seen) /\ r.batch = job.batch /\ r.pc = job.pc /\ r.todo = todo
  <1> DEFINE r == [job EXCEPT !.todo = todo]
  <1>1. PICK label, t, q, w, n, k, b :
          job = [pc |-> label, todo |-> t, proofs |-> q, rows |-> w, states |-> n, blocked |-> k,
                 batch |-> b]
    BY Zenon DEF IntakeOK, IsIntake
  <1>2. r = [job EXCEPT !.todo = todo]
    OBVIOUS
  <1> HIDE DEF r
  <1>3. r = [pc |-> label, todo |-> todo, proofs |-> q, rows |-> w, states |-> n, blocked |-> k,
             batch |-> b]
    BY <1>1, <1>2
  <1>4. /\ IsIntake(r) /\ r.rows = job.rows /\ r.proofs = job.proofs /\ r.batch = job.batch
        /\ r.pc = job.pc /\ r.todo = todo
    BY <1>1, <1>3 DEF IsIntake
  <1>5. IntakeOK(r, seen)
    BY <1>4 DEF IntakeOK, NoRecords
  <1> QED BY <1>4, <1>5 DEF r

(* Another part of the batch: its records, or the cooldown it was met with. *)
LEMMA BatchAre ==
  ASSUME NEW seen \in Nat, NEW j, IntakeOK(j, seen), j.pc # "dispatch",
         NEW records, MasterOK(records, seen), NEW cooldown, CooldownOK(cooldown)
  PROVE  LET r == [j EXCEPT !.batch.records = records]
             s == [j EXCEPT !.batch.cooldown = cooldown]
         IN /\ IntakeOK(r, seen) /\ r.batch.states = j.batch.states /\ r.pc = j.pc /\ r.todo = j.todo
            /\ IntakeOK(s, seen) /\ s.batch.states = j.batch.states /\ s.pc = j.pc /\ s.todo = j.todo
  <1> DEFINE r == [j EXCEPT !.batch.records = records]
             s == [j EXCEPT !.batch.cooldown = cooldown]
  <1>1. PICK label, t, q, w, n, k, b :
          j = [pc |-> label, todo |-> t, proofs |-> q, rows |-> w, states |-> n, blocked |-> k,
               batch |-> b]
    BY Zenon DEF IntakeOK, IsIntake
  <1>2. PICK at, e, g, c : b = [at |-> at, records |-> e, states |-> g, cooldown |-> c]
    <2>1. BatchOK(b, seen)
      BY <1>1 DEF IntakeOK
    <2> QED BY <2>1, Zenon DEF BatchOK
  <1> DEFINE br == [at |-> at, records |-> records, states |-> g, cooldown |-> c]
             bs == [at |-> at, records |-> e, states |-> g, cooldown |-> cooldown]
  <1>3. /\ r = [j EXCEPT !.batch.records = records]
        /\ s = [j EXCEPT !.batch.cooldown = cooldown]
    OBVIOUS
  <1> HIDE DEF r, s
  <1>4. r = [pc |-> label, todo |-> t, proofs |-> q, rows |-> w, states |-> n, blocked |-> k,
             batch |-> br]
    BY <1>1, <1>2, <1>3
  <1>5. s = [pc |-> label, todo |-> t, proofs |-> q, rows |-> w, states |-> n, blocked |-> k,
             batch |-> bs]
    BY <1>1, <1>2, <1>3
  <1>6. MasterOK(w, seen) /\ ProofsOK(q, seen) /\ BatchOK(b, seen) /\ label # "dispatch"
    BY <1>1 DEF IntakeOK
  <1>7. BatchOK(br, seen) /\ BatchOK(bs, seen) /\ br.states = b.states /\ bs.states = b.states
    BY <1>2, <1>6 DEF BatchOK
  <1> HIDE DEF br, bs
  <1>8. IsIntake(r) /\ r.rows = w /\ r.proofs = q /\ r.batch = br /\ r.pc = label /\ r.todo = t
    BY <1>4 DEF IsIntake
  <1>9. IsIntake(s) /\ s.rows = w /\ s.proofs = q /\ s.batch = bs /\ s.pc = label /\ s.todo = t
    BY <1>5 DEF IsIntake
  <1>12. j.pc = label /\ j.todo = t /\ j.batch = b
    BY <1>1
  <1>10. IntakeOK(r, seen)
    BY <1>6, <1>7, <1>8 DEF IntakeOK
  <1>11. IntakeOK(s, seen)
    BY <1>6, <1>7, <1>9 DEF IntakeOK
  <1> QED BY <1>7, <1>8, <1>9, <1>10, <1>11, <1>12 DEF r, s

LEMMA BatchIs ==
  ASSUME NEW seen \in Nat, NEW j, IntakeOK(j, seen), j.pc # "dispatch"
  PROVE  /\ \A records : MasterOK(records, seen)
              => IntakeOK([j EXCEPT !.batch.records = records], seen)
         /\ \A cooldown : CooldownOK(cooldown)
              => IntakeOK([j EXCEPT !.batch.cooldown = cooldown], seen)
  <1> USE DEF IntakeOK
  <1>1. ASSUME NEW records, MasterOK(records, seen)
        PROVE  IntakeOK([j EXCEPT !.batch.records = records], seen)
    <2>1. CooldownOK(j.batch.cooldown)
      BY DEF BatchOK
    <2> HIDE DEF IntakeOK
    <2> QED BY <1>1, <2>1, BatchAre, Zenon
  <1>2. ASSUME NEW cooldown, CooldownOK(cooldown)
        PROVE  IntakeOK([j EXCEPT !.batch.cooldown = cooldown], seen)
    <2>1. MasterOK(j.batch.records, seen)
      BY DEF BatchOK
    <2> HIDE DEF IntakeOK
    <2> QED BY <1>2, <2>1, BatchAre, Zenon
  <1> HIDE DEF IntakeOK
  <1> QED BY <1>1, <1>2, Zenon

(* What a job freezes is what there is. *)
AtCollect(todo, proofs, rows, states, barred, at, cooldown) ==
  [Twitch!NoJob EXCEPT !.pc = "collect", !.todo = todo, !.proofs = proofs, !.rows = rows,
     !.states = states, !.blocked = barred, !.batch.at = at, !.batch.cooldown = cooldown]
AtDispatch(todo, rows, states, at) ==
  [Twitch!NoJob EXCEPT !.pc = "dispatch", !.rows = rows, !.states = states, !.batch.at = at,
     !.todo = todo]

LEMMA FrozenAre ==
  ASSUME NEW seen \in Nat, NEW todo, NEW proofs, ProofsOK(proofs, seen), NEW rows, MasterOK(rows, seen),
         NEW states, NEW barred, NEW cooldown, CooldownOK(cooldown)
  PROVE  LET c == AtCollect(todo, proofs, rows, states, barred, seen, cooldown)
             d == AtDispatch(todo, rows, states, seen)
         IN /\ IntakeOK(c, seen) /\ c.pc = "collect" /\ c.todo = todo
            /\ c.batch.states = [a \in OfTwitch.Title |-> Twitch!NoUpdate]
            /\ IntakeOK(d, seen) /\ d.pc = "dispatch" /\ d.todo = todo
            /\ d.batch.states = [a \in OfTwitch.Title |-> Twitch!NoUpdate]
  <1> DEFINE c == AtCollect(todo, proofs, rows, states, barred, seen, cooldown)
             d == AtDispatch(todo, rows, states, seen)
             zero == [a \in OfTwitch.Title |-> 0]
             noRows == [a \in OfTwitch.Title |-> Twitch!NoRow]
             noStates == [a \in OfTwitch.Title |-> Twitch!NoState]
             none == {}
             updates0 == [a \in OfTwitch.Title |-> Twitch!NoUpdate]
             cooldown0 == [retry |-> 0, updated |-> 0]
  <1>1. /\ Twitch!NoJob = [pc |-> "idle", todo |-> none, proofs |-> zero, rows |-> noRows,
                    states |-> noStates, blocked |-> none, batch |-> Twitch!NoBatch]
        /\ Twitch!NoBatch = [at |-> 0, records |-> noRows, states |-> updates0,
                             cooldown |-> cooldown0]
    BY DEF Twitch!NoJob, Twitch!NoBatch
  <1>2. MasterOK(noRows, seen) /\ \A a \in OfTwitch.Title : noRows[a].date = 0
    BY NoRowsAre
  <1>3. ProofsOK(zero, seen)
    BY DEF ProofsOK
  <1>4. CooldownOK(cooldown0)
    BY TwitchGiven DEF CooldownOK, Twitch!TwitchAssumption
  <1>5. /\ c = [Twitch!NoJob EXCEPT !.pc = "collect", !.todo = todo, !.proofs = proofs,
                 !.rows = rows,
                  !.states = states, !.blocked = barred, !.batch.at = seen,
                  !.batch.cooldown = cooldown]
        /\ d = [Twitch!NoJob EXCEPT !.pc = "dispatch", !.rows = rows, !.states = states,
                  !.batch.at = seen, !.todo = todo]
    BY DEF AtCollect, AtDispatch
  <1> HIDE DEF zero, noRows, noStates, none, updates0, cooldown0, c, d
  <1> DEFINE bc == [at |-> seen, records |-> noRows, states |-> updates0, cooldown |-> cooldown]
             bd == [at |-> seen, records |-> noRows, states |-> updates0, cooldown |-> cooldown0]
  <1>6. c = [pc |-> "collect", todo |-> todo, proofs |-> proofs, rows |-> rows, states |-> states,
             blocked |-> barred, batch |-> bc]
    BY <1>1, <1>5
  <1>7. d = [pc |-> "dispatch", todo |-> todo, proofs |-> zero, rows |-> rows, states |-> states,
             blocked |-> none, batch |-> bd]
    BY <1>1, <1>5
  <1>8. /\ BatchOK(bc, seen) /\ BatchOK(bd, seen) /\ bd.records = noRows
        /\ bc.states = updates0 /\ bd.states = updates0
    BY <1>2, <1>4 DEF BatchOK
  <1> HIDE DEF bc, bd
  <1>9. IntakeOK(c, seen)
    BY <1>6, <1>8 DEF IntakeOK, IsIntake
  <1>10. IntakeOK(d, seen)
    BY <1>2, <1>3, <1>7, <1>8 DEF IntakeOK, IsIntake, NoRecords
  <1>11. /\ c.pc = "collect" /\ c.todo = todo /\ c.batch = bc
         /\ d.pc = "dispatch" /\ d.todo = todo /\ d.batch = bd
    BY <1>6, <1>7
  <1> QED BY <1>8, <1>9, <1>10, <1>11 DEF updates0, c, d
LEMMA FrozenIs ==
  ASSUME NEW seen \in Nat, NEW todo, NEW proofs, ProofsOK(proofs, seen), NEW rows, MasterOK(rows, seen),
         NEW states, NEW barred, NEW cooldown, CooldownOK(cooldown)
  PROVE  /\ IntakeOK(AtCollect(todo, proofs, rows, states, barred, seen, cooldown), seen)
         /\ IntakeOK(AtDispatch(todo, rows, states, seen), seen)
  BY FrozenAre
--------------------------------------------------------------------------------
LEMMA FreezesKeep ==
  ASSUME TwitchInv, Twitch!Start \/ Twitch!Freeze
  PROVE  TwitchInv' /\ Twitch!KeepsEvidence
  <1>1. /\ time' = time + 1 /\ time' \in 1..OfTwitch.MaxTime /\ time' \in Nat /\ time \in Nat
        /\ time <= time' /\ MasterOK(master, time)
    BY TwitchGiven DEF Twitch!Start, Twitch!Freeze, Twitch!Later, TwitchInv, Twitch!TwitchAssumption
  <1>2. MasterOK(master, time') /\ ProofsOK(discovered, time') /\ CooldownOK(steam)
    BY <1>1, RowsLater, ProofsLater DEF TwitchInv
  <1>3. UNCHANGED <<master, adult, discovered, steam>>
    BY DEF Twitch!Start, Twitch!Freeze, Twitch!World
  <1> DEFINE seen == time'
             collect == {a \in OfTwitch.Title : discovered[a] # 0}
             dispatch == {a \in OfTwitch.Title :
                            /\ intake[a].status = "accepted" /\ Twitch!Qualified(master[a])
                            /\ intake[a].sent # Twitch!Signature(master[a])}
  <1>4. CASE Twitch!Start
    <2>1. job' = AtCollect(collect, discovered, master, intake, adult, seen, steam)
      BY <1>4 DEF Twitch!Start, AtCollect
    <2> HIDE DEF seen, collect
    <2>2. IntakeOK(job', seen)
      BY <1>1, <1>2, <2>1, FrozenIs DEF seen
    <2> QED BY <1>1, <1>3, <2>2, Still DEF seen
  <1>5. CASE Twitch!Freeze
    <2>1. job' = AtDispatch(dispatch, master, intake, seen)
      BY <1>5 DEF Twitch!Freeze, AtDispatch
    <2> HIDE DEF seen, dispatch
    <2>2. IntakeOK(job', seen)
      BY <1>1, <1>2, <2>1, FrozenIs DEF seen
    <2> QED BY <1>1, <1>3, <2>2, Still DEF seen
  <1> QED BY <1>4, <1>5

LEMMA CollectsKeep ==
  ASSUME TwitchInv,
         \/ Twitch!Keep \/ Twitch!Postpone \/ Twitch!Cool
         \/ Twitch!Verify \/ Twitch!Exclude \/ Twitch!Fail
  PROVE  TwitchInv' /\ Twitch!KeepsEvidence
  <1>1. /\ UNCHANGED <<master, adult, discovered, steam>> /\ time' = time /\ time \in Nat /\ time \in 1..OfTwitch.MaxTime
        /\ IntakeOK(job, time) /\ job.pc = "collect"
    BY DEF Twitch!Keep, Twitch!Postpone, Twitch!Cool, Twitch!Verify, Twitch!Exclude,
       Twitch!Fail, Twitch!Asks, Twitch!Collecting, Twitch!World, Twitch!Calm, Twitch!Mishap,
       Twitch!At,
           TwitchInv
  <1>2. ASSUME NEW answer, NEW a
        PROVE  /\ IntakeOK(Twitch!Recorded(answer, a), time)
               /\ IntakeOK(Twitch!Stopped(answer, a), time)
    BY <1>1, RecordedIs
  <1>3. ASSUME NEW todo PROVE IntakeOK([job EXCEPT !.todo = todo], time)
    BY <1>1, TodoIs
  <1>4. CASE Twitch!Keep
    BY <1>1, <1>2, <1>3, <1>4, Still DEF Twitch!Keep
  <1>5. CASE Twitch!Postpone
    BY <1>1, <1>3, <1>5, Still DEF Twitch!Postpone
  <1>6. CASE Twitch!Cool
    BY <1>1, <1>2, <1>6, Still DEF Twitch!Cool
  <1>7. CASE Twitch!Exclude
    BY <1>1, <1>2, <1>7, Still DEF Twitch!Exclude
  <1>8. CASE Twitch!Fail
    BY <1>1, <1>2, <1>8, Still DEF Twitch!Fail
  <1>9. CASE Twitch!Verify
    <2> DEFINE a == Twitch!First
               at == job.batch.at
               proof == job.proofs[a]
               followers == job.rows[a].followers
               found == [Twitch!NoRow EXCEPT !.date = at, !.proof = proof, !.followers = followers]
               r == Twitch!Recorded(Twitch!Accepted(a, found), a)
               records == [job.batch.records EXCEPT ![a] = found]
    <2>1. job' = [r EXCEPT !.batch.records[a] = found]
      BY <1>9 DEF Twitch!Verify
    <2>2. IntakeOK(r, time) /\ r.batch.records = job.batch.records /\ r.pc = job.pc
      BY <1>1, RecordedIs
    <2>11. found = [Twitch!NoRow EXCEPT !.date = at, !.proof = proof, !.followers = followers]
      OBVIOUS
    <2>4. at \in Nat /\ at <= time
      BY <1>1 DEF IntakeOK, BatchOK
    <2>5. a \in OfTwitch.Title => /\ proof \in Nat /\ proof <= time /\ followers \in Nat /\ followers <= time
      BY <1>1 DEF IntakeOK, ProofsOK, MasterOK, EvidenceOK
    <2> HIDE DEF at, proof, followers, a, found, r
    <2>3. found = [date |-> at, followers |-> followers, proof |-> proof, adult |-> FALSE]
      BY <2>11 DEF Twitch!NoRow
    <2>6. a \in OfTwitch.Title => EvidenceOK(found, time)
      <3>1. /\ IsEvidence(found) /\ found.adult \in BOOLEAN /\ found.date = at
            /\ found.followers = followers /\ found.proof = proof
        BY <2>3 DEF IsEvidence
      <3> QED BY <2>4, <2>5, <3>1 DEF EvidenceOK
    <2>7. MasterOK(records, time)
      <3>1. MasterOK(job.batch.records, time)
        BY <1>1 DEF IntakeOK, BatchOK
      <3>2. records = [b \in OfTwitch.Title |-> IF b = a THEN found ELSE job.batch.records[b]]
        BY <3>1 DEF MasterOK
      <3> QED BY <2>6, <3>1, <3>2 DEF MasterOK
    <2>8. job' = [r EXCEPT !.batch.records = records]
      <3>1. [r EXCEPT !.batch.records[a] = found]
              = [r EXCEPT !.batch.records = [r.batch.records EXCEPT ![a] = found]]
        OBVIOUS
      <3> QED BY <2>1, <2>2, <3>1
    <2> HIDE DEF records
    <2>9. CooldownOK([retry |-> 0, updated |-> 0])
      BY TwitchGiven DEF CooldownOK, Twitch!TwitchAssumption
    <2>10. IntakeOK(job', time)
      BY <1>1, <2>2, <2>7, <2>8, <2>9, BatchIs
    <2> QED BY <1>1, <2>10, Still
  <1> QED BY <1>4, <1>5, <1>6, <1>7, <1>8, <1>9

LEMMA LimitKeeps ==
  ASSUME TwitchInv, NEW wait \in {1, 3}, Twitch!Limit(wait)
  PROVE  TwitchInv' /\ Twitch!KeepsEvidence
  <1>1. /\ UNCHANGED <<master, adult, discovered, steam>> /\ time' = time + 1 /\ time \in Nat
        /\ time' \in 1..OfTwitch.MaxTime /\ IntakeOK(job, time) /\ job.pc = "collect"
    BY TwitchGiven DEF Twitch!TwitchAssumption, Twitch!Limit, Twitch!Asks, Twitch!Collecting, Twitch!World, Twitch!Later,
       Twitch!At, TwitchInv
  <1> DEFINE retry == time' + wait
             seen == time'
             cooldown == [retry |-> retry, updated |-> seen]
             answer == [Twitch!Pending(Twitch!First) EXCEPT !.retry = retry, !.updated = seen]
             r == Twitch!Stopped(answer, Twitch!First)
  <1>2. job' = [r EXCEPT !.batch.cooldown = cooldown]
    BY DEF Twitch!Limit
  <1>3. seen \in Nat /\ time <= seen /\ retry \in 0..(OfTwitch.MaxTime + 3)
    BY <1>1, TwitchGiven DEF Twitch!TwitchAssumption
  <1> HIDE DEF answer, seen, retry
  <1>4. CooldownOK(cooldown)
    BY <1>3 DEF CooldownOK
  <1>5. IntakeOK(r, time) /\ r.batch.records = job.batch.records /\ r.pc = job.pc
    BY <1>1, RecordedIs
  <1>6. MasterOK(r.batch.records, time)
    BY <1>5 DEF IntakeOK, BatchOK
  <1> HIDE DEF r, cooldown
  <1>7. IntakeOK(job', time)
    BY <1>1, <1>2, <1>4, <1>5, <1>6, BatchIs
  <1>8. IntakeOK(job', seen)
    BY <1>1, <1>3, <1>7, JobLater
  <1> QED BY <1>1, <1>3, <1>8, Still DEF seen

LEMMA PostKeeps ==
  ASSUME TwitchInv, NEW sent \in BOOLEAN, NEW answered \in BOOLEAN, Twitch!Post(sent, answered)
  PROVE  TwitchInv' /\ Twitch!KeepsEvidence
  <1>1. /\ UNCHANGED <<master, adult, discovered, steam>> /\ time' = time /\ time \in Nat /\ time \in 1..OfTwitch.MaxTime
        /\ IntakeOK(job, time) /\ \E answer, a : job' = Twitch!Recorded(answer, a)
    BY DEF Twitch!Post, TwitchInv
  <1>2. IntakeOK(job', time)
    BY <1>1, RecordedIs
  <1> QED BY <1>1, <1>2, Still

(* Each field of a row is the later of the two. *)
LEMMA AdmittedIs ==
  ASSUME NEW seen \in Nat, NEW current, EvidenceOK(current, seen),
         NEW found, EvidenceOK(found, seen)
  PROVE  LET r == Twitch!Admitted(current, found)
         IN /\ EvidenceOK(r, seen) /\ r.date >= current.date /\ r.followers >= current.followers
            /\ r.proof >= current.proof /\ (current.adult => r.adult)
            /\ (found.date = 0 \/ current.adult) => r = current
  <1> DEFINE r == Twitch!Admitted(current, found)
  <1>1. CASE found.date = 0 \/ current.adult
    <2>1. r = current
      BY <1>1 DEF Twitch!Admitted
    <2> QED BY <2>1 DEF EvidenceOK
  <1>2. CASE ~(found.date = 0 \/ current.adult)
    <2> DEFINE d == Twitch!Newest(current.date, found.date)
               p == Twitch!Newest(current.proof, found.proof)
               f == Twitch!Newest(current.followers, found.followers)
    <2>1. r = [found EXCEPT !.date = d, !.proof = p, !.followers = f]
      BY <1>2 DEF Twitch!Admitted, Twitch!Merges
    <2>2. /\ d \in Nat /\ d <= seen /\ d >= current.date /\ p \in Nat /\ p <= seen /\ p >= current.proof
          /\ f \in Nat /\ f <= seen /\ f >= current.followers
      BY DEF Twitch!Newest, EvidenceOK
    <2>3. PICK rd, rf, rp, u : found = [date |-> rd, followers |-> rf, proof |-> rp, adult |-> u]
      BY Zenon DEF EvidenceOK, IsEvidence
    <2> HIDE DEF d, p, f, r
    <2>4. r = [date |-> d, followers |-> f, proof |-> p, adult |-> u]
      BY <2>1, <2>3
    <2>5. IsEvidence(r) /\ r.date = d /\ r.followers = f /\ r.proof = p /\ r.adult = found.adult
      BY <2>3, <2>4 DEF IsEvidence
    <2>6. EvidenceOK(r, seen)
      BY <2>2, <2>5 DEF EvidenceOK
    <2> QED BY <1>2, <2>2, <2>5, <2>6 DEF r
  <1> QED BY <1>1, <1>2

(* A batch is applied: it admits no audited game, and shortens no deadline. *)
LEMMA AppliedKeeps ==
  ASSUME TwitchInv, NEW next, Twitch!Applied(next), time' = time,
         \A a \in adult : a \in OfTwitch.Title => job.batch.records[a].date = 0
  PROVE  TwitchInv' /\ Twitch!KeepsEvidence
  <1>1. /\ time \in Nat /\ MasterOK(master, time) /\ MasterOK(job.batch.records, time)
        /\ CooldownOK(steam) /\ CooldownOK(job.batch.cooldown) /\ ProofsOK(discovered, time)
        /\ discovered' = discovered
    BY DEF TwitchInv, IntakeOK, BatchOK, Twitch!Applied
  <1>2. /\ master' = [a \in OfTwitch.Title |-> Twitch!Admitted(master[a], job.batch.records[a])]
        /\ steam' = Twitch!Cooled(steam, job.batch.cooldown)
        /\ job' = [Twitch!NoJob EXCEPT !.pc = next]
    BY DEF Twitch!Applied
  <1>3. ASSUME NEW a \in OfTwitch.Title
        PROVE  /\ EvidenceOK(master'[a], time)
               /\ master'[a].date >= master[a].date /\ master'[a].followers >= master[a].followers
               /\ master'[a].proof >= master[a].proof /\ (master[a].adult => master'[a].adult)
               /\ (job.batch.records[a].date = 0 \/ master[a].adult) => master'[a] = master[a]
    <2>1. EvidenceOK(master[a], time) /\ EvidenceOK(job.batch.records[a], time)
      BY <1>1 DEF MasterOK
    <2>2. master'[a] = Twitch!Admitted(master[a], job.batch.records[a])
      BY <1>2
    <2> QED BY <1>1, <2>1, <2>2, AdmittedIs
  <1>4. MasterOK(master', time)
    BY <1>2, <1>3 DEF MasterOK
  <1>5. CooldownOK(steam') /\ steam'.retry >= steam.retry
    <2> DEFINE c == job.batch.cooldown
               retry == Twitch!Newest(steam.retry, c.retry)
    <2>1. /\ steam.retry \in 0..(OfTwitch.MaxTime + 3) /\ c.retry \in 0..(OfTwitch.MaxTime + 3)
          /\ OfTwitch.MaxTime \in Nat
      BY <1>1, TwitchGiven DEF CooldownOK, Twitch!TwitchAssumption
    <2>2. steam' = steam \/ steam' = [c EXCEPT !.retry = retry]
      BY <1>2 DEF Twitch!Cooled
    <2>3. retry \in 0..(OfTwitch.MaxTime + 3) /\ retry >= steam.retry
      BY <2>1 DEF Twitch!Newest
    <2>4. PICK x, y : c = [retry |-> x, updated |-> y]
      BY <1>1, Zenon DEF CooldownOK
    <2> HIDE DEF c, retry
    <2>5. CASE steam' = steam
      BY <1>1, <2>1, <2>5
    <2>6. CASE steam' = [c EXCEPT !.retry = retry]
      <3>1. steam' = [retry |-> retry, updated |-> y]
        BY <2>4, <2>6
      <3> QED BY <2>3, <3>1 DEF CooldownOK
    <2> QED BY <2>2, <2>5, <2>6
  <1>6. IntakeOK(job', time)
    BY <1>1, <1>2, NoJobIs
  <1>7. Twitch!KeepsEvidence
    BY <1>3, <1>5 DEF Twitch!KeepsEvidence
  <1>8. TwitchInv'
    BY <1>1, <1>4, <1>5, <1>6 DEF TwitchInv, Twitch!Applied
  <1> QED BY <1>7, <1>8

LEMMA SavesKeep ==
  ASSUME TwitchInv, Twitch!Apply \/ Twitch!Save
  PROVE  TwitchInv' /\ Twitch!KeepsEvidence
  <1>1. CASE Twitch!Apply
    BY <1>1, AppliedKeeps DEF Twitch!Apply, Twitch!Calm
  <1>2. CASE Twitch!Save
    <2>1. \A a \in OfTwitch.Title : job.batch.records[a].date = 0
      BY <1>2 DEF Twitch!Save, Twitch!At, TwitchInv, IntakeOK, NoRecords
    <2> QED BY <1>2, <2>1, AppliedKeeps DEF Twitch!Save, Twitch!Calm
  <1> QED BY <1>1, <1>2

LEMMA LoseKeeps ==
  ASSUME TwitchInv, Twitch!Lose
  PROVE  TwitchInv' /\ Twitch!KeepsEvidence
  <1>1. /\ UNCHANGED <<master, adult, discovered, steam>> /\ time' = time /\ time \in Nat /\ time \in 1..OfTwitch.MaxTime
        /\ job' = Twitch!NoJob
    BY DEF Twitch!Lose, Twitch!World, TwitchInv
  <1>2. IntakeOK(job', time)
    BY <1>1, NoJobIs
  <1> QED BY <1>1, <1>2, Still

LEMMA TwitchStarts == Twitch!Init => TwitchInv
  <1> SUFFICES ASSUME Twitch!Init PROVE TwitchInv
    OBVIOUS
  <1> DEFINE listed == [Twitch!NoRow EXCEPT !.date = 1]
             one == 1
  <1>1. time = one /\ one \in Nat /\ one \in 1..OfTwitch.MaxTime /\ 1 <= one /\ job = Twitch!NoJob
    BY TwitchGiven DEF Twitch!Init, Twitch!TwitchAssumption
  <1>2. ProofsOK(discovered, one) /\ CooldownOK(steam) /\ adult \subseteq OfTwitch.Title
    BY TwitchGiven DEF Twitch!TwitchAssumption,  Twitch!Init, ProofsOK, CooldownOK
  <1>3. EvidenceOK(Twitch!NoRow, one) /\ EvidenceOK(listed, one)
    <2>1. /\ IsEvidence(Twitch!NoRow) /\ Twitch!NoRow.adult \in BOOLEAN
          /\ Twitch!NoRow.date = 0 /\ Twitch!NoRow.proof = 0 /\ Twitch!NoRow.followers = 0
      BY DEF Twitch!NoRow, IsEvidence
    <2>5. listed = [Twitch!NoRow EXCEPT !.date = 1]
      OBVIOUS
    <2> HIDE DEF listed
    <2>2. listed = [date |-> 1, followers |-> 0, proof |-> 0, adult |-> FALSE]
      BY <2>5 DEF Twitch!NoRow
    <2>3. IsEvidence(listed) /\ listed.adult \in BOOLEAN
      BY <2>2 DEF IsEvidence
    <2>4. listed.date = 1 /\ listed.proof = 0 /\ listed.followers = 0
      BY <2>2
    <2> QED BY <1>1, <2>1, <2>3, <2>4 DEF EvidenceOK
  <1>4. MasterOK(master, one)
    <2>1. /\ master = [a \in OfTwitch.Title |-> master[a]]
          /\ \A a \in OfTwitch.Title : master[a] = Twitch!NoRow \/ master[a] = listed
      BY DEF Twitch!Init
    <2> HIDE DEF one, listed
    <2> QED BY <1>3, <2>1 DEF MasterOK
  <1> HIDE DEF one
  <1>5. IntakeOK(job, one)
    BY <1>1, NoJobIs
  <1> QED BY <1>1, <1>2, <1>4, <1>5 DEF TwitchInv

LEMMA TwitchSteps ==
  TwitchInv /\ [Twitch!Next]_(Twitch!twitch) => TwitchInv' /\ Twitch!KeepsEvidence
  <1> SUFFICES ASSUME TwitchInv, [Twitch!Next]_(Twitch!twitch)
               PROVE  TwitchInv' /\ Twitch!KeepsEvidence
    OBVIOUS
  <1>1. CASE UNCHANGED Twitch!twitch
    BY <1>1, Still DEF Twitch!twitch, TwitchInv
  <1>2. ASSUME NEW a \in OfTwitch.Title,
               \/ Twitch!Discover(a) \/ Twitch!Expire(a) \/ Twitch!Audit(a)
               \/ \E what \in {"date", "followers", "adult"} : Twitch!Observe(a, what)
        PROVE  TwitchInv' /\ Twitch!KeepsEvidence
    BY <1>2, OthersKeep
  <1> QED BY <1>1, <1>2, FreezesKeep, CollectsKeep, LimitKeeps, PostKeeps, SavesKeep,
             LoseKeeps DEF Twitch!Next

THEOREM EvidenceAlways == Twitch!Spec => Twitch!EvidenceIsKept
  BY TwitchStarts, TwitchSteps, PTL DEF Twitch!Spec, Twitch!EvidenceIsKept
--------------------------------------------------------------------------------
(* A state is never of later than now, and its receipt is the one of its signature,
   for an event that was sent. *)
Statuses == {"none", "pending", "accepted", "excluded"}
StateOK(s, seen) ==
  /\ s = [status |-> s.status, updated |-> s.updated, signature |-> s.signature,
          sent |-> s.sent, retry |-> s.retry, proof |-> s.proof]
  /\ s.status \in Statuses \cup {"unchanged"} /\ s.updated \in Nat /\ s.updated <= seen
WasSent(a, s, log) ==
  /\ s.sent # Twitch!NoSignature => <<a, s.sent>> \in log
  /\ s.sent \in {Twitch!NoSignature, s.signature}
StatesOK(states, seen) ==
  /\ states = [a \in OfTwitch.Title |-> states[a]]
  /\ \A a \in OfTwitch.Title : StateOK(states[a], seen)
AllSent(states, log) == \A a \in OfTwitch.Title : WasSent(a, states[a], log)

JobSays(j, seen, log) ==
  /\ j.pc \in {"idle", "collect", "persisted", "dispatch"} /\ j.todo \subseteq OfTwitch.Title
  /\ StatesOK(j.batch.states, seen)
  /\ j.pc = "dispatch" => AllSent(j.batch.states, log)

(* What a dispatch is about to save is as true as what is saved. *)
ReceiptsInv ==
  /\ TwitchInv
  /\ StatesOK(intake, time) /\ AllSent(intake, backend)
  /\ \A a \in OfTwitch.Title : intake[a].status \in Statuses
  /\ JobSays(job, time, backend)

LEMMA StatesLater ==
  ASSUME NEW seen \in Nat, NEW then \in Nat, seen <= then, NEW states, StatesOK(states, seen)
  PROVE  StatesOK(states, then)
  BY DEF StatesOK, StateOK

LEMMA SaysLater ==
  ASSUME NEW seen \in Nat, NEW then \in Nat, seen <= then, NEW j, NEW log, JobSays(j, seen, log)
  PROVE  JobSays(j, then, log)
  BY StatesLater DEF JobSays

LEMMA NoStatesAre ==
  ASSUME NEW seen \in Nat, NEW log
  PROVE  /\ StateOK(Twitch!NoState, seen) /\ StateOK(Twitch!NoUpdate, seen)
         /\ Twitch!NoState.status = "none" /\ Twitch!NoState.sent = Twitch!NoSignature
         /\ StatesOK([a \in OfTwitch.Title |-> Twitch!NoUpdate], seen)
         /\ AllSent([a \in OfTwitch.Title |-> Twitch!NoUpdate], log)
  <1> DEFINE s == Twitch!NoState
             t == Twitch!NoUpdate
  <1>1. /\ s = [status |-> "none", updated |-> 0, signature |-> Twitch!NoSignature,
                sent |-> Twitch!NoSignature, retry |-> 0, proof |-> 0]
        /\ t = [s EXCEPT !.status = "unchanged"]
    BY DEF Twitch!NoState, Twitch!NoUpdate
  <1> HIDE DEF s, t
  <1>2. t = [status |-> "unchanged", updated |-> 0, signature |-> Twitch!NoSignature,
             sent |-> Twitch!NoSignature, retry |-> 0, proof |-> 0]
    BY <1>1
  <1>3. StateOK(s, seen) /\ StateOK(t, seen)
    BY <1>1, <1>2 DEF StateOK, Statuses
  <1>4. ASSUME NEW a PROVE WasSent(a, t, log)
    BY <1>2 DEF WasSent
  <1>5. s.status = "none" /\ s.sent = Twitch!NoSignature
    BY <1>1
  <1>6. /\ StatesOK([a \in OfTwitch.Title |-> t], seen)
        /\ AllSent([a \in OfTwitch.Title |-> t], log)
    BY <1>3, <1>4 DEF StatesOK, AllSent
  <1> QED BY <1>3, <1>5, <1>6 DEF s, t

(* The answers the job records. *)
LEMMA PendingIs ==
  ASSUME NEW a, NEW seen \in Nat, job.batch.at \in Nat, job.batch.at <= seen
  PROVE  /\ StateOK(Twitch!Pending(a), seen)
         /\ \A retry : StateOK([Twitch!Pending(a) EXCEPT !.retry = retry], seen)
         /\ \A retry : StateOK([Twitch!Pending(a) EXCEPT !.status = "excluded", !.retry = retry], seen)
         /\ \A retry : StateOK([Twitch!Pending(a) EXCEPT !.retry = retry, !.updated = seen], seen)
         /\ \A row : StateOK(Twitch!Accepted(a, row), seen)
  <1> DEFINE p == Twitch!Pending(a)
             at == job.batch.at
             proof == job.proofs[a]
  <1>1. p = [Twitch!NoState EXCEPT !.status = "pending", !.updated = at, !.proof = proof]
    BY DEF Twitch!Pending
  <1>2. Twitch!NoState = [status |-> "none", updated |-> 0, signature |-> Twitch!NoSignature,
                          sent |-> Twitch!NoSignature, retry |-> 0, proof |-> 0]
    BY DEF Twitch!NoState
  <1> HIDE DEF p, at, proof
  <1>3. p = [status |-> "pending", updated |-> at, signature |-> Twitch!NoSignature,
             sent |-> Twitch!NoSignature, retry |-> 0, proof |-> proof]
    BY <1>1, <1>2
  <1>4. at \in Nat /\ at <= seen
    BY DEF at
  <1>5. StateOK(p, seen)
    BY <1>3, <1>4 DEF StateOK, Statuses
  <1>6. ASSUME NEW retry
        PROVE  /\ StateOK([p EXCEPT !.retry = retry], seen)
               /\ StateOK([p EXCEPT !.status = "excluded", !.retry = retry], seen)
               /\ StateOK([p EXCEPT !.retry = retry, !.updated = seen], seen)
    <2> DEFINE x == [p EXCEPT !.retry = retry]
               y == [p EXCEPT !.status = "excluded", !.retry = retry]
               z == [p EXCEPT !.retry = retry, !.updated = seen]
    <2>1. /\ x = [p EXCEPT !.retry = retry]
          /\ y = [p EXCEPT !.status = "excluded", !.retry = retry]
          /\ z = [p EXCEPT !.retry = retry, !.updated = seen]
      OBVIOUS
    <2> HIDE DEF x, y, z
    <2>2. x = [status |-> "pending", updated |-> at, signature |-> Twitch!NoSignature,
               sent |-> Twitch!NoSignature, retry |-> retry, proof |-> proof]
      BY <1>3, <2>1
    <2>3. y = [status |-> "excluded", updated |-> at, signature |-> Twitch!NoSignature,
               sent |-> Twitch!NoSignature, retry |-> retry, proof |-> proof]
      BY <1>3, <2>1
    <2>5. z = [status |-> "pending", updated |-> seen, signature |-> Twitch!NoSignature,
               sent |-> Twitch!NoSignature, retry |-> retry, proof |-> proof]
      BY <1>3, <2>1
    <2>4. StateOK(x, seen) /\ StateOK(y, seen) /\ StateOK(z, seen)
      BY <1>4, <2>2, <2>3, <2>5 DEF StateOK, Statuses
    <2> QED BY <2>4 DEF x, y, z
  <1>7. ASSUME NEW row PROVE StateOK(Twitch!Accepted(a, row), seen)
    <2> DEFINE v == Twitch!Accepted(a, row)
               sign == Twitch!Signature(row)
               seenProof == row.proof
    <2>1. v = [p EXCEPT !.status = "accepted", !.signature = sign, !.proof = seenProof]
      BY DEF Twitch!Accepted, p
    <2> HIDE DEF v, sign, seenProof
    <2>2. v = [status |-> "accepted", updated |-> at, signature |-> sign,
               sent |-> Twitch!NoSignature, retry |-> 0, proof |-> seenProof]
      BY <1>3, <2>1
    <2>3. StateOK(v, seen)
      BY <1>4, <2>2 DEF StateOK, Statuses
    <2> QED BY <2>3 DEF v
  <1> QED BY <1>5, <1>6, <1>7 DEF p

LEMMA RecordedSays ==
  ASSUME NEW seen \in Nat, IntakeOK(job, seen), NEW log, JobSays(job, seen, log),
         NEW answer, StateOK(answer, seen), NEW a, job.pc = "dispatch" => WasSent(a, answer, log)
  PROVE  /\ JobSays(Twitch!Recorded(answer, a), seen, log)
         /\ JobSays(Twitch!Stopped(answer, a), seen, log)
  <1> DEFINE r == Twitch!Recorded(answer, a)
             s == Twitch!Stopped(answer, a)
             old == job.batch.states
             states == [old EXCEPT ![a] = answer]
  <1>0. LET x == Twitch!Recorded(answer, a)
            y == Twitch!Stopped(answer, a)
        IN /\ IntakeOK(x, seen) /\ x.batch.records = job.batch.records /\ x.pc = job.pc
           /\ IntakeOK(y, seen) /\ y.batch.records = job.batch.records /\ y.pc = job.pc
           /\ x.batch.states = [job.batch.states EXCEPT ![a] = answer]
           /\ y.batch.states = [job.batch.states EXCEPT ![a] = answer]
           /\ x.todo = job.todo \ {a} /\ y.todo = {}
    BY RecordedAre
  <1>1. /\ r.batch.states = states /\ s.batch.states = states /\ r.pc = job.pc /\ s.pc = job.pc
        /\ r.todo = job.todo \ {a} /\ s.todo = {}
    BY <1>0, Zenon
  <1>2. StatesOK(old, seen) /\ (job.pc = "dispatch" => AllSent(old, log))
    BY DEF JobSays
  <1> HIDE DEF old
  <1>3. states = [b \in OfTwitch.Title |-> IF b = a THEN answer ELSE old[b]]
    BY <1>2 DEF StatesOK
  <1> HIDE DEF states
  <1>4. StatesOK(states, seen)
    BY <1>2, <1>3 DEF StatesOK
  <1>5. job.pc = "dispatch" => AllSent(states, log)
    BY <1>2, <1>3 DEF AllSent
  <1> HIDE DEF r, s
  <1>6. JobSays(r, seen, log)
    BY <1>1, <1>4, <1>5 DEF JobSays
  <1>7. JobSays(s, seen, log)
    BY <1>1, <1>4, <1>5 DEF JobSays
  <1> QED BY <1>6, <1>7 DEF r, s

LEMMA TodoSays ==
  ASSUME NEW seen \in Nat, IntakeOK(job, seen), NEW log, JobSays(job, seen, log),
         NEW todo, todo \subseteq OfTwitch.Title
  PROVE  JobSays([job EXCEPT !.todo = todo], seen, log)
  <1> DEFINE r == [job EXCEPT !.todo = todo]
  <1>1. r.batch = job.batch /\ r.pc = job.pc /\ r.todo = todo
    BY TodoIs
  <1> HIDE DEF r
  <1>2. JobSays(r, seen, log)
    BY <1>1 DEF JobSays
  <1> QED BY <1>2 DEF r

LEMMA BatchSays ==
  ASSUME NEW seen \in Nat, NEW j, IntakeOK(j, seen), NEW log, JobSays(j, seen, log),
         NEW records, NEW cooldown
  PROVE  /\ JobSays([j EXCEPT !.batch.records = records], seen, log)
         /\ JobSays([j EXCEPT !.batch.cooldown = cooldown], seen, log)
  <1> DEFINE r == [j EXCEPT !.batch.records = records]
             s == [j EXCEPT !.batch.cooldown = cooldown]
  <1>1. PICK label, t, q, w, n, k, b :
          j = [pc |-> label, todo |-> t, proofs |-> q, rows |-> w, states |-> n, blocked |-> k,
               batch |-> b]
    BY Zenon DEF IntakeOK, IsIntake
  <1>2. PICK at, e, g, c : b = [at |-> at, records |-> e, states |-> g, cooldown |-> c]
    <2>1. BatchOK(b, seen)
      BY <1>1 DEF IntakeOK
    <2> QED BY <2>1, Zenon DEF BatchOK
  <1>3. r = [j EXCEPT !.batch.records = records] /\ s = [j EXCEPT !.batch.cooldown = cooldown]
    OBVIOUS
  <1> HIDE DEF r, s
  <1>4. /\ r.pc = label /\ r.todo = t /\ r.batch.states = g
        /\ s.pc = label /\ s.todo = t /\ s.batch.states = g
    BY <1>1, <1>2, <1>3
  <1>5. j.pc = label /\ j.todo = t /\ j.batch.states = g
    BY <1>1, <1>2
  <1>6. JobSays(r, seen, log) /\ JobSays(s, seen, log)
    BY <1>4, <1>5 DEF JobSays
  <1> QED BY <1>6 DEF r, s

LEMMA FrozenSays ==
  ASSUME NEW seen \in Nat, NEW todo, todo \subseteq OfTwitch.Title,
         NEW proofs, ProofsOK(proofs, seen), NEW rows, MasterOK(rows, seen),
         NEW states, NEW barred, NEW cooldown, CooldownOK(cooldown), NEW log
  PROVE  /\ JobSays(AtCollect(todo, proofs, rows, states, barred, seen, cooldown), seen, log)
         /\ JobSays(AtDispatch(todo, rows, states, seen), seen, log)
  <1> DEFINE none == [a \in OfTwitch.Title |-> Twitch!NoUpdate]
             c == AtCollect(todo, proofs, rows, states, barred, seen, cooldown)
             d == AtDispatch(todo, rows, states, seen)
  <1>2. /\ c.pc = "collect" /\ c.todo = todo /\ c.batch.states = none
        /\ d.pc = "dispatch" /\ d.todo = todo /\ d.batch.states = none
    BY FrozenAre
  <1>3. StatesOK(none, seen) /\ AllSent(none, log)
    BY NoStatesAre
  <1> HIDE DEF none, c, d
  <1>4. JobSays(c, seen, log) /\ JobSays(d, seen, log)
    BY <1>2, <1>3 DEF JobSays
  <1> QED BY <1>4 DEF c, d

LEMMA NoJobSays ==
  ASSUME NEW seen \in Nat, NEW label \in {"idle", "persisted"}, NEW log
  PROVE  /\ JobSays(Twitch!NoJob, seen, log)
         /\ JobSays([Twitch!NoJob EXCEPT !.pc = label], seen, log)
  <1> DEFINE with == [Twitch!NoJob EXCEPT !.pc = label]
             none == [a \in OfTwitch.Title |-> Twitch!NoUpdate]
  <1>1. /\ Twitch!NoJob.pc = "idle" /\ Twitch!NoJob.todo = {}
        /\ Twitch!NoJob.batch.states = none
        /\ with.pc = label /\ with.todo = {} /\ with.batch.states = none
    BY NoJobIs, Zenon
  <1>2. StatesOK(none, seen)
    BY NoStatesAre
  <1> HIDE DEF with, none
  <1>3. JobSays(Twitch!NoJob, seen, log) /\ JobSays(with, seen, log)
    BY <1>1, <1>2 DEF JobSays
  <1> QED BY <1>3 DEF with

(* A receipt is replaced by another receipt, and goes with its signature. *)
LEMMA UpdatedAre ==
  ASSUME NEW seen \in Nat, NEW log, NEW a,
         NEW current, StateOK(current, seen), WasSent(a, current, log), current.status \in Statuses,
         NEW state, StateOK(state, seen), job.pc = "dispatch" => WasSent(a, state, log)
  PROVE  LET r == Twitch!Updated(current, state)
         IN StateOK(r, seen) /\ WasSent(a, r, log) /\ r.status \in Statuses
  <1> DEFINE r == Twitch!Updated(current, state)
             sign == IF state.signature = Twitch!NoSignature THEN current.signature
                     ELSE state.signature
             sent == IF current.signature = state.signature THEN current.sent
                     ELSE Twitch!NoSignature
  <1>1. CASE state.status = "unchanged" \/ current.updated > state.updated
    <2>1. r = current
      BY <1>1 DEF Twitch!Updated
    <2> QED BY <2>1
  <1>2. CASE ~(state.status = "unchanged" \/ current.updated > state.updated) /\ job.pc = "dispatch"
    <2> DEFINE u == state.updated
               g == state.signature
               t == state.sent
    <2>1. r = [current EXCEPT !.status = "accepted", !.updated = u, !.signature = g, !.sent = t]
      BY <1>2 DEF Twitch!Updated, Twitch!At
    <2>2. PICK c1, c2, c3, c4, c5, c6 :
            current = [status |-> c1, updated |-> c2, signature |-> c3, sent |-> c4,
                       retry |-> c5, proof |-> c6]
      BY Zenon DEF StateOK
    <2>3. u \in Nat /\ u <= seen /\ (t # Twitch!NoSignature => <<a, t>> \in log)
          /\ t \in {Twitch!NoSignature, g}
      BY <1>2 DEF StateOK, WasSent
    <2> HIDE DEF u, g, t, r
    <2>4. r = [status |-> "accepted", updated |-> u, signature |-> g, sent |-> t,
               retry |-> c5, proof |-> c6]
      BY <2>1, <2>2
    <2>5. StateOK(r, seen) /\ r.status \in Statuses
      BY <2>3, <2>4 DEF StateOK, Statuses
    <2>6. WasSent(a, r, log)
      BY <2>3, <2>4 DEF WasSent
    <2> QED BY <2>5, <2>6 DEF r
  <1>3. CASE ~(state.status = "unchanged" \/ current.updated > state.updated) /\ job.pc # "dispatch"
    <2>1. r = [state EXCEPT !.signature = sign, !.sent = sent]
      BY <1>3 DEF Twitch!Updated, Twitch!At
    <2>2. PICK c1, c2, c3, c4, c5, c6 :
            state = [status |-> c1, updated |-> c2, signature |-> c3, sent |-> c4,
                     retry |-> c5, proof |-> c6]
      BY Zenon DEF StateOK
    <2>3. /\ sent # Twitch!NoSignature => <<a, sent>> \in log
          /\ sent \in {Twitch!NoSignature, sign}
      BY DEF WasSent
    <2>4. /\ c1 \in Statuses /\ c2 \in Nat /\ c2 <= seen
      BY <1>3, <2>2 DEF StateOK
    <2> HIDE DEF sign, sent, r
    <2>5. r = [status |-> c1, updated |-> c2, signature |-> sign, sent |-> sent,
               retry |-> c5, proof |-> c6]
      BY <2>1, <2>2
    <2>6. StateOK(r, seen) /\ r.status \in Statuses
      BY <2>4, <2>5 DEF StateOK
    <2>7. WasSent(a, r, log)
      BY <2>3, <2>5 DEF WasSent
    <2> QED BY <2>6, <2>7 DEF r
  <1> QED BY <1>1, <1>2, <1>3
--------------------------------------------------------------------------------
(* Nothing is saved. *)
LEMMA StillSays ==
  ASSUME ReceiptsInv, UNCHANGED <<intake, backend>>, time' \in Nat, time <= time',
         TwitchInv', JobSays(job', time', backend')
  PROVE  ReceiptsInv'
  <1>1. StatesOK(intake, time')
    BY StatesLater DEF ReceiptsInv, TwitchInv
  <1> QED BY <1>1 DEF ReceiptsInv

LEMMA LaterSays ==
  ASSUME ReceiptsInv, TwitchInv',
         \/ \E a \in OfTwitch.Title : Twitch!Discover(a) \/ Twitch!Expire(a) \/ Twitch!Audit(a)
         \/ \E a \in OfTwitch.Title, what \in {"date", "followers", "adult"} : Twitch!Observe(a, what)
         \/ Twitch!Start \/ Twitch!Freeze
  PROVE  ReceiptsInv'
  <1>1. /\ time \in Nat /\ time' = time + 1 /\ time' \in Nat /\ time <= time'
        /\ UNCHANGED <<intake, backend>>
    BY TwitchGiven DEF Twitch!Discover, Twitch!Expire, Twitch!Audit, Twitch!Observe, Twitch!Start,
       Twitch!Freeze, Twitch!World, Twitch!Update, Twitch!Later, ReceiptsInv, TwitchInv
  <1>2. /\ MasterOK(master, time') /\ ProofsOK(discovered, time') /\ CooldownOK(steam)
        /\ JobSays(job, time', backend')
    BY <1>1, RowsLater, ProofsLater, SaysLater DEF ReceiptsInv, TwitchInv
  <1>3. CASE job' = job
    BY <1>1, <1>2, <1>3, StillSays
  <1>4. CASE Twitch!Start
    <2> DEFINE seen == time'
               collect == {a \in OfTwitch.Title : discovered[a] # 0}
    <2>1. job' = AtCollect(collect, discovered, master, intake, adult, seen, steam)
      BY <1>4 DEF Twitch!Start, AtCollect
    <2>2. collect \subseteq OfTwitch.Title
      OBVIOUS
    <2> HIDE DEF seen, collect
    <2>3. JobSays(job', seen, backend')
      BY <1>1, <1>2, <2>1, <2>2, FrozenSays DEF seen
    <2> QED BY <1>1, <2>3, StillSays DEF seen
  <1>5. CASE Twitch!Freeze
    <2> DEFINE seen == time'
               dispatch == {a \in OfTwitch.Title :
                              /\ intake[a].status = "accepted" /\ Twitch!Qualified(master[a])
                              /\ intake[a].sent # Twitch!Signature(master[a])}
    <2>1. job' = AtDispatch(dispatch, master, intake, seen)
      BY <1>5 DEF Twitch!Freeze, AtDispatch
    <2>2. dispatch \subseteq OfTwitch.Title
      OBVIOUS
    <2> HIDE DEF seen, dispatch
    <2>3. JobSays(job', seen, backend')
      BY <1>1, <1>2, <2>1, <2>2, FrozenSays DEF seen
    <2> QED BY <1>1, <2>3, StillSays DEF seen
  <1>6. Twitch!Start \/ Twitch!Freeze \/ job' = job
    BY DEF Twitch!Discover, Twitch!Expire, Twitch!Audit, Twitch!Observe, Twitch!Update
  <1> QED BY <1>3, <1>4, <1>5, <1>6

LEMMA CollectsSay ==
  ASSUME ReceiptsInv, TwitchInv',
         \/ Twitch!Keep \/ Twitch!Postpone \/ Twitch!Cool
         \/ Twitch!Verify \/ Twitch!Exclude \/ Twitch!Fail
  PROVE  ReceiptsInv'
  <1>1. /\ UNCHANGED <<intake, backend>> /\ time' = time /\ time \in Nat
        /\ IntakeOK(job, time) /\ JobSays(job, time, backend) /\ job.pc = "collect"
        /\ job.todo \subseteq OfTwitch.Title /\ job.batch.at \in Nat /\ job.batch.at <= time
    BY DEF Twitch!Keep, Twitch!Postpone, Twitch!Cool, Twitch!Verify, Twitch!Exclude,
       Twitch!Fail, Twitch!Asks, Twitch!Collecting, Twitch!World, Twitch!Calm, Twitch!Mishap,
       Twitch!At, ReceiptsInv, TwitchInv, IntakeOK, BatchOK, JobSays
  <1>2. ASSUME NEW answer, StateOK(answer, time), NEW a
        PROVE  /\ JobSays(Twitch!Recorded(answer, a), time, backend)
               /\ JobSays(Twitch!Stopped(answer, a), time, backend)
    BY <1>1, <1>2, RecordedSays
  <1>3. JobSays([job EXCEPT !.todo = job.todo \ {Twitch!First}], time, backend)
    <2>1. job.todo \ {Twitch!First} \subseteq OfTwitch.Title
      BY <1>1
    <2> QED BY <1>1, <2>1, TodoSays
  <1>4. ASSUME NEW a
        PROVE  /\ \A retry : StateOK([Twitch!Pending(a) EXCEPT !.retry = retry], time)
               /\ \A retry : StateOK([Twitch!Pending(a) EXCEPT !.status = "excluded", !.retry = retry], time)
               /\ \A row : StateOK(Twitch!Accepted(a, row), time)
    BY <1>1, PendingIs
  <1>5. SUFFICES JobSays(job', time, backend)
    BY <1>1, StillSays
  <1>6. CASE Twitch!Keep
    <2> DEFINE state == Twitch!Accepted(Twitch!First, job.rows[Twitch!First])
    <2>1. \/ job' = [job EXCEPT !.todo = job.todo \ {Twitch!First}]
          \/ job' = Twitch!Recorded(state, Twitch!First)
      BY <1>6 DEF Twitch!Keep
    <2>2. StateOK(state, time)
      BY <1>4
    <2> HIDE DEF state
    <2> QED BY <1>2, <1>3, <2>1, <2>2
  <1>7. CASE Twitch!Postpone
    BY <1>3, <1>7 DEF Twitch!Postpone
  <1>8. CASE Twitch!Cool
    BY <1>2, <1>4, <1>8 DEF Twitch!Cool
  <1>9. CASE Twitch!Exclude
    BY <1>2, <1>4, <1>9 DEF Twitch!Exclude
  <1>10. CASE Twitch!Fail
    BY <1>2, <1>4, <1>10 DEF Twitch!Fail
  <1>11. CASE Twitch!Verify
    <2> DEFINE a == Twitch!First
               found == [Twitch!NoRow EXCEPT !.date = job.batch.at, !.proof = job.proofs[a],
                           !.followers = job.rows[a].followers]
               state == Twitch!Accepted(a, found)
               r == Twitch!Recorded(state, a)
               records == [r.batch.records EXCEPT ![a] = found]
    <2>1. job' = [r EXCEPT !.batch.records[a] = found]
      BY <1>11 DEF Twitch!Verify
    <2>2. StateOK(state, time)
      BY <1>4
    <2> HIDE DEF a, found, state
    <2>3. JobSays(r, time, backend)
      BY <1>2, <2>2
    <2>4. IntakeOK(r, time)
      BY <1>1, RecordedIs
    <2>5. job' = [r EXCEPT !.batch.records = records]
      <3>1. [r EXCEPT !.batch.records[a] = found]
              = [r EXCEPT !.batch.records = [r.batch.records EXCEPT ![a] = found]]
        OBVIOUS
      <3> QED BY <2>1, <3>1
    <2> HIDE DEF r, records
    <2> QED BY <1>1, <2>3, <2>4, <2>5, BatchSays
  <1> QED BY <1>6, <1>7, <1>8, <1>9, <1>10, <1>11

LEMMA LimitSays ==
  ASSUME ReceiptsInv, TwitchInv', NEW wait \in {1, 3}, Twitch!Limit(wait)
  PROVE  ReceiptsInv'
  <1>1. /\ UNCHANGED <<intake, backend>> /\ time \in Nat /\ time' = time + 1 /\ time' \in Nat
        /\ time <= time' /\ IntakeOK(job, time) /\ JobSays(job, time, backend)
        /\ job.pc = "collect" /\ job.batch.at \in Nat /\ job.batch.at <= time
    BY DEF Twitch!Limit, Twitch!Asks, Twitch!Collecting, Twitch!World, Twitch!Later, Twitch!At,
       ReceiptsInv, TwitchInv, IntakeOK, BatchOK
  <1> DEFINE seen == time'
             retry == time' + wait
             cooldown == [retry |-> retry, updated |-> seen]
             answer == [Twitch!Pending(Twitch!First) EXCEPT !.retry = retry, !.updated = seen]
             r == Twitch!Stopped(answer, Twitch!First)
  <1>2. job' = [r EXCEPT !.batch.cooldown = cooldown]
    BY DEF Twitch!Limit
  <1>3. seen \in Nat /\ job.batch.at <= seen
    BY <1>1
  <1> HIDE DEF seen, retry
  <1>4. StateOK(answer, seen)
    BY <1>1, <1>3, PendingIs
  <1>5. IntakeOK(job, seen) /\ JobSays(job, seen, backend)
    BY <1>1, JobLater, SaysLater DEF seen
  <1> HIDE DEF answer
  <1>6. JobSays(r, seen, backend)
    BY <1>1, <1>3, <1>4, <1>5, RecordedSays
  <1>7. IntakeOK(r, seen)
    BY <1>3, <1>5, RecordedIs
  <1> HIDE DEF r, cooldown
  <1>8. JobSays(job', seen, backend)
    BY <1>2, <1>3, <1>6, <1>7, BatchSays
  <1> QED BY <1>1, <1>8, StillSays DEF seen

LEMMA PostSays ==
  ASSUME ReceiptsInv, TwitchInv',
         NEW sent \in BOOLEAN, NEW answered \in BOOLEAN, Twitch!Post(sent, answered)
  PROVE  ReceiptsInv'
  <1> DEFINE a == Twitch!First
             sign == Twitch!Signature(job.rows[a])
             at == job.batch.at
             receipt == IF sent /\ answered THEN sign ELSE Twitch!NoSignature
             state == [Twitch!NoState EXCEPT !.status = "accepted", !.updated = at,
                         !.signature = sign, !.sent = receipt]
  <1>1. /\ intake' = intake /\ time' = time /\ time \in Nat /\ job.pc = "dispatch"
        /\ IntakeOK(job, time) /\ JobSays(job, time, backend)
        /\ at \in Nat /\ at <= time /\ backend \subseteq backend'
        /\ sent => <<a, sign>> \in backend'
        /\ job' = Twitch!Recorded(state, a)
    BY DEF Twitch!Post, Twitch!At, ReceiptsInv, TwitchInv, IntakeOK, BatchOK
  <1>2. state = [Twitch!NoState EXCEPT !.status = "accepted", !.updated = at,
                   !.signature = sign, !.sent = receipt]
    OBVIOUS
  <1>3. receipt \in {Twitch!NoSignature, sign}
        /\ (receipt # Twitch!NoSignature => <<a, receipt>> \in backend')
    BY <1>1
  <1> HIDE DEF a, sign, at, receipt, state
  <1>4. state = [status |-> "accepted", updated |-> at, signature |-> sign, sent |-> receipt,
                 retry |-> 0, proof |-> 0]
    BY <1>2 DEF Twitch!NoState
  <1>5. StateOK(state, time)
    BY <1>1, <1>4 DEF StateOK, Statuses
  <1>6. WasSent(a, state, backend')
    BY <1>3, <1>4 DEF WasSent
  <1>7. ASSUME NEW b, NEW s, WasSent(b, s, backend) PROVE WasSent(b, s, backend')
    BY <1>1, <1>7 DEF WasSent
  <1>8. JobSays(job, time, backend') /\ AllSent(intake, backend')
    BY <1>1, <1>7 DEF JobSays, AllSent, ReceiptsInv
  <1>9. JobSays(job', time, backend')
    BY <1>1, <1>5, <1>6, <1>8, RecordedSays
  <1> QED BY <1>1, <1>8, <1>9 DEF ReceiptsInv

LEMMA AppliedSays ==
  ASSUME ReceiptsInv, TwitchInv', NEW next \in {"idle", "persisted"}, Twitch!Applied(next),
         time' = time
  PROVE  ReceiptsInv'
  <1>1. /\ backend' = backend /\ time \in Nat
        /\ intake' = [a \in OfTwitch.Title |-> Twitch!Updated(intake[a], job.batch.states[a])]
        /\ job' = [Twitch!NoJob EXCEPT !.pc = next]
        /\ StatesOK(job.batch.states, time)
        /\ job.pc = "dispatch" => AllSent(job.batch.states, backend)
    BY DEF Twitch!Applied, ReceiptsInv, TwitchInv, JobSays
  <1>2. ASSUME NEW a \in OfTwitch.Title
        PROVE  StateOK(intake'[a], time) /\ WasSent(a, intake'[a], backend) /\ intake'[a].status \in Statuses
    <2> DEFINE current == intake[a]
               state == job.batch.states[a]
    <2>1. StateOK(current, time) /\ WasSent(a, current, backend) /\ current.status \in Statuses
      BY DEF ReceiptsInv, StatesOK, AllSent
    <2>2. StateOK(state, time) /\ (job.pc = "dispatch" => WasSent(a, state, backend))
      BY <1>1 DEF StatesOK, AllSent
    <2>3. intake'[a] = Twitch!Updated(current, state)
      BY <1>1
    <2> HIDE DEF current, state
    <2> QED BY <1>1, <2>1, <2>2, <2>3, UpdatedAre
  <1>3. StatesOK(intake', time) /\ AllSent(intake', backend)
    BY <1>1, <1>2 DEF StatesOK, AllSent
  <1>4. JobSays(job', time, backend)
    BY <1>1, NoJobSays
  <1> QED BY <1>1, <1>2, <1>3, <1>4 DEF ReceiptsInv

LEMMA SavesSay ==
  ASSUME ReceiptsInv, TwitchInv', Twitch!Apply \/ Twitch!Save \/ Twitch!Lose
  PROVE  ReceiptsInv'
  <1>1. CASE Twitch!Apply
    BY <1>1, AppliedSays DEF Twitch!Apply, Twitch!Calm
  <1>2. CASE Twitch!Save
    BY <1>2, AppliedSays DEF Twitch!Save, Twitch!Calm
  <1>3. CASE Twitch!Lose
    <2>1. /\ UNCHANGED <<intake, backend>> /\ time' = time /\ time \in Nat /\ job' = Twitch!NoJob
      BY <1>3 DEF Twitch!Lose, Twitch!World, ReceiptsInv, TwitchInv
    <2>2. JobSays(job', time', backend')
      BY <2>1, NoJobSays
    <2> QED BY <2>1, <2>2, StillSays
  <1> QED BY <1>1, <1>2, <1>3

LEMMA ReceiptsStart == Twitch!Init => ReceiptsInv
  <1> SUFFICES ASSUME Twitch!Init PROVE ReceiptsInv
    OBVIOUS
  <1>1. TwitchInv /\ time \in Nat
    BY TwitchStarts DEF TwitchInv
  <1>2. intake = [a \in OfTwitch.Title |-> Twitch!NoState] /\ job = Twitch!NoJob
    BY DEF Twitch!Init
  <1>3. /\ StateOK(Twitch!NoState, time) /\ Twitch!NoState.status = "none"
        /\ Twitch!NoState.sent = Twitch!NoSignature
    BY <1>1, NoStatesAre
  <1>4. \A a : WasSent(a, Twitch!NoState, backend)
    BY <1>3 DEF WasSent
  <1>5. StatesOK(intake, time) /\ AllSent(intake, backend)
        /\ \A a \in OfTwitch.Title : intake[a].status \in Statuses
    BY <1>2, <1>3, <1>4 DEF StatesOK, AllSent, Statuses
  <1>6. JobSays(job, time, backend)
    BY <1>1, <1>2, NoJobSays
  <1> QED BY <1>1, <1>5, <1>6 DEF ReceiptsInv

LEMMA ReceiptsSteps == ReceiptsInv /\ [Twitch!Next]_(Twitch!twitch) => ReceiptsInv'
  <1> SUFFICES ASSUME ReceiptsInv, [Twitch!Next]_(Twitch!twitch) PROVE ReceiptsInv'
    OBVIOUS
  <1>1. TwitchInv'
    BY TwitchSteps DEF ReceiptsInv
  <1>2. CASE UNCHANGED Twitch!twitch
    <2>1. UNCHANGED <<intake, backend, job, time>>
      BY <1>2 DEF Twitch!twitch
    <2> QED BY <1>1, <2>1 DEF ReceiptsInv
  <1>3. CASE \E wait \in {1, 3} : Twitch!Limit(wait)
    BY <1>1, <1>3, LimitSays
  <1>4. CASE \E sent, answered \in BOOLEAN : Twitch!Post(sent, answered)
    BY <1>1, <1>4, PostSays
  <1>5. CASE \/ Twitch!Keep \/ Twitch!Postpone \/ Twitch!Cool
             \/ Twitch!Verify \/ Twitch!Exclude \/ Twitch!Fail
    BY <1>1, <1>5, CollectsSay
  <1>6. CASE Twitch!Apply \/ Twitch!Save \/ Twitch!Lose
    BY <1>1, <1>6, SavesSay
  <1>7. CASE \/ \E a \in OfTwitch.Title : Twitch!Discover(a) \/ Twitch!Expire(a) \/ Twitch!Audit(a)
             \/ \E a \in OfTwitch.Title, what \in {"date", "followers", "adult"} : Twitch!Observe(a, what)
             \/ Twitch!Start \/ Twitch!Freeze
    BY <1>1, <1>7, LaterSays
  <1> QED BY <1>2, <1>3, <1>4, <1>5, <1>6, <1>7 DEF Twitch!Next

LEMMA ReceiptsTell == ReceiptsInv => Twitch!TypeOK /\ Twitch!ReceiptIsTrue
  <1> SUFFICES ASSUME ReceiptsInv PROVE Twitch!TypeOK /\ Twitch!ReceiptIsTrue
    OBVIOUS
  <1>1. /\ time \in 0..OfTwitch.MaxTime /\ OfTwitch.MaxTime \in Nat /\ MasterOK(master, time)
        /\ ProofsOK(discovered, time) /\ StatesOK(intake, time) /\ AllSent(intake, backend)
    BY TwitchGiven DEF Twitch!TwitchAssumption, ReceiptsInv, TwitchInv
  <1>2. ASSUME NEW a \in OfTwitch.Title
        PROVE  /\ {master[a].date, master[a].followers, master[a].proof, discovered[a]}
                      \subseteq 0..OfTwitch.MaxTime
               /\ intake[a].status \in {"none", "pending", "accepted", "excluded"}
               /\ intake[a].updated \in 0..OfTwitch.MaxTime
    <2>1. EvidenceOK(master[a], time) /\ StateOK(intake[a], time)
          /\ discovered[a] \in Nat /\ discovered[a] <= time
      BY <1>1 DEF MasterOK, ProofsOK, StatesOK
    <2>2. /\ master[a].date \in 0..OfTwitch.MaxTime /\ master[a].followers \in 0..OfTwitch.MaxTime
          /\ master[a].proof \in 0..OfTwitch.MaxTime /\ discovered[a] \in 0..OfTwitch.MaxTime
          /\ intake[a].updated \in 0..OfTwitch.MaxTime
      BY <1>1, <2>1 DEF EvidenceOK, StateOK
    <2> QED BY <2>2 DEF ReceiptsInv, Statuses
  <1>3. Twitch!TypeOK
    BY <1>2 DEF Twitch!TypeOK, ReceiptsInv, TwitchInv, JobSays, CooldownOK
  <1>4. Twitch!ReceiptIsTrue
    BY <1>1 DEF Twitch!ReceiptIsTrue, AllSent, WasSent
  <1> QED BY <1>3, <1>4

(* The rows, the states and the job of the Twitch intake are what they should be. *)
THEOREM IntakeTypeCorrect == Twitch!Spec => []Twitch!TypeOK
  <1>1. Twitch!Spec => []ReceiptsInv
    BY ReceiptsStart, ReceiptsSteps, PTL DEF Twitch!Spec
  <1> QED BY <1>1, ReceiptsTell, PTL

(* A receipt stands for the very evidence the content backend was sent. *)
THEOREM ReceiptsTrue == Twitch!Spec => []Twitch!ReceiptIsTrue
  <1>1. Twitch!Spec => []ReceiptsInv
    BY ReceiptsStart, ReceiptsSteps, PTL DEF Twitch!Spec
  <1> QED BY <1>1, ReceiptsTell, PTL
--------------------------------------------------------------------------------
(* GroupResolution *)

IsPublished(s) == s = [rows |-> s.rows, growth |-> s.growth, api |-> s.api, counted |-> s.counted]
IsEntry(r) == r = [edition |-> r.edition, group |-> r.group, receipt |-> r.receipt]
Timed(answers) ==
  answers = [a \in OfGroups.App |-> answers[a]] /\ \A a \in OfGroups.App : answers[a].at \in Nat

(* What a checkpoint holds, as far as the identities are concerned. *)
IdentitiesOK(s) ==
  /\ IsPublished(s) /\ Timed(s.growth) /\ s.rows = [a \in OfGroups.App |-> s.rows[a]]
  /\ \A a \in OfGroups.App : /\ IsEntry(s.rows[a]) /\ s.rows[a].group \in BOOLEAN
                             /\ s.rows[a].receipt.at \in Nat

IsAsking(r) ==
  r = [pc |-> r.pc, kind |-> r.kind, todo |-> r.todo, prior |-> r.prior, until |-> r.until,
       update |-> r.update, answers |-> r.answers, editions |-> r.editions, left |-> r.left,
       own |-> r.own]

(* The run has read a checkpoint, and its answers have their times. *)
AskingOK(r) ==
  /\ IsAsking(r) /\ Timed(r.answers)
  /\ r.kind = "growth" => IdentitiesOK(r.own)

GroupInv == IdentitiesOK(table) /\ AskingOK(asking) /\ tick \in Nat

LEMMA StateWith ==
  ASSUME NEW s, IsPublished(s), NEW x
  PROVE  /\ [s EXCEPT !.rows = x]
              = [rows |-> x, growth |-> s.growth, api |-> s.api, counted |-> s.counted]
         /\ [s EXCEPT !.growth = x]
              = [rows |-> s.rows, growth |-> x, api |-> s.api, counted |-> s.counted]
         /\ [s EXCEPT !.api = x]
              = [rows |-> s.rows, growth |-> s.growth, api |-> x, counted |-> s.counted]
         /\ [s EXCEPT !.counted = x]
              = [rows |-> s.rows, growth |-> s.growth, api |-> s.api, counted |-> x]
  <1>1. PICK r, g, i, c : s = [rows |-> r, growth |-> g, api |-> i, counted |-> c]
    BY Zenon DEF IsPublished
  <1> QED BY <1>1

LEMMA RowWith ==
  ASSUME NEW r, IsEntry(r), NEW x, NEW y
  PROVE  /\ [r EXCEPT !.edition = x] = [edition |-> x, group |-> r.group, receipt |-> r.receipt]
         /\ [r EXCEPT !.edition = x, !.group = y]
              = [edition |-> x, group |-> y, receipt |-> r.receipt]
         /\ [r EXCEPT !.receipt = x, !.group = y]
              = [edition |-> r.edition, group |-> y, receipt |-> x]
  <1> DEFINE s == [r EXCEPT !.edition = x]
             t == [r EXCEPT !.edition = x, !.group = y]
             u == [r EXCEPT !.receipt = x, !.group = y]
  <1>1. PICK e, g, p : r = [edition |-> e, group |-> g, receipt |-> p]
    BY Zenon DEF IsEntry
  <1>2. /\ s = [r EXCEPT !.edition = x] /\ t = [r EXCEPT !.edition = x, !.group = y]
        /\ u = [r EXCEPT !.receipt = x, !.group = y]
    OBVIOUS
  <1> HIDE DEF s, t, u
  <1>3. r.edition = e /\ r.group = g /\ r.receipt = p
    BY <1>1
  <1>4. s = [edition |-> x, group |-> g, receipt |-> p]
    BY <1>1, <1>2
  <1>5. t = [edition |-> x, group |-> y, receipt |-> p]
    BY <1>1, <1>2
  <1>6. u = [edition |-> e, group |-> y, receipt |-> x]
    BY <1>1, <1>2
  <1> QED BY <1>3, <1>4, <1>5, <1>6 DEF s, t, u

(* A later cooldown of the API changes nothing else. *)
LEMMA CooldownKeeps ==
  ASSUME NEW s, IdentitiesOK(s), NEW update
  PROVE  LET t == Groups!WithCooldown(s, update)
         IN IdentitiesOK(t) /\ t.rows = s.rows /\ t.growth = s.growth
  <1>1. CASE Groups!WithCooldown(s, update) = s
    BY <1>1
  <1>2. CASE Groups!WithCooldown(s, update) = [s EXCEPT !.api = update]
    <2> DEFINE t == Groups!WithCooldown(s, update)
    <2>1. t = [rows |-> s.rows, growth |-> s.growth, api |-> update, counted |-> s.counted]
      BY <1>2, StateWith DEF IdentitiesOK
    <2> HIDE DEF t
    <2>2. t.rows = s.rows /\ t.growth = s.growth /\ IsPublished(t)
      BY <2>1 DEF IsPublished
    <2>3. IdentitiesOK(t)
      BY <2>2 DEF IdentitiesOK
    <2> QED BY <2>2, <2>3 DEF t
  <1> QED BY <1>1, <1>2 DEF Groups!WithCooldown

LEMMA IdentitiesAre ==
  ASSUME NEW s, IdentitiesOK(s), NEW f, Timed(f)
  PROVE  LET t == [s EXCEPT !.growth = f]
         IN IdentitiesOK(t) /\ t.rows = s.rows /\ t.growth = f
  <1> DEFINE t == [s EXCEPT !.growth = f]
  <1>1. t = [rows |-> s.rows, growth |-> f, api |-> s.api, counted |-> s.counted]
    BY StateWith DEF IdentitiesOK
  <1> HIDE DEF t
  <1>2. t.rows = s.rows /\ t.growth = f /\ IsPublished(t)
    BY <1>1 DEF IsPublished
  <1>3. IdentitiesOK(t)
    BY <1>2 DEF IdentitiesOK
  <1> QED BY <1>2, <1>3 DEF t

LEMMA RememberedIs ==
  ASSUME NEW s, IdentitiesOK(s), NEW answers, Timed(answers)
  PROVE  IdentitiesOK(Groups!Remembered(s, answers))
  <1> DEFINE f == [a \in OfGroups.App |->
                      IF Groups!Accepts(s, a, answers[a]) THEN answers[a] ELSE s.growth[a]]
  <1>1. Timed(f)
    BY DEF Timed, IdentitiesOK
  <1>2. Groups!Remembered(s, answers) = [s EXCEPT !.growth = f]
    BY DEF Groups!Remembered
  <1> HIDE DEF f
  <1> QED BY <1>1, <1>2, IdentitiesAre

(* What a growth collection makes of the newest checkpoint. *)
LEMMA MergedIdentities ==
  ASSUME NEW s, IdentitiesOK(s), NEW base, NEW ours, IdentitiesOK(ours)
  PROVE  LET t == Groups!Merged(s, base, ours)
         IN /\ IdentitiesOK(t) /\ t.rows = s.rows
            /\ \A a \in OfGroups.App :
                 \/ t.growth[a] = s.growth[a]
                 \/ t.growth[a] = ours.growth[a] /\ Groups!Accepts(s, a, ours.growth[a])
  <1> DEFINE changed == {a \in OfGroups.App : ours.growth[a] # base.growth[a]}
             f == [a \in OfGroups.App |-> IF a \in changed /\ Groups!Accepts(s, a, ours.growth[a])
                                 THEN ours.growth[a] ELSE s.growth[a]]
             merged == [s EXCEPT !.growth = f]
             t == Groups!Merged(s, base, ours)
  <1>1. Timed(f)
    BY DEF Timed, IdentitiesOK
  <1>2. t = IF ours.api = base.api THEN merged ELSE Groups!WithCooldown(merged, ours.api)
    BY DEF Groups!Merged
  <1>3. \A a \in OfGroups.App : \/ f[a] = s.growth[a]
                                \/ f[a] = ours.growth[a] /\ Groups!Accepts(s, a, ours.growth[a])
    OBVIOUS
  <1> HIDE DEF f
  <1>4. IdentitiesOK(merged) /\ merged.rows = s.rows /\ merged.growth = f
    BY <1>1, IdentitiesAre
  <1> HIDE DEF merged, t
  <1>5. IdentitiesOK(t) /\ t.rows = merged.rows /\ t.growth = merged.growth
    BY <1>2, <1>4, CooldownKeeps
  <1> QED BY <1>3, <1>4, <1>5 DEF t

(* An accepted receipt is newer than both that the checkpoint holds. *)
LEMMA AcceptedIsNewer ==
  ASSUME NEW s, IdentitiesOK(s), NEW a \in OfGroups.App, NEW receipt, receipt.at \in Nat,
         Groups!Accepts(s, a, receipt)
  PROVE  /\ receipt.at > s.growth[a].at
         /\ receipt.status = "resolved" \/ ~Groups!Known(s, a)
  <1>1. s.growth[a].at \in Nat /\ s.rows[a].receipt.at \in Nat
    BY DEF IdentitiesOK, Timed
  <1>2. /\ receipt.at > Groups!Newest(s, a).at
        /\ receipt.status = "resolved" \/ ~Groups!Known(s, a)
    BY DEF Groups!Accepts
  <1>3. \/ Groups!Newest(s, a) = s.growth[a]
        \/ /\ Groups!Newest(s, a) = s.rows[a].receipt
           /\ ~(s.growth[a].at > s.rows[a].receipt.at)
    BY DEF Groups!Newest
  <1> QED BY <1>1, <1>2, <1>3
--------------------------------------------------------------------------------
(* What a step must leave of a game's identity, by the parts. *)
LEMMA IdentityWhen ==
  ASSUME \A a \in OfGroups.App :
           /\ table.growth[a].status = "resolved" => table'.growth[a].status = "resolved"
           /\ table'.growth[a].at >= table.growth[a].at
           /\ table'.growth[a] # table.growth[a] =>
                Groups!Known(table', a) = (table'.growth[a].status = "resolved")
           /\ table.rows[a] # Groups!NoRow /\ table'.rows[a] # Groups!NoRow =>
                /\ table.rows[a].group => table'.rows[a].group
                /\ table'.rows[a].receipt.at >= table.rows[a].receipt.at
                /\ table'.rows[a].receipt # table.rows[a].receipt =>
                     asking.editions[a] = table.rows[a].edition
  PROVE  Groups!KeepsIdentity
  BY Zenon DEF Groups!KeepsIdentity

LEMMA IdentitiesStay ==
  ASSUME IdentitiesOK(table), table' = table
  PROVE  IdentitiesOK(table)' /\ Groups!KeepsIdentity
  <1>1. \A a \in OfGroups.App : table.growth[a].at \in Nat /\ table.rows[a].receipt.at \in Nat
    BY DEF IdentitiesOK, Timed
  <1>2. ASSUME NEW a \in OfGroups.App
        PROVE  /\ table'.growth[a] = table.growth[a] /\ table'.growth[a].at >= table.growth[a].at
               /\ table'.rows[a] = table.rows[a]
               /\ table'.rows[a].receipt.at >= table.rows[a].receipt.at
    BY <1>1
  <1>3. Groups!KeepsIdentity
    BY <1>2, Zenon, IdentityWhen
  <1> QED BY <1>3

(* A row, and no more than that, is given to the checkpoint. *)
LEMMA RowsKeep ==
  ASSUME IdentitiesOK(table), NEW rows, table' = [table EXCEPT !.rows = rows],
         rows = [a \in OfGroups.App |-> rows[a]],
         \A a \in OfGroups.App :
           /\ IsEntry(rows[a]) /\ rows[a].group \in BOOLEAN /\ rows[a].receipt.at \in Nat
           /\ table.rows[a] # Groups!NoRow /\ rows[a] # Groups!NoRow =>
                /\ table.rows[a].group => rows[a].group
                /\ rows[a].receipt = table.rows[a].receipt
  PROVE  IdentitiesOK(table)' /\ Groups!KeepsIdentity
  <1>1. table' = [rows |-> rows, growth |-> table.growth, api |-> table.api,
                  counted |-> table.counted]
    BY StateWith DEF IdentitiesOK
  <1>2. table'.rows = rows /\ table'.growth = table.growth /\ IsPublished(table')
    BY <1>1 DEF IsPublished
  <1>3. IdentitiesOK(table')
    BY <1>2 DEF IdentitiesOK
  <1>4. \A a \in OfGroups.App : table.growth[a].at \in Nat /\ table.rows[a].receipt.at \in Nat
    BY DEF IdentitiesOK, Timed
  <1>5. ASSUME NEW a \in OfGroups.App
        PROVE  /\ table'.growth[a] = table.growth[a] /\ table'.growth[a].at >= table.growth[a].at
               /\ table.rows[a] # Groups!NoRow /\ table'.rows[a] # Groups!NoRow =>
                    /\ table.rows[a].group => table'.rows[a].group
                    /\ table'.rows[a].receipt = table.rows[a].receipt
                    /\ table'.rows[a].receipt.at >= table.rows[a].receipt.at
    <2>1. /\ table.growth[a].at \in Nat /\ table.rows[a].receipt.at \in Nat
          /\ table'.growth = table.growth
      BY <1>2, <1>4
    <2>2. table.rows[a] # Groups!NoRow /\ rows[a] # Groups!NoRow =>
            /\ table.rows[a].group => rows[a].group
            /\ rows[a].receipt = table.rows[a].receipt
      OBVIOUS
    <2> QED BY <1>2, <2>1, <2>2
  <1>6. Groups!KeepsIdentity
    BY <1>5, Zenon, IdentityWhen
  <1> QED BY <1>3, <1>6 DEF IdentitiesOK
--------------------------------------------------------------------------------
LEMMA NotAskingIs == AskingOK(Groups!NotAsking) /\ Groups!NotAsking.kind = "hourly"
  <1>1. Timed([a \in OfGroups.App |-> Groups!Unasked])
    BY DEF Timed, Groups!Unasked
  <1>2. /\ Groups!NotAsking.answers = [a \in OfGroups.App |-> Groups!Unasked]
        /\ Groups!NotAsking.kind = "hourly" /\ IsAsking(Groups!NotAsking)
    BY DEF Groups!NotAsking, IsAsking
  <1> QED BY <1>1, <1>2 DEF AskingOK

(* A run that has read a checkpoint has no answers, but those it needs no key for. *)
LEMMA BegunIs ==
  ASSUME NEW runner, IsAsking(runner), tick \in Nat,
         runner.kind = "growth" => IdentitiesOK(runner.own),
         NEW s, NEW apps, NEW twitch, NEW key \in BOOLEAN
  PROVE  AskingOK(Groups!Begun(runner, s, apps, twitch, key))
  <1> DEFINE todo == Groups!Selected(apps, twitch, runner.left)
             unkeyed == [status |-> "no key", at |-> tick, retry |-> tick + 1]
             none == [a \in OfGroups.App |-> Groups!Unasked]
             marked == [a \in OfGroups.App |->
                          IF a \in Groups!Range(todo) THEN unkeyed ELSE Groups!Unasked]
             next == IF s.api.retry > tick THEN <<>> ELSE todo
             editions == [a \in OfGroups.App |-> s.rows[a].edition]
             begun == [runner EXCEPT !.prior = s.api, !.until = s.api.retry, !.update = Groups!Open,
                         !.answers = none, !.editions = editions]
             b == Groups!Begun(runner, s, apps, twitch, key)
  <1>1. b = IF ~key THEN [begun EXCEPT !.pc = "answered", !.answers = marked]
            ELSE [begun EXCEPT !.pc = "ask", !.todo = next]
    BY DEF Groups!Begun
  <1>2. Timed(none) /\ Timed(marked)
    BY DEF Timed, Groups!Unasked
  <1>3. PICK p, k, t, q, u, d, n, e, l, o :
          runner = [pc |-> p, kind |-> k, todo |-> t, prior |-> q, until |-> u, update |-> d,
                 answers |-> n, editions |-> e, left |-> l, own |-> o]
    BY Zenon DEF IsAsking
  <1>4. k = "growth" => IdentitiesOK(o)
    BY <1>3
  <1> DEFINE until == s.api.retry
             api == s.api
  <1>5. begun = [runner EXCEPT !.prior = api, !.until = until, !.update = Groups!Open,
                   !.answers = none, !.editions = editions]
    OBVIOUS
  <1> HIDE DEF begun, none, marked, next, editions, b, until, api
  <1>6. begun = [pc |-> p, kind |-> k, todo |-> t, prior |-> api, until |-> until,
                 update |-> Groups!Open, answers |-> none, editions |-> editions, left |-> l,
                 own |-> o]
    BY <1>3, <1>5
  <1>7. CASE key
    <2>1. b = [begun EXCEPT !.pc = "ask", !.todo = next]
      BY <1>1, <1>7
    <2>2. b = [pc |-> "ask", kind |-> k, todo |-> next, prior |-> api, until |-> until,
               update |-> Groups!Open, answers |-> none, editions |-> editions, left |-> l,
               own |-> o]
      BY <1>6, <2>1
    <2>3. IsAsking(b) /\ b.answers = none /\ b.kind = k /\ b.own = o
      BY <2>2 DEF IsAsking
    <2> QED BY <1>2, <1>4, <2>3 DEF AskingOK, b
  <1>8. CASE ~key
    <2>1. b = [begun EXCEPT !.pc = "answered", !.answers = marked]
      BY <1>1, <1>8
    <2>2. b = [pc |-> "answered", kind |-> k, todo |-> t, prior |-> api, until |-> until,
               update |-> Groups!Open, answers |-> marked, editions |-> editions, left |-> l,
               own |-> o]
      BY <1>6, <2>1
    <2>3. IsAsking(b) /\ b.answers = marked /\ b.kind = k /\ b.own = o
      BY <2>2 DEF IsAsking
    <2> QED BY <1>2, <1>4, <2>3 DEF AskingOK, b
  <1> QED BY <1>7, <1>8

LEMMA StartHourlyKeeps ==
  ASSUME GroupInv, NEW key \in BOOLEAN, Groups!StartHourly(key)
  PROVE  GroupInv' /\ Groups!KeepsIdentity
  <1> DEFINE runner == [Groups!NotAsking EXCEPT !.left = OfGroups.Requests]
  <1>1. IsAsking(runner) /\ runner.kind = "hourly"
    BY DEF IsAsking, Groups!NotAsking
  <1> HIDE DEF runner
  <1>2. AskingOK(Groups!Begun(runner, table, Groups!ForQueue(key), OfGroups.FromTwitch, key))
    BY <1>1, BegunIs DEF GroupInv
  <1> QED BY <1>2, IdentitiesStay DEF Groups!StartHourly, GroupInv, runner

LEMMA StartGrowthKeeps ==
  ASSUME GroupInv, NEW key \in BOOLEAN, Groups!StartGrowth(key)
  PROVE  GroupInv' /\ Groups!KeepsIdentity
  <1> DEFINE runner == [Groups!NotAsking EXCEPT !.kind = "growth", !.left = OfGroups.Requests,
                                                !.own = table]
  <1>1. IsAsking(runner) /\ runner.own = table
    <2> DEFINE none == [a \in OfGroups.App |-> Groups!Unasked]
               zero == [a \in OfGroups.App |-> 0]
    <2>1. Groups!NotAsking =
                      [pc |-> "idle", kind |-> "hourly", todo |-> <<>>, prior |-> Groups!Open,
                       until |-> 0,
                       update |-> Groups!Open, answers |-> none, editions |-> zero, left |-> 0,
                       own |-> <<>>]
      BY DEF Groups!NotAsking
    <2>2. runner = [Groups!NotAsking EXCEPT !.kind = "growth", !.left = OfGroups.Requests,
                                            !.own = table]
      OBVIOUS
    <2> HIDE DEF none, zero, runner
    <2>3. runner = [pc |-> "idle", kind |-> "growth", todo |-> <<>>, prior |-> Groups!Open,
                    until |-> 0, update |-> Groups!Open, answers |-> none, editions |-> zero,
                    left |-> OfGroups.Requests, own |-> table]
      BY <2>1, <2>2
    <2> QED BY <2>3 DEF IsAsking
  <1> HIDE DEF runner
  <1>2. AskingOK(Groups!Begun(runner, table, Groups!ForGrowth(table, key), {}, key))
    BY <1>1, BegunIs DEF GroupInv
  <1> QED BY <1>2, IdentitiesStay DEF Groups!StartGrowth, GroupInv, runner

LEMMA AnotherPassKeeps ==
  ASSUME GroupInv, NEW key \in BOOLEAN, Groups!AnotherPass(key)
  PROVE  GroupInv' /\ Groups!KeepsIdentity
  <1>1. AskingOK(Groups!Begun(asking, asking.own, Groups!ForGrowth(asking.own, key), {}, key))
    BY BegunIs DEF GroupInv, AskingOK
  <1> QED BY <1>1, IdentitiesStay DEF Groups!AnotherPass, GroupInv

(* An answer has the time of its request. *)
LEMMA AnswerIs ==
  ASSUME GroupInv, NEW a, NEW receipt, receipt.at \in Nat, NEW stops \in BOOLEAN
  PROVE  LET r == Groups!Answer(a, receipt, stops)
         IN AskingOK(r) /\ r.kind = asking.kind /\ r.own = asking.own
  <1> DEFINE f == [asking.answers EXCEPT ![a] = receipt]
             left == asking.left - 1
             todo == IF stops THEN <<>> ELSE Tail(asking.todo)
             r == Groups!Answer(a, receipt, stops)
  <1>1. r = [asking EXCEPT !.answers = f, !.left = left, !.todo = todo]
    BY DEF Groups!Answer
  <1>2. Timed(f)
    BY DEF Timed, GroupInv, AskingOK
  <1> HIDE DEF f, left, todo, r
  <1>3. PICK p, k, t, q, u, d, n, e, l, o :
          asking = [pc |-> p, kind |-> k, todo |-> t, prior |-> q, until |-> u, update |-> d,
                    answers |-> n, editions |-> e, left |-> l, own |-> o]
    BY Zenon DEF IsAsking, GroupInv, AskingOK
  <1>4. r = [pc |-> p, kind |-> k, todo |-> todo, prior |-> q, until |-> u, update |-> d,
             answers |-> f, editions |-> e, left |-> left, own |-> o]
    BY <1>1, <1>3
  <1>5. IsAsking(r) /\ r.answers = f /\ r.kind = asking.kind /\ r.own = asking.own
    BY <1>3, <1>4 DEF IsAsking
  <1> QED BY <1>2, <1>5 DEF AskingOK, GroupInv, r

LEMMA AskingWith ==
  ASSUME NEW r, AskingOK(r), NEW update, NEW prior
  PROVE  /\ AskingOK([r EXCEPT !.update = update])
         /\ AskingOK([r EXCEPT !.update = update, !.prior = prior])
  <1> DEFINE s == [r EXCEPT !.update = update]
             t == [r EXCEPT !.update = update, !.prior = prior]
  <1>1. PICK p, k, o, q, u, d, n, e, l, w :
          r = [pc |-> p, kind |-> k, todo |-> o, prior |-> q, until |-> u, update |-> d,
               answers |-> n, editions |-> e, left |-> l, own |-> w]
    BY Zenon DEF IsAsking, AskingOK
  <1>2. s = [r EXCEPT !.update = update] /\ t = [r EXCEPT !.update = update, !.prior = prior]
    OBVIOUS
  <1> HIDE DEF s, t
  <1>3. /\ s = [pc |-> p, kind |-> k, todo |-> o, prior |-> q, until |-> u, update |-> update,
                answers |-> n, editions |-> e, left |-> l, own |-> w]
        /\ t = [pc |-> p, kind |-> k, todo |-> o, prior |-> prior, until |-> u, update |-> update,
                answers |-> n, editions |-> e, left |-> l, own |-> w]
    BY <1>1, <1>2
  <1>4. /\ IsAsking(s) /\ s.answers = r.answers /\ s.kind = r.kind /\ s.own = r.own
        /\ IsAsking(t) /\ t.answers = r.answers /\ t.kind = r.kind /\ t.own = r.own
    BY <1>1, <1>3 DEF IsAsking
  <1> QED BY <1>4 DEF AskingOK, s, t

LEMMA AskedKeeps ==
  ASSUME GroupInv, NEW server, Groups!Ask(server)
  PROVE  GroupInv' /\ Groups!KeepsIdentity
  <1> DEFINE a == Head(asking.todo)
  <1>1. ASSUME NEW status, Groups!Stops(a, status, server) PROVE AskingOK(asking')
    <2> DEFINE cooldown == Groups!FailureCooldown(asking.prior, status, server)
               receipt == [status |-> "failed", at |-> tick, retry |-> cooldown.retry]
    <2>1. asking' = [Groups!Answer(a, receipt, TRUE) EXCEPT !.update = cooldown]
      BY <1>1 DEF Groups!Stops
    <2>2. receipt.at \in Nat
      BY DEF GroupInv
    <2> HIDE DEF receipt, cooldown, a
    <2>3. AskingOK(Groups!Answer(a, receipt, TRUE))
      BY <2>2, AnswerIs
    <2> QED BY <2>1, <2>3, AskingWith
  <1>2. ASSUME Groups!Fails(a, server) PROVE AskingOK(asking')
    <2> DEFINE wait == IF asking.kind = "growth" THEN OfGroups.Short ELSE OfGroups.Long
               retry == Groups!Max({tick + wait, server, asking.until})
               receipt == [status |-> "failed", at |-> tick, retry |-> retry]
    <2>1. asking' = Groups!Answer(a, receipt, FALSE)
      BY <1>2 DEF Groups!Fails
    <2>2. receipt.at \in Nat
      BY DEF GroupInv
    <2> HIDE DEF receipt, a
    <2> QED BY <2>1, <2>2, AnswerIs
  <1>3. ASSUME NEW found \in BOOLEAN, Groups!Replies(a, found, server) PROVE AskingOK(asking')
    <2> DEFINE wait == IF asking.kind = "hourly" /\ a \in OfGroups.FromTwitch
                       THEN OfGroups.Short ELSE OfGroups.Long
               retry == IF found THEN 0 ELSE Groups!Max({tick + wait, server, asking.until})
               open == [Groups!Open EXCEPT !.at = tick]
               receipt == [status |-> IF found THEN "resolved" ELSE "missing",
                           at |-> tick, retry |-> retry]
    <2>1. asking' = [Groups!Answer(a, receipt, FALSE) EXCEPT !.update = open, !.prior = open]
      BY <1>3 DEF Groups!Replies
    <2>2. receipt.at \in Nat
      BY DEF GroupInv
    <2> HIDE DEF receipt, open, a
    <2>3. AskingOK(Groups!Answer(a, receipt, FALSE))
      BY <2>2, AnswerIs
    <2> QED BY <2>1, <2>3, AskingWith
  <1>4. AskingOK(asking')
    BY <1>1, <1>2, <1>3 DEF Groups!Ask
  <1> QED BY <1>4, IdentitiesStay DEF Groups!Ask, GroupInv

LEMMA EndBatchKeeps ==
  ASSUME GroupInv, Groups!EndBatch
  PROVE  GroupInv' /\ Groups!KeepsIdentity
  <1>1. PICK p, k, t, q, u, d, n, e, l, o :
          asking = [pc |-> p, kind |-> k, todo |-> t, prior |-> q, until |-> u, update |-> d,
                    answers |-> n, editions |-> e, left |-> l, own |-> o]
    BY Zenon DEF IsAsking, GroupInv, AskingOK
  <1>2. asking' = [asking EXCEPT !.pc = "answered", !.todo = <<>>, !.prior = Groups!Open,
                                 !.until = 0]
    BY DEF Groups!EndBatch
  <1>3. asking' = [pc |-> "answered", kind |-> k, todo |-> <<>>, prior |-> Groups!Open, until |-> 0,
                   update |-> d, answers |-> n, editions |-> e, left |-> l, own |-> o]
    BY <1>1, <1>2
  <1>4. /\ IsAsking(asking') /\ asking'.answers = asking.answers /\ asking'.kind = asking.kind
        /\ asking'.own = asking.own
    BY <1>1, <1>3 DEF IsAsking
  <1>5. AskingOK(asking')
    BY <1>4 DEF AskingOK, GroupInv
  <1> QED BY <1>5, IdentitiesStay DEF Groups!EndBatch, GroupInv

LEMMA ApplyBatchKeeps ==
  ASSUME GroupInv, Groups!ApplyBatch
  PROVE  GroupInv' /\ Groups!KeepsIdentity
  <1> DEFINE rows == [a \in OfGroups.App |-> Groups!Applied(a)]
             cooled == Groups!WithCooldown(table, asking.update)
  <1>1. table' = [cooled EXCEPT !.rows = rows]
    BY DEF Groups!ApplyBatch
  <1>2. IdentitiesOK(cooled) /\ cooled.rows = table.rows /\ cooled.growth = table.growth
    BY CooldownKeeps DEF GroupInv
  <1>3. ASSUME NEW a \in OfGroups.App
        PROVE  /\ IsEntry(rows[a]) /\ rows[a].group \in BOOLEAN /\ rows[a].receipt.at \in Nat
               /\ table.rows[a].group => rows[a].group
               /\ rows[a].receipt.at >= table.rows[a].receipt.at
               /\ rows[a].receipt # table.rows[a].receipt =>
                    asking.editions[a] = table.rows[a].edition
    <2>1. /\ IsEntry(table.rows[a]) /\ table.rows[a].group \in BOOLEAN
          /\ table.rows[a].receipt.at \in Nat /\ asking.answers[a].at \in Nat
      BY DEF GroupInv, IdentitiesOK, AskingOK, Timed
    <2>2. CASE ~Groups!Applies(a)
      <3>1. rows[a] = table.rows[a]
        BY <2>2 DEF Groups!Applied
      <3> HIDE DEF rows
      <3> QED BY <2>1, <3>1
    <2>3. CASE Groups!Applies(a)
      <3> DEFINE receipt == asking.answers[a]
                 found == receipt.status = "resolved"
      <3>1. IsEntry(table.rows[a])
        BY <2>1
      <3>2. Groups!Applied(a) = [table.rows[a] EXCEPT !.receipt = receipt, !.group = found]
        BY <2>3 DEF Groups!Applied
      <3>3. found \in BOOLEAN /\ receipt.at \in Nat
        BY <2>1
      <3> HIDE DEF receipt, found
      <3>4. Groups!Applied(a) =
              [edition |-> table.rows[a].edition, group |-> found, receipt |-> receipt]
        BY <3>1, <3>2, RowWith
      <3>5. /\ IsEntry(Groups!Applied(a)) /\ Groups!Applied(a).group \in BOOLEAN
            /\ Groups!Applied(a).receipt = receipt
        BY <3>3, <3>4 DEF IsEntry
      <3>6. /\ ~table.rows[a].group /\ asking.editions[a] = table.rows[a].edition
            /\ receipt.at > table.rows[a].receipt.at
        BY <2>3 DEF Groups!Applies, receipt
      <3>7. rows[a] = Groups!Applied(a)
        OBVIOUS
      <3> HIDE DEF rows
      <3> QED BY <2>1, <3>3, <3>5, <3>6, <3>7
    <2> QED BY <2>2, <2>3
  <1> HIDE DEF cooled
  <1>4. table' = [rows |-> rows, growth |-> cooled.growth, api |-> cooled.api,
                  counted |-> cooled.counted]
    BY <1>1, <1>2, StateWith DEF IdentitiesOK
  <1>5. rows = [a \in OfGroups.App |-> rows[a]]
    OBVIOUS
  <1> HIDE DEF rows
  <1>6. table'.rows = rows /\ table'.growth = table.growth /\ IsPublished(table')
    BY <1>2, <1>4 DEF IsPublished
  <1>7. IdentitiesOK(table')
    BY <1>3, <1>5, <1>6 DEF IdentitiesOK, GroupInv
  <1>9. \A a \in OfGroups.App : table.growth[a].at \in Nat
    BY DEF IdentitiesOK, Timed, GroupInv
  <1>8. Groups!KeepsIdentity
    BY <1>3, <1>6, <1>9, IdentityWhen
  <1> QED BY <1>7, <1>8, NotAskingIs DEF Groups!ApplyBatch, GroupInv

LEMMA SaveGrowthKeeps ==
  ASSUME GroupInv, Groups!SaveGrowth
  PROVE  GroupInv' /\ Groups!KeepsIdentity
  <1> DEFINE cooled == Groups!WithCooldown(asking.own, asking.update)
             ours == Groups!Remembered(cooled, asking.answers)
             merged == Groups!Merged(table, asking.own, ours)
  <1>1. /\ IdentitiesOK(asking.own) /\ Timed(asking.answers) /\ IdentitiesOK(table)
        /\ table' = merged /\ tick' = tick /\ tick \in Nat
        /\ asking' = [Groups!NotAsking EXCEPT !.kind = "growth", !.pc = "saved",
                                              !.left = asking.left, !.own = merged]
    BY DEF GroupInv, AskingOK, Groups!SaveGrowth
  <1>2. IdentitiesOK(cooled)
    BY <1>1, CooldownKeeps
  <1> HIDE DEF cooled
  <1>3. IdentitiesOK(ours)
    BY <1>1, <1>2, RememberedIs
  <1> HIDE DEF ours
  <1>4. /\ IdentitiesOK(merged) /\ merged.rows = table.rows
        /\ \A a \in OfGroups.App : \/ merged.growth[a] = table.growth[a]
                                \/ /\ merged.growth[a] = ours.growth[a]
                                   /\ Groups!Accepts(table, a, ours.growth[a])
    BY <1>1, <1>3, MergedIdentities
  <1> HIDE DEF merged
  <1>5. AskingOK(asking')
    <2> DEFINE none == [a \in OfGroups.App |-> Groups!Unasked]
               zero == [a \in OfGroups.App |-> 0]
               left == asking.left
    <2>1. Groups!NotAsking =
                      [pc |-> "idle", kind |-> "hourly", todo |-> <<>>, prior |-> Groups!Open,
                       until |-> 0,
                       update |-> Groups!Open, answers |-> none, editions |-> zero, left |-> 0,
                       own |-> <<>>]
      BY DEF Groups!NotAsking
    <2>2. Timed(none)
      BY DEF Timed, Groups!Unasked
    <2> HIDE DEF none, zero
    <2>3. asking' = [Groups!NotAsking EXCEPT !.kind = "growth", !.pc = "saved", !.left = left,
                                             !.own = merged]
      BY <1>1
    <2> HIDE DEF left
    <2>4. asking' = [pc |-> "saved", kind |-> "growth", todo |-> <<>>, prior |-> Groups!Open,
                     until |-> 0, update |-> Groups!Open, answers |-> none, editions |-> zero,
                     left |-> left, own |-> merged]
      BY <2>1, <2>3
    <2>5. IsAsking(asking') /\ asking'.answers = none /\ asking'.own = merged
      BY <2>4 DEF IsAsking
    <2> QED BY <1>4, <2>2, <2>5 DEF AskingOK
  <1>6. ASSUME NEW a \in OfGroups.App
        PROVE  /\ table.growth[a].status = "resolved" => merged.growth[a].status = "resolved"
               /\ merged.growth[a].at >= table.growth[a].at
               /\ merged.growth[a] # table.growth[a] =>
                    Groups!Known(merged, a) = (merged.growth[a].status = "resolved")
    <2>1. table.growth[a].at \in Nat /\ ours.growth[a].at \in Nat
      BY <1>1, <1>3 DEF IdentitiesOK, Timed
    <2>2. CASE merged.growth[a] = table.growth[a]
      BY <2>1, <2>2
    <2>3. CASE merged.growth[a] = ours.growth[a] /\ Groups!Accepts(table, a, ours.growth[a])
      <3>1. /\ ours.growth[a].at > table.growth[a].at
            /\ ours.growth[a].status = "resolved" \/ ~Groups!Known(table, a)
        BY <1>1, <2>1, <2>3, AcceptedIsNewer
      <3>2. table.rows[a].group \in BOOLEAN
        BY <1>1 DEF IdentitiesOK
      <3> QED BY <1>4, <2>1, <2>3, <3>1, <3>2 DEF Groups!Known
    <2> QED BY <1>4, <2>2, <2>3
  <1>8. \A a \in OfGroups.App : table.rows[a].receipt.at \in Nat
    BY <1>1 DEF IdentitiesOK
  <1>7. Groups!KeepsIdentity
    BY <1>1, <1>4, <1>6, <1>8, IdentityWhen
  <1> QED BY <1>1, <1>4, <1>5, <1>7 DEF GroupInv

LEMMA EditsKeep ==
  ASSUME GroupInv, NEW a \in OfGroups.App,
         \/ Groups!Redate(a) \/ Groups!Leave(a) \/ Groups!Count(a)
         \/ \E group \in BOOLEAN : Groups!List(a, group)
  PROVE  GroupInv' /\ Groups!KeepsIdentity
  <1>1. asking' = asking /\ tick' = tick
    BY DEF Groups!Redate, Groups!Leave, Groups!Count, Groups!List, Groups!Edit
  <1>2. /\ IsPublished(table) /\ table.rows = [b \in OfGroups.App |-> table.rows[b]]
        /\ \A b \in OfGroups.App : /\ IsEntry(table.rows[b]) /\ table.rows[b].group \in BOOLEAN
                                   /\ table.rows[b].receipt.at \in Nat
    BY DEF GroupInv, IdentitiesOK
  <1>3. PICK r, f, i, c : table = [rows |-> r, growth |-> f, api |-> i, counted |-> c]
    BY <1>2, Zenon DEF IsPublished
  <1> DEFINE old == table.rows[a]
  <1>4. IsEntry(old) /\ old.group \in BOOLEAN /\ old.receipt.at \in Nat
    BY <1>2
  <1>5. ASSUME NEW entry, IsEntry(entry), entry.group \in BOOLEAN, entry.receipt.at \in Nat,
               table' = [table EXCEPT !.rows[a] = entry],
               table.rows[a] # Groups!NoRow /\ entry # Groups!NoRow =>
                 (table.rows[a].group => entry.group) /\ entry.receipt = table.rows[a].receipt
        PROVE  IdentitiesOK(table)' /\ Groups!KeepsIdentity
    <2> DEFINE rows == [table.rows EXCEPT ![a] = entry]
    <2>1. table' = [table EXCEPT !.rows = rows]
      BY <1>5
    <2>2. rows = [b \in OfGroups.App |-> IF b = a THEN entry ELSE table.rows[b]]
      BY <1>2
    <2> HIDE DEF rows
    <2>3. rows = [b \in OfGroups.App |-> rows[b]]
      BY <2>2
    <2>4. \A b \in OfGroups.App :
            /\ IsEntry(rows[b]) /\ rows[b].group \in BOOLEAN /\ rows[b].receipt.at \in Nat
            /\ table.rows[b] # Groups!NoRow /\ rows[b] # Groups!NoRow =>
                 /\ table.rows[b].group => rows[b].group
                 /\ rows[b].receipt = table.rows[b].receipt
      BY <1>2, <1>5, <2>2
    <2> QED BY <2>1, <2>3, <2>4, RowsKeep DEF GroupInv
  <1>6. CASE Groups!Redate(a)
    <2> DEFINE edition == old.edition + 1
               entry == [old EXCEPT !.edition = edition]
    <2>1. table' = [table EXCEPT !.rows[a] = entry]
      BY <1>3, <1>6 DEF Groups!Redate
    <2> HIDE DEF edition, old
    <2>2. entry = [edition |-> edition, group |-> old.group, receipt |-> old.receipt]
      BY <1>4, RowWith
    <2> HIDE DEF entry
    <2>3. IsEntry(entry) /\ entry.group = old.group /\ entry.receipt = old.receipt
      BY <2>2 DEF IsEntry
    <2>4. IdentitiesOK(table)' /\ Groups!KeepsIdentity
      BY <1>4, <1>5, <2>1, <2>3 DEF old
    <2> QED BY <1>1, <2>4 DEF GroupInv
  <1>7. CASE Groups!Leave(a)
    <2>1. IsEntry(Groups!NoRow) /\ Groups!NoRow.group \in BOOLEAN /\ Groups!NoRow.receipt.at \in Nat
      BY DEF Groups!NoRow, IsEntry, Groups!Unasked
    <2> QED BY <1>1, <1>5, <1>7, <2>1 DEF Groups!Leave, GroupInv
  <1>8. CASE \E group \in BOOLEAN : Groups!List(a, group)
    <2>1. PICK group \in BOOLEAN : Groups!List(a, group)
      BY <1>8
    <2> DEFINE edition == Groups!Max({1, old.edition})
               known == old.group \/ group
               entry == [old EXCEPT !.edition = edition, !.group = known]
    <2>2. table' = [table EXCEPT !.rows[a] = entry]
      BY <2>1 DEF Groups!List
    <2>3. known \in BOOLEAN /\ (old.group => known)
      BY <1>4
    <2>7. entry = [old EXCEPT !.edition = edition, !.group = known]
      OBVIOUS
    <2> HIDE DEF edition, known, old, entry
    <2>4. entry = [edition |-> edition, group |-> known, receipt |-> old.receipt]
      BY <1>4, <2>7, RowWith
    <2>5. IsEntry(entry) /\ entry.group = known /\ entry.receipt = old.receipt
      BY <2>4 DEF IsEntry
    <2>6. IdentitiesOK(table)' /\ Groups!KeepsIdentity
      BY <1>4, <1>5, <2>2, <2>3, <2>5 DEF old
    <2> QED BY <1>1, <2>6 DEF GroupInv
  <1>9. CASE Groups!Count(a)
    <2> DEFINE covered == table.counted \cup {a}
    <2>1. table' = [table EXCEPT !.counted = covered]
      BY <1>9 DEF Groups!Count
    <2> HIDE DEF covered
    <2>2. table' = [rows |-> table.rows, growth |-> table.growth, api |-> table.api,
                    counted |-> covered]
      BY <1>2, <2>1, StateWith
    <2>3. table'.rows = table.rows /\ table'.growth = table.growth /\ IsPublished(table')
      BY <2>2 DEF IsPublished
    <2>5. IdentitiesOK(table')
      BY <2>3 DEF IdentitiesOK, GroupInv
    <2>6. \A b \in OfGroups.App : table.growth[b].at \in Nat /\ table.rows[b].receipt.at \in Nat
      BY DEF IdentitiesOK, GroupInv, Timed
    <2>7. Groups!KeepsIdentity
      BY <2>3, <2>6, IdentityWhen
    <2>4. IdentitiesOK(table') /\ Groups!KeepsIdentity
      BY <2>5, <2>7
    <2> QED BY <1>1, <2>4 DEF GroupInv
  <1> QED BY <1>6, <1>7, <1>8, <1>9

LEMMA GroupsStart == Groups!Init => GroupInv
  <1> SUFFICES ASSUME Groups!Init PROVE GroupInv
    OBVIOUS
  <1> DEFINE first == [Groups!NoRow EXCEPT !.edition = 1]
             rows == [a \in OfGroups.App |-> first]
             none == [a \in OfGroups.App |-> Groups!Unasked]
  <1>1. table = [rows |-> rows, growth |-> none, api |-> Groups!Open, counted |-> {}]
    BY DEF Groups!Init
  <1>2. IsEntry(first) /\ first.group \in BOOLEAN /\ first.receipt.at \in Nat
    <2>1. IsEntry(Groups!NoRow) /\ Groups!NoRow.group \in BOOLEAN /\ Groups!NoRow.receipt.at \in Nat
      BY DEF Groups!NoRow, IsEntry, Groups!Unasked
    <2> DEFINE one == 1
    <2> HIDE DEF one
    <2>2. [Groups!NoRow EXCEPT !.edition = one] =
            [edition |-> one, group |-> Groups!NoRow.group, receipt |-> Groups!NoRow.receipt]
      BY <2>1, RowWith
    <2>3. first = [edition |-> one, group |-> Groups!NoRow.group, receipt |-> Groups!NoRow.receipt]
      BY <2>2 DEF one
    <2> HIDE DEF first
    <2>4. IsEntry(first) /\ first.group = Groups!NoRow.group /\ first.receipt = Groups!NoRow.receipt
      BY <2>3 DEF IsEntry
    <2> QED BY <2>1, <2>4
  <1>3. Timed(none)
    BY DEF Timed, Groups!Unasked
  <1> HIDE DEF first, none
  <1>4. IdentitiesOK(table)
    BY <1>1, <1>2, <1>3 DEF IdentitiesOK, IsPublished
  <1> QED BY <1>4, NotAskingIs DEF Groups!Init, GroupInv

LEMMA GroupsStep ==
  GroupInv /\ [Groups!Next]_(Groups!groups) => GroupInv' /\ Groups!KeepsIdentity
  <1> SUFFICES ASSUME GroupInv, [Groups!Next]_(Groups!groups)
               PROVE  GroupInv' /\ Groups!KeepsIdentity
    OBVIOUS
  <1>1. ASSUME NEW server, Groups!Ask(server) PROVE GroupInv' /\ Groups!KeepsIdentity
    BY <1>1, AskedKeeps
  <1>2. CASE Groups!FinishGrowth \/ Groups!Die
    BY <1>2, NotAskingIs, IdentitiesStay DEF Groups!FinishGrowth, Groups!Die, GroupInv
  <1>3. CASE Groups!Tick
    BY <1>3, IdentitiesStay DEF Groups!Tick, GroupInv
  <1>4. CASE UNCHANGED Groups!groups
    BY <1>4, IdentitiesStay DEF Groups!groups, GroupInv
  <1> QED BY <1>1, <1>2, <1>3, <1>4, StartHourlyKeeps, StartGrowthKeeps, AnotherPassKeeps,
             EndBatchKeeps, ApplyBatchKeeps, SaveGrowthKeeps, EditsKeep DEF Groups!Next

(* IdentityIsKept *)
THEOREM IdentityAlways == Groups!Spec => Groups!IdentityIsKept
  BY GroupsStart, GroupsStep, PTL DEF Groups!Spec, Groups!IdentityIsKept
--------------------------------------------------------------------------------
(* The types of the checkpoint and of the run, and the cooldown of the API. *)

Entries == [edition : 0..(OfGroups.MaxEdit + 1), group : BOOLEAN, receipt : Groups!Receipts]
ApiOK(c) ==
  /\ c.at \in 0..OfGroups.MaxTime /\ c.retry \in 0..(OfGroups.MaxTime + OfGroups.Long)
  /\ c.retry # 0 => c.status # "available" /\ c.retry > c.at
StateTypes(s) ==
  /\ IsPublished(s)
  /\ s.growth \in [OfGroups.App -> Groups!Receipts] /\ s.rows \in [OfGroups.App -> Entries]
  /\ s.counted \subseteq OfGroups.App /\ Groups!Valid(s) /\ ApiOK(s.api)

(* No more is to ask than the budget allows. *)
Queued(todo, left) == \E S : todo \in Seq(S) /\ Len(todo) <= left

(* A run that may still ask, or has been answered, has found the API open; and a
   refusal ends its asking. *)
Served(r, api, now) ==
  /\ r.kind = "growth" => r.own.api = api
  /\ r.pc # "ask" => r.todo = <<>>
  /\ r.update.at # 0 \/ r.todo # <<>> => api.retry <= now
  /\ r.update.retry # 0 => r.todo = <<>>
AskTypes(r) ==
  /\ IsAsking(r)
  /\ r.answers \in [OfGroups.App -> Groups!Receipts]
  /\ r.left \in 0..OfGroups.Requests /\ r.until \in 0..(OfGroups.MaxTime + OfGroups.Long)
  /\ ApiOK(r.update) /\ Queued(r.todo, r.left)
  /\ r.kind = "growth" => StateTypes(r.own)
  /\ r.pc = "saved" => r.kind = "growth"

GroupTypes ==
  /\ StateTypes(table) /\ AskTypes(asking) /\ Served(asking, table.api, tick)
  /\ tick \in 1..OfGroups.MaxTime /\ changes \in 0..OfGroups.MaxEdit
  /\ died \in 0..OfGroups.MaxLoss
  /\ \A a \in OfGroups.App : table.rows[a].edition <= changes + 1

LEMMA GroupsGiven ==
  /\ OfGroups.App \subseteq Nat /\ OfGroups.Requests \in Nat \ {0}
  /\ OfGroups.Short \in Nat \ {0} /\ OfGroups.Long \in Nat \ {0} /\ OfGroups.Short <= OfGroups.Long
  /\ OfGroups.MaxTime \in Nat \ {0} /\ OfGroups.MaxEdit \in Nat /\ OfGroups.MaxLoss \in Nat
  <1>1. Groups!GroupAssumption
    BY SteamQueuesAssumption
  <1> QED BY <1>1 DEF Groups!GroupAssumption

LEMMA ReceiptsAre ==
  /\ Groups!Unasked \in Groups!Receipts /\ Groups!NoRow \in Entries
  /\ \A status \in {"no key", "failed", "missing", "resolved"}, at \in 0..OfGroups.MaxTime,
        retry \in 0..(OfGroups.MaxTime + OfGroups.Long) :
       [status |-> status, at |-> at, retry |-> retry] \in Groups!Receipts
  BY GroupsGiven DEF Groups!Receipts, Groups!Unasked, Groups!NoRow, Entries

LEMMA OpenIs ==
  /\ ApiOK(Groups!Open) /\ Groups!Open.at = 0 /\ Groups!Open.retry = 0
  /\ \A at \in 0..OfGroups.MaxTime :
       ApiOK([Groups!Open EXCEPT !.at = at]) /\ [Groups!Open EXCEPT !.at = at].retry = 0
  BY GroupsGiven DEF ApiOK, Groups!Open

(* The greater of numbers. *)
LEMMA GreatestIs ==
  ASSUME NEW x \in Nat, NEW y \in Nat, NEW z \in Nat
  PROVE  /\ Groups!Max({x, y}) \in {x, y} /\ x <= Groups!Max({x, y}) /\ y <= Groups!Max({x, y})
         /\ Groups!Max({x, y, z}) \in {x, y, z} /\ x <= Groups!Max({x, y, z})
  <1>1. \E m \in {x, y} : \A n \in {x, y} : m >= n
    <2>1. x >= y \/ y >= x
      OBVIOUS
    <2> QED BY <2>1
  <1>2. Groups!Max({x, y}) \in {x, y} /\ \A n \in {x, y} : Groups!Max({x, y}) >= n
    BY <1>1, Zenon DEF Groups!Max
  <1>3. \E m \in {x, y, z} : \A n \in {x, y, z} : m >= n
    <2>1. (x >= y /\ x >= z) \/ (y >= x /\ y >= z) \/ (z >= x /\ z >= y)
      OBVIOUS
    <2> QED BY <2>1
  <1>4. Groups!Max({x, y, z}) \in {x, y, z} /\ \A n \in {x, y, z} : Groups!Max({x, y, z}) >= n
    BY <1>3, Zenon DEF Groups!Max
  <1>5. Groups!Max({x, y}) >= x /\ Groups!Max({x, y}) >= y /\ Groups!Max({x, y, z}) >= x
    BY <1>2, <1>4
  <1>6. Groups!Max({x, y}) \in Nat /\ Groups!Max({x, y, z}) \in Nat
    BY <1>2, <1>4
  <1> QED BY <1>2, <1>4, <1>5, <1>6

(* A wait is not longer than the longest. *)
LEMMA BackoffIs ==
  ASSUME NEW status, NEW attempts
  PROVE  Groups!Backoff(status, attempts) \in 1..OfGroups.Long
  <1> DEFINE longest == IF status = "network" THEN OfGroups.Short ELSE OfGroups.Long
             S == {longest} \cup {wait \in 1..longest : wait = 2 ^ (attempts - 1)}
  <1>1. longest \in 1..OfGroups.Long
    BY GroupsGiven
  <1>2. S \in SUBSET Nat /\ S # {} /\ S \subseteq 1..OfGroups.Long
    BY <1>1, GroupsGiven
  <1>3. Groups!Backoff(status, attempts) = IF status = "forbidden" THEN OfGroups.Long ELSE Groups!Min(S)
    BY DEF Groups!Backoff
  <1> HIDE DEF S
  <1>4. \E m \in S : \A x \in S : m <= x
    BY <1>2, MinimumIs
  <1>5. Groups!Min(S) \in S
    BY <1>4, Zenon DEF Groups!Min
  <1>6. Groups!Min(S) \in 1..OfGroups.Long
    BY <1>2, <1>5
  <1>7. OfGroups.Long \in 1..OfGroups.Long
    BY GroupsGiven
  <1> QED BY <1>3, <1>6, <1>7

(* A failure closes the API until later. *)
LEMMA FailureIs ==
  ASSUME tick \in 1..OfGroups.MaxTime, NEW prior, NEW status \in {"network", "limited", "forbidden"},
         NEW server \in {0, tick + OfGroups.Long}
  PROVE  LET c == Groups!FailureCooldown(prior, status, server)
         IN ApiOK(c) /\ c.at = tick
  <1> DEFINE attempts == IF prior.status = status THEN prior.attempts + 1 ELSE 1
             retry == Groups!Max({tick + Groups!Backoff(status, attempts), server})
             c == Groups!FailureCooldown(prior, status, server)
  <1>1. c = [status |-> status, at |-> tick, attempts |-> attempts, retry |-> retry]
    BY DEF Groups!FailureCooldown
  <1> HIDE DEF attempts
  <1> DEFINE w == Groups!Backoff(status, attempts)
  <1>2. w \in 1..OfGroups.Long
    BY BackoffIs
  <1> HIDE DEF w
  <1>3. tick + w \in Nat /\ server \in Nat /\ tick \in Nat /\ tick + w > tick
        /\ tick + w <= OfGroups.MaxTime + OfGroups.Long /\ server <= OfGroups.MaxTime + OfGroups.Long
    BY <1>2, GroupsGiven
  <1>4. Groups!Max({tick + w, server}) \in {tick + w, server} /\ tick + w <= Groups!Max({tick + w, server})
    BY <1>3, GreatestIs
  <1>5. retry = Groups!Max({tick + w, server})
    BY DEF w
  <1> HIDE DEF retry, c
  <1>6. retry \in Nat /\ retry > tick /\ retry <= OfGroups.MaxTime + OfGroups.Long
    BY <1>3, <1>4, <1>5
  <1>7. c.at = tick /\ c.retry = retry /\ c.status = status
    BY <1>1
  <1> QED BY <1>6, <1>7, GroupsGiven DEF ApiOK, c
--------------------------------------------------------------------------------
(* The helpers *)

LEMMA StateFields ==
  ASSUME NEW s, NEW rows, NEW growth, NEW api, NEW done,
         s = [rows |-> rows, growth |-> growth, api |-> api, counted |-> done]
  PROVE  /\ IsPublished(s) /\ s.rows = rows /\ s.growth = growth /\ s.api = api /\ s.counted = done
  BY DEF IsPublished

(* What makes a checkpoint valid. *)
ReceiptValid(r) == (r.retry # 0 => r.retry > r.at) /\ (r.status = "missing" => r.retry # 0)
LEMMA ValidIs ==
  ASSUME NEW s, ApiOK(s.api)
  PROVE  Groups!Valid(s) <=> \A a \in OfGroups.App : ReceiptValid(s.growth[a])
  BY DEF Groups!Valid, ReceiptValid, ApiOK

LEMMA CooldownTypes ==
  ASSUME NEW s, StateTypes(s), NEW update, ApiOK(update)
  PROVE  LET t == Groups!WithCooldown(s, update)
         IN /\ StateTypes(t) /\ t.rows = s.rows /\ t.growth = s.growth /\ t.counted = s.counted
            /\ t.api \in {s.api, update} /\ (update.at = 0 => t = s)
  <1> DEFINE t == Groups!WithCooldown(s, update)
  <1>1. ASSUME t = [s EXCEPT !.api = update] PROVE StateTypes(t) /\ t.rows = s.rows /\ t.growth = s.growth /\ t.counted = s.counted /\ t.api = update
    <2>1. t = [rows |-> s.rows, growth |-> s.growth, api |-> update, counted |-> s.counted]
      BY <1>1, StateWith DEF StateTypes
    <2> HIDE DEF t
    <2>2. t.rows = s.rows /\ t.growth = s.growth /\ t.api = update /\ t.counted = s.counted /\ IsPublished(t)
      BY <2>1, StateFields
    <2>3. Groups!Valid(t)
      BY <2>2, ValidIs DEF StateTypes
    <2> QED BY <2>2, <2>3 DEF StateTypes
  <1>2. t = s \/ (t = [s EXCEPT !.api = update] /\ update.at > s.api.at)
    BY DEF Groups!WithCooldown
  <1>3. s.api.at \in Nat /\ update.at \in Nat
    BY GroupsGiven DEF StateTypes, ApiOK
  <1> HIDE DEF t
  <1>4. update.at = 0 => t = s
    BY <1>2, <1>3
  <1> QED BY <1>1, <1>2, <1>4 DEF t

LEMMA GrowthWith ==
  ASSUME NEW s, StateTypes(s), NEW f \in [OfGroups.App -> Groups!Receipts]
  PROVE  LET t == [s EXCEPT !.growth = f]
         IN /\ t.rows = s.rows /\ t.growth = f /\ t.counted = s.counted /\ t.api = s.api
            /\ (\A a \in OfGroups.App : ReceiptValid(f[a])) => StateTypes(t)
  <1> DEFINE t == [s EXCEPT !.growth = f]
  <1>1. t = [rows |-> s.rows, growth |-> f, api |-> s.api, counted |-> s.counted]
    BY StateWith DEF StateTypes
  <1> HIDE DEF t
  <1>2. t.rows = s.rows /\ t.growth = f /\ t.api = s.api /\ t.counted = s.counted /\ IsPublished(t)
    BY <1>1, StateFields
  <1>3. ASSUME \A a \in OfGroups.App : ReceiptValid(f[a]) PROVE StateTypes(t)
    <2>1. Groups!Valid(t)
      BY <1>2, <1>3, ValidIs DEF StateTypes
    <2> QED BY <1>2, <2>1 DEF StateTypes
  <1> QED BY <1>2, <1>3 DEF t

(* What a run remembers is valid by the check that it makes. *)
LEMMA RememberedTypes ==
  ASSUME NEW s, StateTypes(s), NEW answers \in [OfGroups.App -> Groups!Receipts],
         Groups!Valid(Groups!Remembered(s, answers))
  PROVE  StateTypes(Groups!Remembered(s, answers)) /\ Groups!Remembered(s, answers).api = s.api
  <1> DEFINE f == [a \in OfGroups.App |->
                     IF Groups!Accepts(s, a, answers[a]) THEN answers[a] ELSE s.growth[a]]
             t == Groups!Remembered(s, answers)
  <1>1. t = [s EXCEPT !.growth = f]
    BY DEF Groups!Remembered
  <1>2. f \in [OfGroups.App -> Groups!Receipts]
    BY DEF StateTypes
  <1> HIDE DEF f
  <1>3. t.growth = f /\ t.api = s.api
    BY <1>1, <1>2, GrowthWith
  <1>4. \A a \in OfGroups.App : ReceiptValid(f[a])
    <2>1. ApiOK(t.api)
      BY <1>3 DEF StateTypes
    <2> HIDE DEF t
    <2>2. \A a \in OfGroups.App : ReceiptValid(t.growth[a])
      BY <2>1, ValidIs DEF t
    <2> QED BY <1>3, <2>2
  <1>5. StateTypes(t)
    BY <1>1, <1>2, <1>4, GrowthWith
  <1> QED BY <1>3, <1>5

LEMMA MergedTypes ==
  ASSUME NEW s, StateTypes(s), NEW base, NEW ours, StateTypes(ours)
  PROVE  LET t == Groups!Merged(s, base, ours)
         IN /\ StateTypes(t) /\ t.rows = s.rows
            /\ ours.api = base.api => t.api = s.api
            /\ t.api \in {s.api, ours.api}
  <1> DEFINE changed == {a \in OfGroups.App : ours.growth[a] # base.growth[a]}
             f == [a \in OfGroups.App |-> IF a \in changed /\ Groups!Accepts(s, a, ours.growth[a])
                                 THEN ours.growth[a] ELSE s.growth[a]]
             merged == [s EXCEPT !.growth = f]
             t == Groups!Merged(s, base, ours)
  <1>1. t = IF ours.api = base.api THEN merged ELSE Groups!WithCooldown(merged, ours.api)
    BY DEF Groups!Merged
  <1>2. f \in [OfGroups.App -> Groups!Receipts]
    BY DEF StateTypes
  <1>3. \A a \in OfGroups.App : ReceiptValid(s.growth[a]) /\ ReceiptValid(ours.growth[a])
    BY ValidIs DEF StateTypes
  <1>4. \A a \in OfGroups.App : ReceiptValid(f[a])
    <2>1. \A a \in OfGroups.App : f[a] = s.growth[a] \/ f[a] = ours.growth[a]
      OBVIOUS
    <2> HIDE DEF f
    <2> QED BY <1>3, <2>1, Zenon
  <1> HIDE DEF f
  <1>5. StateTypes(merged) /\ merged.rows = s.rows /\ merged.api = s.api
    BY <1>2, <1>4, GrowthWith
  <1>6. ApiOK(ours.api)
    BY DEF StateTypes
  <1> HIDE DEF merged, t
  <1>7. /\ StateTypes(Groups!WithCooldown(merged, ours.api))
        /\ Groups!WithCooldown(merged, ours.api).rows = merged.rows
        /\ Groups!WithCooldown(merged, ours.api).api \in {merged.api, ours.api}
    BY <1>5, <1>6, CooldownTypes
  <1> QED BY <1>1, <1>5, <1>7 DEF t

(* What is selected fits the budget. *)
LEMMA SelectedFits ==
  ASSUME NEW apps \in SUBSET OfGroups.App, NEW twitch, NEW n \in Nat
  PROVE  Queued(Groups!Selected(apps, twitch, n), n)
  <1> DEFINE order == Groups!InOrder(apps, twitch)
             k == Groups!Min({n, Groups!Cardinality(apps)})
             todo == [i \in 1..k |-> order[i]]
  <1>1. Groups!Cardinality(apps) \in Nat
    <2>1. IsFiniteSet(OfGroups.App)
      <3>1. Groups!IsFiniteSet(OfGroups.App)
        BY SteamQueuesAssumption DEF Groups!GroupAssumption
      <3> QED BY <3>1, Zenon DEF Groups!IsFiniteSet, IsFiniteSet
    <2>2. Cardinality(apps) \in Nat
      BY <2>1, FS_Subset, FS_CardinalityType
    <2>3. Groups!Cardinality(apps) = Cardinality(apps)
      BY Zenon DEF Groups!Cardinality, Cardinality
    <2> QED BY <2>2, <2>3
  <1>2. k \in Nat /\ k <= n
    <2> DEFINE c == Groups!Cardinality(apps)
    <2>1. {n, c} \in SUBSET Nat /\ {n, c} # {}
      BY <1>1
    <2>2. \E m \in {n, c} : \A x \in {n, c} : m <= x
      BY <2>1, MinimumIs
    <2>3. k \in {n, c} /\ \A x \in {n, c} : k <= x
      BY <2>2, Zenon DEF Groups!Min
    <2> QED BY <1>1, <2>3
  <1>3. Groups!Selected(apps, twitch, n) = todo
    BY DEF Groups!Selected
  <1> DEFINE T == {order[i] : i \in 1..k}
  <1> HIDE DEF order, k
  <1>4. todo \in [1..k -> T]
    OBVIOUS
  <1> HIDE DEF todo, T
  <1>5. todo \in Seq(T) /\ Len(todo) = k
    BY <1>2, <1>4, SeqDef, LenProperties
  <1> QED BY <1>2, <1>3, <1>5 DEF Queued
--------------------------------------------------------------------------------
(* The run *)

LEMMA AskFields ==
  ASSUME NEW r, NEW p, NEW k, NEW t, NEW q, NEW u, NEW d, NEW n, NEW e, NEW l, NEW o,
         r = [pc |-> p, kind |-> k, todo |-> t, prior |-> q, until |-> u, update |-> d,
              answers |-> n, editions |-> e, left |-> l, own |-> o]
  PROVE  /\ IsAsking(r) /\ r.pc = p /\ r.kind = k /\ r.todo = t /\ r.prior = q /\ r.until = u
         /\ r.update = d /\ r.answers = n /\ r.editions = e /\ r.left = l /\ r.own = o
  BY DEF IsAsking

LEMMA NothingQueued == ASSUME NEW n \in Nat PROVE Queued(<<>>, n)
  <1>1. <<>> \in Seq({}) /\ Len(<<>>) = 0
    BY EmptySeq
  <1> QED BY <1>1 DEF Queued

LEMMA NotAskingFields ==
  /\ AskTypes(Groups!NotAsking) /\ Groups!NotAsking.kind = "hourly" /\ Groups!NotAsking.todo = <<>>
  /\ Groups!NotAsking.update = Groups!Open /\ Groups!NotAsking.pc = "idle"
  /\ Groups!NotAsking.answers \in [OfGroups.App -> Groups!Receipts]
  <1> DEFINE none == [a \in OfGroups.App |-> Groups!Unasked]
             zero == [a \in OfGroups.App |-> 0]
  <1>1. Groups!NotAsking =
          [pc |-> "idle", kind |-> "hourly", todo |-> <<>>, prior |-> Groups!Open, until |-> 0,
           update |-> Groups!Open, answers |-> none, editions |-> zero, left |-> 0, own |-> <<>>]
    BY DEF Groups!NotAsking
  <1>2. none \in [OfGroups.App -> Groups!Receipts]
    BY ReceiptsAre
  <1> HIDE DEF none, zero
  <1>3. /\ IsAsking(Groups!NotAsking) /\ Groups!NotAsking.kind = "hourly" /\ Groups!NotAsking.todo = <<>>
        /\ Groups!NotAsking.update = Groups!Open /\ Groups!NotAsking.pc = "idle"
        /\ Groups!NotAsking.answers = none /\ Groups!NotAsking.left = 0 /\ Groups!NotAsking.until = 0
    BY <1>1, AskFields
  <1> QED BY <1>2, <1>3, OpenIs, GroupsGiven, NothingQueued DEF AskTypes

(* At rest, nothing is asked of the API. *)
LEMMA RestServed ==
  ASSUME NEW r, NEW api, NEW now, r.kind = "growth" => r.own.api = api, r.todo = <<>>,
         r.update.at = 0, r.update.retry = 0
  PROVE  Served(r, api, now)
  BY DEF Served

(* A run reads a checkpoint: one that it has, or that there is. *)
LEMMA BegunTypes ==
  ASSUME NEW r, IsAsking(r), r.left \in 0..OfGroups.Requests, r.todo = <<>>,
         r.kind = "growth" => StateTypes(r.own) /\ r.own.api = table.api,
         NEW s, StateTypes(s), s.api = table.api, tick \in 1..OfGroups.MaxTime,
         NEW apps \in SUBSET OfGroups.App, NEW twitch, NEW key \in BOOLEAN
  PROVE  LET b == Groups!Begun(r, s, apps, twitch, key)
         IN AskTypes(b) /\ Served(b, table.api, tick)
  <1> DEFINE todo == Groups!Selected(apps, twitch, r.left)
             unkeyed == [status |-> "no key", at |-> tick, retry |-> tick + 1]
             none == [a \in OfGroups.App |-> Groups!Unasked]
             marked == [a \in OfGroups.App |->
                          IF a \in Groups!Range(todo) THEN unkeyed ELSE Groups!Unasked]
             next == IF s.api.retry > tick THEN <<>> ELSE todo
             editions == [a \in OfGroups.App |-> s.rows[a].edition]
             until == s.api.retry
             api == s.api
             begun == [r EXCEPT !.prior = api, !.until = until, !.update = Groups!Open,
                         !.answers = none, !.editions = editions]
             b == Groups!Begun(r, s, apps, twitch, key)
  <1>1. b = IF ~key THEN [begun EXCEPT !.pc = "answered", !.answers = marked]
            ELSE [begun EXCEPT !.pc = "ask", !.todo = next]
    BY DEF Groups!Begun
  <1>2. /\ unkeyed \in Groups!Receipts
        /\ none \in [OfGroups.App -> Groups!Receipts] /\ marked \in [OfGroups.App -> Groups!Receipts]
    <2>1. tick \in 0..OfGroups.MaxTime /\ tick + 1 \in 0..(OfGroups.MaxTime + OfGroups.Long)
      BY GroupsGiven
    <2>2. unkeyed \in Groups!Receipts
      BY <2>1, ReceiptsAre
    <2> HIDE DEF unkeyed
    <2> QED BY <2>2, ReceiptsAre
  <1>3. Queued(todo, r.left) /\ Queued(<<>>, r.left)
    BY SelectedFits, NothingQueued
  <1>4. Queued(next, r.left) /\ (next # <<>> => s.api.retry <= tick)
    <2>1. s.api.retry \in Nat /\ tick \in Nat
      BY GroupsGiven DEF StateTypes, ApiOK
    <2> HIDE DEF todo
    <2> QED BY <1>3, <2>1
  <1>5. until \in 0..(OfGroups.MaxTime + OfGroups.Long)
    BY DEF StateTypes, ApiOK
  <1>6. PICK p, k, t, q, u, d, n, e, l, o :
          r = [pc |-> p, kind |-> k, todo |-> t, prior |-> q, until |-> u, update |-> d,
               answers |-> n, editions |-> e, left |-> l, own |-> o]
    BY Zenon DEF IsAsking
  <1>7. /\ k = "growth" => StateTypes(o) /\ o.api = table.api
        /\ l \in 0..OfGroups.Requests /\ t = <<>> /\ r.left = l
    <2>1. r.kind = k /\ r.own = o /\ r.left = l /\ r.todo = t
      BY <1>6, AskFields
    <2> QED BY <2>1
  <1>8. begun = [r EXCEPT !.prior = api, !.until = until, !.update = Groups!Open,
                   !.answers = none, !.editions = editions]
    OBVIOUS
  <1> HIDE DEF begun, none, marked, next, editions, b, until, api, todo, unkeyed
  <1>9. begun = [pc |-> p, kind |-> k, todo |-> t, prior |-> api, until |-> until,
                 update |-> Groups!Open, answers |-> none, editions |-> editions, left |-> l,
                 own |-> o]
    BY <1>6, <1>8
  <1>10. CASE key
    <2>1. b = [begun EXCEPT !.pc = "ask", !.todo = next]
      BY <1>1, <1>10
    <2>2. b = [pc |-> "ask", kind |-> k, todo |-> next, prior |-> api, until |-> until,
               update |-> Groups!Open, answers |-> none, editions |-> editions, left |-> l,
               own |-> o]
      BY <1>9, <2>1
    <2>3. /\ IsAsking(b) /\ b.pc = "ask" /\ b.kind = k /\ b.todo = next /\ b.until = until
          /\ b.update = Groups!Open /\ b.answers = none /\ b.left = l /\ b.own = o
      BY <2>2, AskFields
    <2>4. AskTypes(b)
      BY <1>2, <1>4, <1>5, <1>7, <2>3, OpenIs DEF AskTypes
    <2>5. Served(b, table.api, tick)
      BY <1>4, <1>7, <2>3, OpenIs DEF Served
    <2> QED BY <2>4, <2>5 DEF b
  <1>11. CASE ~key
    <2>1. b = [begun EXCEPT !.pc = "answered", !.answers = marked]
      BY <1>1, <1>11
    <2>2. b = [pc |-> "answered", kind |-> k, todo |-> t, prior |-> api, until |-> until,
               update |-> Groups!Open, answers |-> marked, editions |-> editions, left |-> l,
               own |-> o]
      BY <1>9, <2>1
    <2>3. /\ IsAsking(b) /\ b.pc = "answered" /\ b.kind = k /\ b.todo = t /\ b.until = until
          /\ b.update = Groups!Open /\ b.answers = marked /\ b.left = l /\ b.own = o
      BY <2>2, AskFields
    <2>4. AskTypes(b)
      BY <1>2, <1>3, <1>5, <1>7, <2>3, OpenIs DEF AskTypes
    <2>5. Served(b, table.api, tick)
      BY <1>7, <2>3, OpenIs DEF Served
    <2> QED BY <2>4, <2>5 DEF b
  <1> QED BY <1>10, <1>11

(* An answer takes one request of the budget. *)
LEMMA AnsweredTypes ==
  ASSUME GroupTypes, asking.pc = "ask", asking.todo # <<>>,
         NEW a, NEW receipt \in Groups!Receipts, NEW stops \in BOOLEAN,
         NEW x, NEW d, ApiOK(d), d.retry # 0 => stops,
         \/ asking' = Groups!Answer(a, receipt, stops) /\ d = asking.update
         \/ asking' = [Groups!Answer(a, receipt, stops) EXCEPT !.update = d]
         \/ asking' = [Groups!Answer(a, receipt, stops) EXCEPT !.update = d, !.prior = x]
  PROVE  AskTypes(asking') /\ Served(asking', table.api, tick)
  <1> DEFINE f == [asking.answers EXCEPT ![a] = receipt]
             left == asking.left - 1
             todo == IF stops THEN <<>> ELSE Tail(asking.todo)
             r == Groups!Answer(a, receipt, stops)
             v == [r EXCEPT !.update = d]
             w == [r EXCEPT !.update = d, !.prior = x]
  <1>1. r = [asking EXCEPT !.answers = f, !.left = left, !.todo = todo]
    BY DEF Groups!Answer
  <1>2. /\ AskTypes(asking) /\ Served(asking, table.api, tick) 
        /\ \/ asking' = r /\ d = asking.update
           \/ asking' = v
           \/ asking' = w
    BY DEF GroupTypes
  <1>3. f \in [OfGroups.App -> Groups!Receipts]
    BY <1>2 DEF AskTypes
  <1>4. left \in 0..OfGroups.Requests /\ Queued(todo, left)
    <2>1. PICK S : asking.todo \in Seq(S) /\ Len(asking.todo) <= asking.left
      BY <1>2 DEF AskTypes, Queued
    <2>2. Len(asking.todo) \in Nat \ {0} /\ asking.left \in 0..OfGroups.Requests
      BY <1>2, <2>1, EmptySeq DEF AskTypes
    <2>3. left \in 0..OfGroups.Requests /\ Len(asking.todo) - 1 <= left
      BY <2>1, <2>2, GroupsGiven
    <2>4. Tail(asking.todo) \in Seq(S) /\ Len(Tail(asking.todo)) = Len(asking.todo) - 1
      BY <2>1, HeadTailProperties
    <2> HIDE DEF left
    <2>5. Queued(Tail(asking.todo), left)
      BY <2>3, <2>4 DEF Queued
    <2>6. Queued(<<>>, left)
      BY <2>3, NothingQueued
    <2> QED BY <2>3, <2>5, <2>6
  <1>5. stops => todo = <<>>
    OBVIOUS
  <1>6. PICK p, k, t, q, u, d1, n, e, l, o :
          asking = [pc |-> p, kind |-> k, todo |-> t, prior |-> q, until |-> u, update |-> d1,
                    answers |-> n, editions |-> e, left |-> l, own |-> o]
    BY <1>2, Zenon DEF IsAsking, AskTypes
  <1>7. p = asking.pc /\ k = asking.kind /\ u = asking.until /\ o = asking.own /\ d1 = asking.update
    BY <1>6, AskFields
  <1>8. v = [r EXCEPT !.update = d] /\ w = [r EXCEPT !.update = d, !.prior = x]
    OBVIOUS
  <1> HIDE DEF f, left, todo, r, v, w
  <1>9. r = [pc |-> p, kind |-> k, todo |-> todo, prior |-> q, until |-> u, update |-> d1,
             answers |-> f, editions |-> e, left |-> left, own |-> o]
    BY <1>1, <1>6
  <1>10. v = [pc |-> p, kind |-> k, todo |-> todo, prior |-> q, until |-> u, update |-> d,
              answers |-> f, editions |-> e, left |-> left, own |-> o]
    BY <1>8, <1>9
  <1>11. w = [pc |-> p, kind |-> k, todo |-> todo, prior |-> x, until |-> u, update |-> d,
              answers |-> f, editions |-> e, left |-> left, own |-> o]
    BY <1>8, <1>9
  <1>12. \E y : asking' = [pc |-> p, kind |-> k, todo |-> todo, prior |-> y, until |-> u, update |-> d,
                           answers |-> f, editions |-> e, left |-> left, own |-> o]
    <2>1. CASE asking' = r /\ d = asking.update
      BY <1>7, <1>9, <2>1
    <2>2. CASE asking' = v
      BY <1>10, <2>2
    <2>3. CASE asking' = w
      BY <1>11, <2>3
    <2> QED BY <1>2, <2>1, <2>2, <2>3
  <1>13. /\ IsAsking(asking') /\ asking'.pc = p /\ asking'.kind = k /\ asking'.todo = todo
         /\ asking'.until = u /\ asking'.update = d /\ asking'.answers = f /\ asking'.left = left
         /\ asking'.own = o
    <2>1. PICK y : asking' = [pc |-> p, kind |-> k, todo |-> todo, prior |-> y, until |-> u, update |-> d,
                              answers |-> f, editions |-> e, left |-> left, own |-> o]
      BY <1>12
    <2> QED BY <2>1, AskFields
  <1>14. AskTypes(asking')
    BY <1>2, <1>3, <1>4, <1>7, <1>13 DEF AskTypes
  <1>15. Served(asking', table.api, tick)
    BY <1>2, <1>5, <1>7, <1>13 DEF Served
  <1> QED BY <1>14, <1>15

LEMMA AskedTypes ==
  ASSUME GroupTypes, NEW server \in {0, tick + OfGroups.Long}, Groups!Ask(server)
  PROVE  GroupTypes'
  <1> DEFINE a == Head(asking.todo)
  <1>1. /\ asking.pc = "ask" /\ asking.todo # <<>> /\ UNCHANGED <<table, tick, changes, died>>
        /\ tick \in 1..OfGroups.MaxTime /\ AskTypes(asking) /\ Served(asking, table.api, tick)
        /\ asking.until \in Nat /\ asking.until <= OfGroups.MaxTime + OfGroups.Long
    BY GroupsGiven DEF Groups!Ask, Groups!At, GroupTypes, AskTypes
  <1>2. ApiOK(asking.update) /\ asking.update.retry = 0
    BY <1>1 DEF AskTypes, Served
  <1>3. /\ tick \in 0..OfGroups.MaxTime /\ tick \in Nat /\ server \in Nat
        /\ server <= OfGroups.MaxTime + OfGroups.Long
        /\ \A wait \in {OfGroups.Short, OfGroups.Long} :
             tick + wait \in Nat /\ tick + wait <= OfGroups.MaxTime + OfGroups.Long
    BY <1>1, GroupsGiven
  <1>4. ASSUME NEW wait \in {OfGroups.Short, OfGroups.Long}
        PROVE  Groups!Max({tick + wait, server, asking.until}) \in 0..(OfGroups.MaxTime + OfGroups.Long)
    <2> DEFINE y == tick + wait
               m == Groups!Max({y, server, asking.until})
    <2>1. y \in Nat /\ y <= OfGroups.MaxTime + OfGroups.Long
      BY <1>3
    <2> HIDE DEF y
    <2>2. m \in {y, server, asking.until}
      BY <1>1, <1>3, <2>1, GreatestIs
    <2> HIDE DEF m
    <2>3. m \in 0..(OfGroups.MaxTime + OfGroups.Long)
      BY <1>1, <1>3, <2>1, <2>2, GroupsGiven
    <2> QED BY <2>3 DEF m, y
  <1>5. ASSUME NEW status \in {"network", "limited", "forbidden"}, Groups!Stops(a, status, server)
        PROVE  AskTypes(asking') /\ Served(asking', table.api, tick)
    <2> DEFINE cooldown == Groups!FailureCooldown(asking.prior, status, server)
               receipt == [status |-> "failed", at |-> tick, retry |-> cooldown.retry]
    <2>1. asking' = [Groups!Answer(a, receipt, TRUE) EXCEPT !.update = cooldown]
      BY <1>5 DEF Groups!Stops
    <2>2. ApiOK(cooldown)
      BY <1>1, FailureIs
    <2> HIDE DEF cooldown
    <2>3. receipt \in Groups!Receipts
      BY <1>3, <2>2, ReceiptsAre DEF ApiOK
    <2> HIDE DEF receipt, a
    <2> QED BY <2>1, <2>2, <2>3, <1>1, AnsweredTypes
  <1>6. ASSUME Groups!Fails(a, server)
        PROVE  AskTypes(asking') /\ Served(asking', table.api, tick)
    <2> DEFINE wait == IF asking.kind = "growth" THEN OfGroups.Short ELSE OfGroups.Long
               retry == Groups!Max({tick + wait, server, asking.until})
               receipt == [status |-> "failed", at |-> tick, retry |-> retry]
    <2>1. asking' = Groups!Answer(a, receipt, FALSE)
      BY <1>6 DEF Groups!Fails
    <2>2. wait \in {OfGroups.Short, OfGroups.Long}
      OBVIOUS
    <2> HIDE DEF wait
    <2>3. retry \in 0..(OfGroups.MaxTime + OfGroups.Long)
      BY <1>4, <2>2
    <2> HIDE DEF retry
    <2>4. receipt \in Groups!Receipts
      BY <1>3, <2>3, ReceiptsAre
    <2> HIDE DEF receipt, a
    <2> QED BY <2>1, <2>4, <1>1, <1>2, AnsweredTypes
  <1>7. ASSUME NEW found \in BOOLEAN, Groups!Replies(a, found, server)
        PROVE  AskTypes(asking') /\ Served(asking', table.api, tick)
    <2> DEFINE wait == IF asking.kind = "hourly" /\ a \in OfGroups.FromTwitch
                       THEN OfGroups.Short ELSE OfGroups.Long
               later == Groups!Max({tick + wait, server, asking.until})
               retry == IF found THEN 0 ELSE later
               open == [Groups!Open EXCEPT !.at = tick]
               status == IF found THEN "resolved" ELSE "missing"
               receipt == [status |-> status, at |-> tick, retry |-> retry]
    <2>1. asking' = [Groups!Answer(a, receipt, FALSE) EXCEPT !.update = open, !.prior = open]
      BY <1>7 DEF Groups!Replies
    <2>2. wait \in {OfGroups.Short, OfGroups.Long}
      OBVIOUS
    <2> HIDE DEF wait
    <2>3. later \in 0..(OfGroups.MaxTime + OfGroups.Long)
      BY <1>4, <2>2
    <2> HIDE DEF later
    <2>4. retry \in 0..(OfGroups.MaxTime + OfGroups.Long) /\ status \in {"resolved", "missing"}
      BY <2>3, GroupsGiven
    <2> HIDE DEF retry, status
    <2>5. receipt \in Groups!Receipts
      BY <1>3, <2>4, ReceiptsAre
    <2>6. ApiOK(open) /\ open.retry = 0
      BY <1>3, OpenIs
    <2> HIDE DEF receipt, a, open
    <2> QED BY <2>1, <2>5, <2>6, <1>1, AnsweredTypes
  <1>8. AskTypes(asking') /\ Served(asking', table.api, tick)
    BY <1>5, <1>6, <1>7 DEF Groups!Ask
  <1> QED BY <1>1, <1>8 DEF GroupTypes

LEMMA RunTypes ==
  ASSUME GroupTypes, UNCHANGED <<table, tick, changes, died>>,
         AskTypes(asking') /\ Served(asking', table.api, tick)
  PROVE  GroupTypes'
  BY DEF GroupTypes

LEMMA StartHourlyTypes ==
  ASSUME GroupTypes, NEW key \in BOOLEAN, Groups!StartHourly(key)
  PROVE  GroupTypes'
  <1> DEFINE left == OfGroups.Requests
             r == [Groups!NotAsking EXCEPT !.left = left]
             apps == Groups!ForQueue(key)
  <1>1. /\ asking' = Groups!Begun(r, table, apps, OfGroups.FromTwitch, key)
        /\ UNCHANGED <<table, tick, changes, died>>
    BY DEF Groups!StartHourly
  <1>2. IsAsking(r) /\ r.left = left /\ r.kind = "hourly" /\ r.todo = <<>>
    <2> DEFINE none == [a \in OfGroups.App |-> Groups!Unasked]
               zero == [a \in OfGroups.App |-> 0]
    <2>1. Groups!NotAsking =
            [pc |-> "idle", kind |-> "hourly", todo |-> <<>>, prior |-> Groups!Open, until |-> 0,
             update |-> Groups!Open, answers |-> none, editions |-> zero, left |-> 0, own |-> <<>>]
      BY DEF Groups!NotAsking
    <2>2. r = [Groups!NotAsking EXCEPT !.left = left]
      OBVIOUS
    <2> HIDE DEF none, zero, left, r
    <2>3. r = [pc |-> "idle", kind |-> "hourly", todo |-> <<>>, prior |-> Groups!Open, until |-> 0,
               update |-> Groups!Open, answers |-> none, editions |-> zero, left |-> left,
               own |-> <<>>]
      BY <2>1, <2>2
    <2> QED BY <2>3, AskFields
  <1>3. apps \in SUBSET OfGroups.App
    BY DEF Groups!ForQueue
  <1>4. left \in 0..OfGroups.Requests
    BY GroupsGiven
  <1>5. StateTypes(table) /\ tick \in 1..OfGroups.MaxTime
    BY DEF GroupTypes
  <1> HIDE DEF r, apps, left
  <1>6. AskTypes(asking') /\ Served(asking', table.api, tick)
    BY <1>1, <1>2, <1>3, <1>4, <1>5, BegunTypes
  <1> QED BY <1>1, <1>6, RunTypes

LEMMA PublicFound ==
  ASSUME NEW s, NEW key
  PROVE  Groups!ForGrowth(s, key) \in SUBSET OfGroups.App
  <1>1. Groups!GroupAssumption
    BY SteamQueuesAssumption
  <1> QED BY <1>1 DEF Groups!ForGrowth, Groups!GroupAssumption

LEMMA StartGrowthTypes ==
  ASSUME GroupTypes, NEW key \in BOOLEAN, Groups!StartGrowth(key)
  PROVE  GroupTypes'
  <1> DEFINE left == OfGroups.Requests
             r == [Groups!NotAsking EXCEPT !.kind = "growth", !.left = left, !.own = table]
             apps == Groups!ForGrowth(table, key)
  <1>1. /\ asking' = Groups!Begun(r, table, apps, {}, key)
        /\ UNCHANGED <<table, tick, changes, died>>
    BY DEF Groups!StartGrowth
  <1>2. IsAsking(r) /\ r.left = left /\ r.kind = "growth" /\ r.todo = <<>> /\ r.own = table
    <2> DEFINE none == [a \in OfGroups.App |-> Groups!Unasked]
               zero == [a \in OfGroups.App |-> 0]
    <2>1. Groups!NotAsking =
            [pc |-> "idle", kind |-> "hourly", todo |-> <<>>, prior |-> Groups!Open, until |-> 0,
             update |-> Groups!Open, answers |-> none, editions |-> zero, left |-> 0, own |-> <<>>]
      BY DEF Groups!NotAsking
    <2>2. r = [Groups!NotAsking EXCEPT !.kind = "growth", !.left = left, !.own = table]
      OBVIOUS
    <2> HIDE DEF none, zero, left, r
    <2>3. r = [pc |-> "idle", kind |-> "growth", todo |-> <<>>, prior |-> Groups!Open, until |-> 0,
               update |-> Groups!Open, answers |-> none, editions |-> zero, left |-> left,
               own |-> table]
      BY <2>1, <2>2
    <2> QED BY <2>3, AskFields
  <1>3. apps \in SUBSET OfGroups.App
    BY PublicFound
  <1>4. left \in 0..OfGroups.Requests
    BY GroupsGiven
  <1>5. StateTypes(table) /\ tick \in 1..OfGroups.MaxTime
    BY DEF GroupTypes
  <1> HIDE DEF r, apps, left
  <1>6. AskTypes(asking') /\ Served(asking', table.api, tick)
    BY <1>1, <1>2, <1>3, <1>4, <1>5, BegunTypes
  <1> QED BY <1>1, <1>6, RunTypes

LEMMA AnotherPassTypes ==
  ASSUME GroupTypes, NEW key \in BOOLEAN, Groups!AnotherPass(key)
  PROVE  GroupTypes'
  <1> DEFINE apps == Groups!ForGrowth(asking.own, key)
             s == asking.own
  <1>1. /\ asking' = Groups!Begun(asking, s, apps, {}, key)
        /\ UNCHANGED <<table, tick, changes, died>> /\ asking.pc = "saved"
    BY DEF Groups!AnotherPass, Groups!At
  <1>2. /\ IsAsking(asking) /\ asking.left \in 0..OfGroups.Requests /\ asking.todo = <<>>
        /\ asking.kind = "growth" /\ StateTypes(s) /\ s.api = table.api
        /\ tick \in 1..OfGroups.MaxTime
    BY <1>1 DEF GroupTypes, AskTypes, Served
  <1>3. apps \in SUBSET OfGroups.App
    BY PublicFound
  <1> HIDE DEF apps, s
  <1>4. AskTypes(asking') /\ Served(asking', table.api, tick)
    BY <1>1, <1>2, <1>3, BegunTypes DEF s
  <1> QED BY <1>1, <1>4, RunTypes

LEMMA EndBatchTypes ==
  ASSUME GroupTypes, Groups!EndBatch
  PROVE  GroupTypes'
  <1>1. AskTypes(asking) /\ Served(asking, table.api, tick)
    BY DEF GroupTypes
  <1>2. PICK p, k, t, q, u, d, n, e, l, o :
          asking = [pc |-> p, kind |-> k, todo |-> t, prior |-> q, until |-> u, update |-> d,
                    answers |-> n, editions |-> e, left |-> l, own |-> o]
    BY <1>1, Zenon DEF IsAsking, AskTypes
  <1>3. asking' = [asking EXCEPT !.pc = "answered", !.todo = <<>>, !.prior = Groups!Open,
                                 !.until = 0]
    BY DEF Groups!EndBatch
  <1>4. asking' = [pc |-> "answered", kind |-> k, todo |-> <<>>, prior |-> Groups!Open, until |-> 0,
                   update |-> d, answers |-> n, editions |-> e, left |-> l, own |-> o]
    BY <1>2, <1>3
  <1>5. /\ k = asking.kind /\ d = asking.update /\ n = asking.answers /\ l = asking.left
        /\ o = asking.own
    BY <1>2, AskFields
  <1>6. /\ IsAsking(asking') /\ asking'.pc = "answered" /\ asking'.kind = k /\ asking'.todo = <<>>
        /\ asking'.until = 0 /\ asking'.update = d /\ asking'.answers = n /\ asking'.left = l
        /\ asking'.own = o
    BY <1>4, AskFields
  <1>7. Queued(<<>>, l) /\ 0 \in 0..(OfGroups.MaxTime + OfGroups.Long)
    BY <1>1, <1>5, NothingQueued, GroupsGiven DEF AskTypes
  <1>8. AskTypes(asking')
    BY <1>1, <1>5, <1>6, <1>7 DEF AskTypes
  <1>9. Served(asking', table.api, tick)
    BY <1>1, <1>5, <1>6 DEF Served
  <1> QED BY <1>8, <1>9, RunTypes DEF Groups!EndBatch
--------------------------------------------------------------------------------
LEMMA RowsTypes ==
  ASSUME NEW s, StateTypes(s), NEW rows \in [OfGroups.App -> Entries]
  PROVE  LET t == [s EXCEPT !.rows = rows]
         IN StateTypes(t) /\ t.rows = rows /\ t.api = s.api
  <1> DEFINE t == [s EXCEPT !.rows = rows]
  <1>1. t = [rows |-> rows, growth |-> s.growth, api |-> s.api, counted |-> s.counted]
    BY StateWith DEF StateTypes
  <1> HIDE DEF t
  <1>2. t.rows = rows /\ t.growth = s.growth /\ t.api = s.api /\ t.counted = s.counted /\ IsPublished(t)
    BY <1>1, StateFields
  <1>3. Groups!Valid(t)
    BY <1>2, ValidIs DEF StateTypes
  <1>4. StateTypes(t)
    BY <1>2, <1>3 DEF StateTypes
  <1> QED BY <1>2, <1>4 DEF t

(* An entry of its parts, and the other way round. *)
LEMMA EntryIs ==
  ASSUME NEW r \in Entries
  PROVE  /\ IsEntry(r) /\ r.group \in BOOLEAN /\ r.receipt \in Groups!Receipts
         /\ r.edition \in Nat /\ r.edition <= OfGroups.MaxEdit + 1
  BY GroupsGiven DEF Entries, IsEntry
LEMMA EntryMade ==
  ASSUME NEW e \in 0..(OfGroups.MaxEdit + 1), NEW g \in BOOLEAN, NEW r \in Groups!Receipts
  PROVE  LET entry == [edition |-> e, group |-> g, receipt |-> r]
         IN entry \in Entries /\ entry.edition = e /\ entry.group = g /\ entry.receipt = r
  BY DEF Entries

LEMMA ApplyBatchTypes ==
  ASSUME GroupTypes, Groups!ApplyBatch
  PROVE  GroupTypes' /\ (table.api.retry > tick => table'.api = table.api)
  <1> DEFINE rows == [a \in OfGroups.App |-> Groups!Applied(a)]
             cooled == Groups!WithCooldown(table, asking.update)
  <1>1. /\ table' = [cooled EXCEPT !.rows = rows] /\ asking' = Groups!NotAsking
        /\ UNCHANGED <<tick, changes, died>>
    BY DEF Groups!ApplyBatch
  <1>2. /\ StateTypes(table) /\ AskTypes(asking) /\ Served(asking, table.api, tick)
        /\ \A a \in OfGroups.App : table.rows[a].edition <= changes + 1
        /\ tick \in 1..OfGroups.MaxTime
    BY DEF GroupTypes
  <1>3. /\ StateTypes(cooled) /\ cooled.rows = table.rows
        /\ asking.update.at = 0 => cooled = table
    BY <1>2, CooldownTypes DEF AskTypes
  <1>4. ASSUME NEW a \in OfGroups.App
        PROVE  Groups!Applied(a) \in Entries /\ Groups!Applied(a).edition = table.rows[a].edition
    <2>1. table.rows[a] \in Entries /\ asking.answers[a] \in Groups!Receipts
      BY <1>2 DEF StateTypes, AskTypes
    <2> DEFINE receipt == asking.answers[a]
               found == receipt.status = "resolved"
               old == table.rows[a]
    <2>2. Groups!Applied(a) = old \/ Groups!Applied(a) = [old EXCEPT !.receipt = receipt, !.group = found]
      BY DEF Groups!Applied
    <2>3. found \in BOOLEAN /\ IsEntry(old) /\ old.edition \in 0..(OfGroups.MaxEdit + 1)
      BY <2>1, EntryIs, GroupsGiven
    <2> HIDE DEF receipt, found, old
    <2>4. [old EXCEPT !.receipt = receipt, !.group = found]
            = [edition |-> old.edition, group |-> found, receipt |-> receipt]
      BY <2>3, RowWith
    <2>5. receipt \in Groups!Receipts /\ old \in Entries
      BY <2>1 DEF receipt, old
    <2>6. Groups!Applied(a) \in Entries /\ Groups!Applied(a).edition = old.edition
      BY <2>2, <2>3, <2>4, <2>5, EntryMade
    <2> QED BY <2>6 DEF old
  <1>5. rows \in [OfGroups.App -> Entries]
    BY <1>4
  <1>6. \A a \in OfGroups.App : rows[a].edition = table.rows[a].edition
    BY <1>4
  <1> HIDE DEF rows, cooled
  <1>7. StateTypes(table') /\ table'.rows = rows /\ table'.api = cooled.api
    BY <1>1, <1>3, <1>5, RowsTypes
  <1>8. AskTypes(asking') /\ Served(asking', table'.api, tick)
    BY <1>1, NotAskingFields, OpenIs, RestServed
  <1>9. ASSUME table.api.retry > tick PROVE table'.api = table.api
    <2>1. table.api.retry \in Nat /\ tick \in Nat
      BY <1>2, GroupsGiven DEF StateTypes, ApiOK
    <2>2. asking.update.at = 0
      BY <1>2, <1>9, <2>1 DEF Served
    <2> QED BY <1>3, <1>7, <2>2
  <1>10. \A a \in OfGroups.App : table'.rows[a].edition <= changes + 1
    BY <1>2, <1>6, <1>7
  <1>11. GroupTypes'
    BY <1>1, <1>7, <1>8, <1>10 DEF GroupTypes
  <1> QED BY <1>9, <1>11

LEMMA SaveGrowthTypes ==
  ASSUME GroupTypes, Groups!SaveGrowth
  PROVE  GroupTypes' /\ (table.api.retry > tick => table'.api = table.api)
  <1> DEFINE cooled == Groups!WithCooldown(asking.own, asking.update)
             ours == Groups!Remembered(cooled, asking.answers)
             merged == Groups!Merged(table, asking.own, ours)
             left == asking.left
  <1>1. /\ asking.pc = "answered" /\ asking.kind = "growth" /\ Groups!Valid(ours)
        /\ table' = merged /\ UNCHANGED <<tick, changes, died>>
        /\ asking' = [Groups!NotAsking EXCEPT !.kind = "growth", !.pc = "saved",
                                              !.left = left, !.own = merged]
    BY DEF Groups!SaveGrowth, Groups!At
  <1>2. /\ StateTypes(table) /\ AskTypes(asking) /\ Served(asking, table.api, tick)
        /\ \A a \in OfGroups.App : table.rows[a].edition <= changes + 1
        /\ tick \in 1..OfGroups.MaxTime
    BY DEF GroupTypes
  <1>3. /\ StateTypes(asking.own) /\ asking.own.api = table.api /\ ApiOK(asking.update)
        /\ asking.answers \in [OfGroups.App -> Groups!Receipts] /\ left \in 0..OfGroups.Requests
    BY <1>1, <1>2 DEF AskTypes, Served
  <1>4. StateTypes(cooled) /\ (asking.update.at = 0 => cooled = asking.own)
    BY <1>3, CooldownTypes
  <1> HIDE DEF cooled
  <1>5. StateTypes(ours) /\ ours.api = cooled.api
    BY <1>1, <1>3, <1>4, RememberedTypes
  <1> HIDE DEF ours
  <1>6. /\ StateTypes(merged) /\ merged.rows = table.rows
        /\ ours.api = asking.own.api => merged.api = table.api
    BY <1>2, <1>5, MergedTypes
  <1> HIDE DEF merged
  <1>7. AskTypes(asking') /\ Served(asking', merged.api, tick)
    <2> DEFINE none == [a \in OfGroups.App |-> Groups!Unasked]
               zero == [a \in OfGroups.App |-> 0]
    <2>1. Groups!NotAsking =
            [pc |-> "idle", kind |-> "hourly", todo |-> <<>>, prior |-> Groups!Open, until |-> 0,
             update |-> Groups!Open, answers |-> none, editions |-> zero, left |-> 0, own |-> <<>>]
      BY DEF Groups!NotAsking
    <2>2. none \in [OfGroups.App -> Groups!Receipts]
      BY ReceiptsAre
    <2> HIDE DEF none, zero, left
    <2>3. asking' = [pc |-> "saved", kind |-> "growth", todo |-> <<>>, prior |-> Groups!Open,
                     until |-> 0, update |-> Groups!Open, answers |-> none, editions |-> zero,
                     left |-> left, own |-> merged]
      BY <1>1, <2>1
    <2>4. /\ IsAsking(asking') /\ asking'.pc = "saved" /\ asking'.kind = "growth"
          /\ asking'.todo = <<>> /\ asking'.until = 0 /\ asking'.update = Groups!Open
          /\ asking'.answers = none /\ asking'.left = left /\ asking'.own = merged
      BY <2>3, AskFields
    <2>5. Queued(<<>>, left) /\ 0 \in 0..(OfGroups.MaxTime + OfGroups.Long)
      BY <1>3, NothingQueued, GroupsGiven
    <2>6. AskTypes(asking')
      BY <1>3, <1>6, <2>2, <2>4, <2>5, OpenIs DEF AskTypes
    <2>7. Served(asking', merged.api, tick)
      BY <2>4, OpenIs, RestServed
    <2> QED BY <2>6, <2>7
  <1>8. ASSUME table.api.retry > tick PROVE table'.api = table.api
    <2>1. table.api.retry \in Nat /\ tick \in Nat
      BY <1>2, GroupsGiven DEF StateTypes, ApiOK
    <2>2. asking.update.at = 0
      BY <1>2, <1>8, <2>1 DEF Served
    <2> QED BY <1>1, <1>3, <1>4, <1>5, <1>6, <2>2
  <1>9. GroupTypes'
    BY <1>1, <1>2, <1>6, <1>7 DEF GroupTypes
  <1> QED BY <1>8, <1>9

(* What others write leaves the cooldown alone, and the run. *)
LEMMA EntryTypes ==
  ASSUME GroupTypes, Groups!Edit, NEW a \in OfGroups.App, NEW entry \in Entries,
         entry.edition <= changes + 2, table' = [table EXCEPT !.rows[a] = entry]
  PROVE  GroupTypes' /\ table'.api = table.api
  <1> DEFINE rows == [table.rows EXCEPT ![a] = entry]
  <1>1. /\ StateTypes(table) /\ AskTypes(asking) /\ Served(asking, table.api, tick)
        /\ \A b \in OfGroups.App : table.rows[b].edition <= changes + 1
        /\ tick \in 1..OfGroups.MaxTime /\ changes \in 0..OfGroups.MaxEdit
        /\ died \in 0..OfGroups.MaxLoss
    BY DEF GroupTypes
  <1>2. changes < OfGroups.MaxEdit /\ changes' = changes + 1 /\ UNCHANGED <<asking, tick, died>>
    BY DEF Groups!Edit
  <1>3. table' = [table EXCEPT !.rows = rows]
    OBVIOUS
  <1>4. table.rows \in [OfGroups.App -> Entries]
    BY <1>1 DEF StateTypes
  <1>5. /\ rows \in [OfGroups.App -> Entries]
        /\ \A b \in OfGroups.App : rows[b] = IF b = a THEN entry ELSE table.rows[b]
    BY <1>4
  <1> HIDE DEF rows
  <1>6. StateTypes(table') /\ table'.rows = rows /\ table'.api = table.api
    <2> DEFINE t == [table EXCEPT !.rows = rows]
    <2>1. StateTypes(t) /\ t.rows = rows /\ t.api = table.api
      BY <1>1, <1>5, RowsTypes
    <2>2. table' = t
      BY <1>3
    <2> HIDE DEF t
    <2> QED BY <2>1, <2>2
  <1>7. ASSUME NEW b \in OfGroups.App PROVE table'.rows[b].edition <= changes' + 1
    <2>1. table.rows[b].edition \in Nat /\ entry.edition \in Nat /\ changes \in Nat
      BY <1>1, <1>4, EntryIs
    <2>2. changes' + 1 = changes + 2 /\ table.rows[b].edition <= changes + 2
      BY <1>1, <1>2, <2>1
    <2>3. rows[b].edition <= changes + 2
      BY <1>5, <2>2
    <2> QED BY <1>6, <2>2, <2>3
  <1>8. changes' \in 0..OfGroups.MaxEdit
    BY <1>1, <1>2, GroupsGiven
  <1> QED BY <1>1, <1>2, <1>6, <1>7, <1>8 DEF GroupTypes

LEMMA EditsTypes ==
  ASSUME GroupTypes, NEW a \in OfGroups.App,
         \/ Groups!Redate(a) \/ Groups!Leave(a) \/ Groups!Count(a)
         \/ \E group \in BOOLEAN : Groups!List(a, group)
  PROVE  GroupTypes' /\ table'.api = table.api /\ asking' = asking
  <1> DEFINE old == table.rows[a]
  <1>1. /\ StateTypes(table) /\ AskTypes(asking) /\ Served(asking, table.api, tick)
        /\ \A b \in OfGroups.App : table.rows[b].edition <= changes + 1
        /\ tick \in 1..OfGroups.MaxTime /\ changes \in 0..OfGroups.MaxEdit
        /\ died \in 0..OfGroups.MaxLoss
    BY DEF GroupTypes
  <1>2. /\ Groups!Edit /\ changes < OfGroups.MaxEdit /\ changes' = changes + 1
        /\ UNCHANGED <<asking, tick, died>>
    BY DEF Groups!Redate, Groups!Leave, Groups!Count, Groups!List, Groups!Edit
  <1>3. old \in Entries /\ old.edition <= changes + 1
    BY <1>1 DEF StateTypes
  <1>4. /\ IsEntry(old) /\ old.group \in BOOLEAN /\ old.receipt \in Groups!Receipts
        /\ old.edition \in Nat /\ changes \in Nat /\ changes + 1 <= OfGroups.MaxEdit
        /\ OfGroups.MaxEdit \in Nat
    <2>1. changes \in Nat /\ changes + 1 <= OfGroups.MaxEdit /\ OfGroups.MaxEdit \in Nat
      BY <1>1, <1>2, GroupsGiven
    <2> HIDE DEF old
    <2> QED BY <1>3, <2>1, EntryIs
  <1>5. CASE Groups!Redate(a)
    <2> DEFINE edition == old.edition + 1
               entry == [old EXCEPT !.edition = edition]
    <2>1. table' = [table EXCEPT !.rows[a] = entry]
      <3>1. IsPublished(table)
        BY <1>1 DEF StateTypes
      <3>2. PICK r, f, i, c : table = [rows |-> r, growth |-> f, api |-> i, counted |-> c]
        BY <3>1, Zenon DEF IsPublished
      <3> QED BY <1>5, <3>2 DEF Groups!Redate
    <2>2. edition \in 0..(OfGroups.MaxEdit + 1) /\ edition <= changes + 2
      BY <1>3, <1>4
    <2> HIDE DEF edition, old
    <2>3. entry = [edition |-> edition, group |-> old.group, receipt |-> old.receipt]
      BY <1>4, RowWith
    <2> HIDE DEF entry
    <2>4. entry \in Entries /\ entry.edition = edition
      BY <1>4, <2>2, <2>3, EntryMade
    <2>5. entry.edition <= changes + 2
      BY <2>2, <2>4
    <2> QED BY <1>2, <2>1, <2>4, <2>5, EntryTypes
  <1>6. CASE Groups!Leave(a)
    <2>1. Groups!NoRow.edition = 0
      BY DEF Groups!NoRow
    <2>2. 0 <= changes + 2
      BY <1>4
    <2>3. Groups!NoRow \in Entries /\ Groups!NoRow.edition <= changes + 2
      BY <2>1, <2>2, ReceiptsAre, Zenon
    <2> QED BY <1>2, <1>6, <2>3, EntryTypes DEF Groups!Leave
  <1>7. CASE \E group \in BOOLEAN : Groups!List(a, group)
    <2>1. PICK group \in BOOLEAN : Groups!List(a, group)
      BY <1>7
    <2> DEFINE e == old.edition
               edition == Groups!Max({1, e})
               known == old.group \/ group
               entry == [old EXCEPT !.edition = edition, !.group = known]
    <2>2. table' = [table EXCEPT !.rows[a] = entry]
      BY <2>1 DEF Groups!List
    <2>3. known \in BOOLEAN
      BY <1>4
    <2>4. edition \in {1, e}
      <3>1. e \in Nat
        BY <1>4
      <3> HIDE DEF e
      <3> QED BY <3>1, GreatestIs
    <2>5. edition \in 0..(OfGroups.MaxEdit + 1) /\ edition <= changes + 2
      <3>1. e \in Nat /\ e <= changes + 1
        BY <1>3, <1>4
      <3> HIDE DEF e, edition
      <3> QED BY <1>4, <2>4, <3>1
    <2>6. entry = [old EXCEPT !.edition = edition, !.group = known]
      OBVIOUS
    <2> HIDE DEF edition, known, old, entry
    <2>7. entry = [edition |-> edition, group |-> known, receipt |-> old.receipt]
      BY <1>4, <2>6, RowWith
    <2>8. entry \in Entries /\ entry.edition = edition
      BY <1>4, <2>3, <2>5, <2>7, EntryMade
    <2>9. entry.edition <= changes + 2
      BY <2>5, <2>8
    <2> QED BY <1>2, <2>2, <2>8, <2>9, EntryTypes
  <1>8. CASE Groups!Count(a)
    <2> DEFINE covered == table.counted \cup {a}
    <2>1. table' = [table EXCEPT !.counted = covered]
      BY <1>8 DEF Groups!Count
    <2>2. covered \subseteq OfGroups.App
      BY <1>1 DEF StateTypes
    <2> HIDE DEF covered
    <2>3. table' = [rows |-> table.rows, growth |-> table.growth, api |-> table.api,
                    counted |-> covered]
      BY <1>1, <2>1, StateWith DEF StateTypes
    <2>4. /\ table'.rows = table.rows /\ table'.growth = table.growth /\ table'.api = table.api
          /\ table'.counted = covered /\ IsPublished(table')
      BY <2>3, StateFields
    <2>5. Groups!Valid(table')
      BY <1>1, <2>4, ValidIs DEF StateTypes
    <2>6. StateTypes(table')
      BY <1>1, <2>2, <2>4, <2>5 DEF StateTypes
    <2>7. \A b \in OfGroups.App : table'.rows[b].edition <= changes' + 1
      <3>1. ASSUME NEW b \in OfGroups.App PROVE table.rows[b].edition <= changes' + 1
        <4>1. table.rows[b] \in Entries /\ table.rows[b].edition <= changes + 1
          BY <1>1 DEF StateTypes
        <4>2. table.rows[b].edition \in Nat
          BY <4>1, EntryIs
        <4> QED BY <1>2, <1>4, <4>1, <4>2
      <3> QED BY <2>4, <3>1
    <2>8. changes' \in 0..OfGroups.MaxEdit
      BY <1>2, <1>4
    <2> QED BY <1>1, <1>2, <2>4, <2>6, <2>7, <2>8 DEF GroupTypes
  <1> QED BY <1>2, <1>5, <1>6, <1>7, <1>8

LEMMA RestingTypes ==
  ASSUME GroupTypes, Groups!FinishGrowth \/ Groups!Die \/ Groups!Tick
  PROVE  GroupTypes' /\ table' = table
  <1>1. /\ StateTypes(table) /\ AskTypes(asking) /\ Served(asking, table.api, tick)
        /\ tick \in 1..OfGroups.MaxTime /\ died \in 0..OfGroups.MaxLoss
    BY DEF GroupTypes
  <1>2. AskTypes(Groups!NotAsking) /\ Served(Groups!NotAsking, table.api, tick)
    BY NotAskingFields, OpenIs, RestServed
  <1>3. CASE Groups!FinishGrowth
    BY <1>1, <1>2, <1>3 DEF GroupTypes, Groups!FinishGrowth
  <1>4. CASE Groups!Die
    <2>1. died' \in 0..OfGroups.MaxLoss
      BY <1>1, <1>4, GroupsGiven DEF Groups!Die
    <2> QED BY <1>1, <1>2, <1>4, <2>1 DEF GroupTypes, Groups!Die
  <1>5. CASE Groups!Tick
    <2>1. tick' \in 1..OfGroups.MaxTime /\ tick' = tick + 1 /\ UNCHANGED <<table, asking, changes, died>>
      BY <1>1, <1>5, GroupsGiven DEF Groups!Tick
    <2>2. table.api.retry \in Nat
      BY <1>1, GroupsGiven DEF StateTypes, ApiOK
    <2>3. Served(asking, table.api, tick')
      BY <1>1, <2>1, <2>2 DEF Served
    <2> QED BY <1>1, <2>1, <2>3 DEF GroupTypes
  <1> QED BY <1>3, <1>4, <1>5

LEMMA GroupTypesStart == Groups!Init => GroupTypes
  <1> SUFFICES ASSUME Groups!Init PROVE GroupTypes
    OBVIOUS
  <1> DEFINE first == [Groups!NoRow EXCEPT !.edition = 1]
             rows == [a \in OfGroups.App |-> first]
             none == [a \in OfGroups.App |-> Groups!Unasked]
  <1>1. /\ table = [rows |-> rows, growth |-> none, api |-> Groups!Open, counted |-> {}]
        /\ asking = Groups!NotAsking /\ tick = 1 /\ changes = 0 /\ died = 0
    BY DEF Groups!Init
  <1>2. first \in Entries /\ first.edition = 1
    <2> DEFINE one == 1
    <2>1. IsEntry(Groups!NoRow) /\ Groups!NoRow.group \in BOOLEAN
          /\ Groups!NoRow.receipt \in Groups!Receipts
      BY ReceiptsAre, EntryIs
    <2>2. one \in 0..(OfGroups.MaxEdit + 1) /\ one = 1
      BY GroupsGiven
    <2> HIDE DEF one
    <2>3. [Groups!NoRow EXCEPT !.edition = one] =
            [edition |-> one, group |-> Groups!NoRow.group, receipt |-> Groups!NoRow.receipt]
      BY <2>1, RowWith
    <2>4. first = [edition |-> one, group |-> Groups!NoRow.group, receipt |-> Groups!NoRow.receipt]
      BY <2>2, <2>3
    <2> HIDE DEF first
    <2> QED BY <2>1, <2>2, <2>4, EntryMade
  <1>3. rows \in [OfGroups.App -> Entries] /\ none \in [OfGroups.App -> Groups!Receipts]
    BY <1>2, ReceiptsAre
  <1>4. \A a \in OfGroups.App : rows[a].edition = 1 /\ ReceiptValid(none[a])
    BY <1>2 DEF ReceiptValid, Groups!Unasked
  <1> HIDE DEF first, rows, none
  <1>5. /\ IsPublished(table) /\ table.rows = rows /\ table.growth = none
        /\ table.api = Groups!Open /\ table.counted = {}
    BY <1>1, StateFields
  <1>6. Groups!Valid(table)
    BY <1>4, <1>5, OpenIs, ValidIs
  <1>7. StateTypes(table)
    BY <1>3, <1>5, <1>6, OpenIs DEF StateTypes
  <1>8. AskTypes(asking) /\ Served(asking, table.api, tick)
    BY <1>1, NotAskingFields, OpenIs, RestServed
  <1>9. /\ tick \in 1..OfGroups.MaxTime /\ changes \in 0..OfGroups.MaxEdit
        /\ died \in 0..OfGroups.MaxLoss
    BY <1>1, GroupsGiven
  <1>10. \A a \in OfGroups.App : table.rows[a].edition <= changes + 1
    BY <1>1, <1>4, <1>5
  <1> QED BY <1>7, <1>8, <1>9, <1>10 DEF GroupTypes

LEMMA GroupTypesStep == GroupTypes /\ [Groups!Next]_(Groups!groups) => GroupTypes'
  <1> SUFFICES ASSUME GroupTypes, [Groups!Next]_(Groups!groups) PROVE GroupTypes'
    OBVIOUS
  <1>1. CASE UNCHANGED Groups!groups
    BY <1>1 DEF Groups!groups, GroupTypes
  <1>2. ASSUME NEW server \in {0, tick + OfGroups.Long}, Groups!Ask(server) PROVE GroupTypes'
    BY <1>2, AskedTypes
  <1> QED BY <1>1, <1>2, StartHourlyTypes, StartGrowthTypes, AnotherPassTypes, EndBatchTypes,
             ApplyBatchTypes, SaveGrowthTypes, RestingTypes, EditsTypes DEF Groups!Next

(* The checkpoint and the run have their types, and what is published can be merged
   with the collection's own evidence (growth_checkpoint.py: _validate). *)
THEOREM GroupsTypeCorrect == Groups!Spec => []Groups!TypeOK
  <1>1. Groups!Init => GroupTypes
    BY GroupTypesStart
  <1>2. GroupTypes /\ [Groups!Next]_(Groups!groups) => GroupTypes'
    BY GroupTypesStep
  <1>3. GroupTypes => Groups!TypeOK
    BY DEF GroupTypes, StateTypes, AskTypes, ApiOK, Entries, Groups!TypeOK
  <1> QED BY <1>1, <1>2, <1>3, PTL DEF Groups!Spec
--------------------------------------------------------------------------------
(* The cooldown is left as it is, and no request goes out. *)
LEMMA CooldownStays ==
  ASSUME GroupTypes, table.api.retry > tick => table'.api = table.api,
         asking.pc # "ask" \/ asking'.pc # "ask" \/ asking' = asking
  PROVE  Groups!ServesCooldown
  <1>1. table.api.retry \in Nat /\ asking.left \in Nat
    BY GroupsGiven DEF GroupTypes, StateTypes, ApiOK, AskTypes
  <1>2. ~Groups!Sends
    BY <1>1 DEF Groups!Sends, Groups!At
  <1>3. table.api.retry > tick => table'.api.retry >= table.api.retry
    BY <1>1
  <1> QED BY <1>2, <1>3 DEF Groups!ServesCooldown

(* A run that has something to ask found the API open, and was not refused since. *)
LEMMA AskServes ==
  ASSUME GroupTypes, NEW server, Groups!Ask(server)
  PROVE  Groups!ServesCooldown
  <1>1. /\ table.api.retry \in Nat /\ tick \in Nat /\ table.api.retry <= tick
        /\ asking.update.retry = 0
    BY GroupsGiven DEF GroupTypes, StateTypes, ApiOK, AskTypes, Served, Groups!Ask
  <1> QED BY <1>1 DEF Groups!ServesCooldown

LEMMA ServesStep == GroupTypes /\ [Groups!Next]_(Groups!groups) => Groups!ServesCooldown
  <1> SUFFICES ASSUME GroupTypes, [Groups!Next]_(Groups!groups) PROVE Groups!ServesCooldown
    OBVIOUS
  <1>1. CASE UNCHANGED Groups!groups
    BY <1>1, CooldownStays DEF Groups!groups
  <1>2. ASSUME NEW key \in BOOLEAN,
               Groups!StartHourly(key) \/ Groups!StartGrowth(key) \/ Groups!AnotherPass(key)
        PROVE  Groups!ServesCooldown
    <2>1. table' = table /\ asking.pc # "ask"
      BY <1>2 DEF Groups!StartHourly, Groups!StartGrowth, Groups!AnotherPass, Groups!At
    <2> QED BY <2>1, CooldownStays
  <1>3. CASE Groups!EndBatch
    <2>1. table' = table /\ asking' = [asking EXCEPT !.pc = "answered", !.todo = <<>>,
                                                    !.prior = Groups!Open, !.until = 0]
      BY <1>3 DEF Groups!EndBatch
    <2>2. asking'.pc = "answered"
      <3>1. PICK p, k, t, q, u, d, n, e, l, o :
              asking = [pc |-> p, kind |-> k, todo |-> t, prior |-> q, until |-> u, update |-> d,
                        answers |-> n, editions |-> e, left |-> l, own |-> o]
        BY Zenon DEF IsAsking, AskTypes, GroupTypes
      <3>2. asking' = [pc |-> "answered", kind |-> k, todo |-> <<>>, prior |-> Groups!Open,
                       until |-> 0, update |-> d, answers |-> n, editions |-> e, left |-> l,
                       own |-> o]
        BY <2>1, <3>1
      <3> QED BY <3>2
    <2> QED BY <2>1, <2>2, CooldownStays
  <1>4. CASE Groups!ApplyBatch
    BY <1>4, ApplyBatchTypes, CooldownStays DEF Groups!ApplyBatch, Groups!At
  <1>5. CASE Groups!SaveGrowth
    BY <1>5, SaveGrowthTypes, CooldownStays DEF Groups!SaveGrowth, Groups!At
  <1>6. CASE Groups!FinishGrowth \/ Groups!Die
    <2>1. table' = table /\ asking' = Groups!NotAsking
      BY <1>6 DEF Groups!FinishGrowth, Groups!Die
    <2> QED BY <2>1, NotAskingFields, CooldownStays
  <1>7. CASE Groups!Tick
    BY <1>7, CooldownStays DEF Groups!Tick
  <1>8. ASSUME NEW a \in OfGroups.App,
               \/ Groups!Redate(a) \/ Groups!Leave(a) \/ Groups!Count(a)
               \/ \E group \in BOOLEAN : Groups!List(a, group)
        PROVE  Groups!ServesCooldown
    BY <1>8, EditsTypes, CooldownStays
  <1>9. ASSUME NEW server, Groups!Ask(server) PROVE Groups!ServesCooldown
    BY <1>9, AskServes
  <1> QED BY <1>1, <1>2, <1>3, <1>4, <1>5, <1>6, <1>7, <1>8, <1>9 DEF Groups!Next

(* No run asks while the API cools down, and none lifts a cooldown before its end
   (official_groups.py; state/official_followers.py: apply_api_cooldown). *)
THEOREM CooldownServed == Groups!Spec => Groups!CooldownIsServed
  <1>1. Groups!Init => GroupTypes
    BY GroupTypesStart
  <1>2. GroupTypes /\ [Groups!Next]_(Groups!groups) => GroupTypes' /\ Groups!ServesCooldown
    BY GroupTypesStep, ServesStep
  <1> QED BY <1>1, <1>2, PTL DEF Groups!Spec, Groups!CooldownIsServed
================================================================================
