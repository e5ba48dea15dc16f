---------------------------- MODULE DailyCandidates ----------------------------
(***************************************************************************)
(* The daily candidate pipeline: application/candidates.py over its four    *)
(* progress files, the frozen delivery of publication/daily_state.py, and   *)
(* the workflow steam-two-phase.yml that strings them together.             *)
(*                                                                         *)
(* One runner at a time (the workflow's concurrency group).  A pass may die *)
(* between two of its file writes; the delivery step runs all the same.     *)
(* The frozen batch is kept as an artifact, and an operator may submit it   *)
(* again at any time.  Days stand for the timestamps of the files, games    *)
(* are numbered in catalogue order, and the head window of states older     *)
(* than fresh_state (next_follower_index > 0) is left out.                  *)
(***************************************************************************)
EXTENDS Integers, Sequences, FiniteSets, FiniteSetsExt, Functions

CONSTANTS
  App,          \* AppIDs, in the order of the catalogue
  Listing,      \* the sets of games that Steam may list
  Band,         \* what the third party may say of a game
  Window,       \* --prefilter-batch-size
  MaxPass,      \* passes of one run: {1..40} in the workflow
  Budget,       \* max_fresh_requests_per_run
  MaxDay,       \* BOUND on days
  MaxManual,    \* BOUND on runs that an operator starts
  MaxStamp,     \* BOUND: later updates carry the same time
  MaxLedger,    \* BOUND on additions to the exclusion ledger
  MaxFault      \* BOUND on deaths, errors, lost answers and additions

DailyAssumption ==
  /\ App \subseteq Nat /\ IsFiniteSet(App) /\ Listing \subseteq SUBSET App
  /\ Band \subseteq {"missing", "low", "high"}
  /\ {Window, MaxPass, Budget, MaxDay, MaxStamp} \subseteq Nat \ {0}
  /\ {MaxManual, MaxLedger, MaxFault} \subseteq Nat

VARIABLES
  published,  \* the files in the authoritative repository
  disk,       \* the files in the runner's checkout
  run,        \* the running workflow
  kept,       \* the artifact of a run: its frozen batch
  day,        \* the Taiwan day
  ledger,     \* the adult exclusions on the main branch
  manual, stamps, mishaps

daily == <<published, disk, run, kept, day, ledger, manual, stamps, mishaps>>

Absent == "absent"
CandidatePaths == {"state", "catalog", "prefilter", "eligible"}
Paths == CandidatePaths \cup {"cache"}
Phases == <<"discovery", "date_precision", "prefilter", "followers", "complete">>

FreshState(d) ==
  [anchor |-> d, slot |-> 0, phase |-> "discovery", scanned |-> FALSE, updated |-> 0]
NoCatalog == [found |-> {}, gate |-> FALSE, eligible |-> {}]
NoPrefilter == [day |-> 0, next |-> 0, complete |-> FALSE, games |-> [a \in App |-> Absent]]
FirstFiles ==
  [state |-> FreshState(0), catalog |-> NoCatalog, prefilter |-> NoPrefilter,
   eligible |-> [day |-> 0, games |-> {}], cache |-> [a \in App |-> 0]]

NoBatch == [base |-> FirstFiles, observed |-> FirstFiles]
NoRun == [pc |-> "idle", kind |-> "slot", initial |-> FreshState(0), blocked |-> {},
          base |-> FirstFiles, passes |-> 0]

Init ==
  /\ published = FirstFiles /\ disk = FirstFiles
  /\ run = NoRun /\ kept = NoBatch
  /\ day = 1 /\ ledger = {}
  /\ manual = 0 /\ stamps = 0 /\ mishaps = 0
--------------------------------------------------------------------------------
(* domain/candidates.py *)

Screened(pre) == {a \in App : pre.games[a] # Absent}
Rows(d) == d.catalog.eligible \ run.blocked
WindowComplete(pre, rows) ==
  pre.next >= Cardinality(rows) /\ rows \subseteq Screened(pre)
PrefilterComplete(pre, rows) == pre.complete /\ WindowComplete(pre, rows)
PriorityRows(d) == {a \in Rows(d) : d.prefilter.games[a] = "high"}

(* The rows from the cursor on, in catalogue order. *)
WindowRows(pre, rows) ==
  {a \in rows : Cardinality({b \in rows : b < a}) \in pre.next..(pre.next + Window - 1)}
--------------------------------------------------------------------------------
(* One pass of execute_pipeline: the files that it may leave. *)

Updated(d, phase) == [d EXCEPT !.state.phase = phase, !.state.updated = stamps]

(* Games are merged by AppID with those of an interrupted pass. *)
Discovered(d) ==
  {[Updated(d, "date_precision") EXCEPT !.state.scanned = TRUE,
                                        !.catalog.found = @ \cup listed] : listed \in Listing}

(* The gate keeps games with an exact day that are not adult, at least one. *)
Gated(d) ==
  IF ~d.state.scanned \/ d.catalog.found = {} THEN {}
  ELSE IF d.catalog.gate THEN {Updated(d, "prefilter")}
  ELSE {[Updated(d, "prefilter") EXCEPT !.catalog.gate = TRUE, !.catalog.eligible = exact]
          : exact \in SUBSET (d.catalog.found \ run.blocked) \ {{}}}

(* scan_batch: a whole window is recorded, or nothing. *)
Scanned(pre, rows) ==
  LET window == WindowRows(pre, rows)
  IN {[pre EXCEPT !.next = @ + Cardinality(window),
                  !.games = [a \in App |-> IF a \in window THEN answer[a] ELSE @[a]]]
        : answer \in [window -> Band]}

Prescreened(d) ==
  LET rows == Rows(d)
  IN IF ~d.catalog.gate THEN {}
     ELSE {[Updated(d, IF WindowComplete(pre, rows) THEN "followers" ELSE "prefilter") EXCEPT
              !.prefilter = [pre EXCEPT !.day = day, !.complete = WindowComplete(pre, rows)]]
             : pre \in Scanned(d.prefilter, rows)}

(* run_follower_batch: some of the requests are answered. *)
Verified(d) ==
  LET remaining == {a \in PriorityRows(d) : d.cache[a] = 0}
  IN IF ~PrefilterComplete(d.prefilter, Rows(d)) THEN {}
     ELSE {[Updated(d, IF got = remaining THEN "complete" ELSE "followers") EXCEPT
              !.cache = [a \in App |-> IF a \in got THEN stamps ELSE @[a]]]
             : got \in {s \in SUBSET remaining : Cardinality(s) <= Budget}}

Pipeline(d) ==
  CASE d.state.phase = "discovery" -> Discovered(d)
    [] d.state.phase = "date_precision" -> Gated(d)
    [] d.state.phase = "prefilter" -> Prescreened(d)
    [] d.state.phase = "followers" ->
         IF PrefilterComplete(d.prefilter, Rows(d)) THEN Verified(d) ELSE Prescreened(d)
    [] OTHER -> {Updated(d, "complete")}

(* The order of the writes; a pass may die between any two of them. *)
Written == <<"prefilter", "cache", "catalog", "state">>
Torn(old, new, n) ==
  [f \in Paths |-> IF f \in {Written[i] : i \in 1..n} THEN new[f] ELSE old[f]]
--------------------------------------------------------------------------------
At(l) == run.pc = l
Still == UNCHANGED <<day, ledger>>
Mishap == mishaps < MaxFault /\ mishaps' = mishaps + 1
Gone == run' = NoRun /\ disk' = FirstFiles   \* the runner and its checkout
Later == stamps' = Min({stamps + 1, MaxStamp})

(* schedule_decision: the check of a slot is refused before the slot, and on another
   Taiwan day; what an operator starts is not. *)
SlotIsCurrent(kind, slot) == kind = "slot" => slot = day

(* The check of a slot, an operator's refresh, or an operator's continuation. *)
Start(kind, slot) ==
  /\ At("idle") /\ SlotIsCurrent(kind, slot)
  /\ IF kind = "slot" THEN UNCHANGED manual ELSE manual < MaxManual /\ manual' = manual + 1
  /\ disk' = published
  /\ run' = [NoRun EXCEPT !.pc = IF kind = "continue" THEN "capture" ELSE "reset",
                          !.kind = kind, !.initial = published.state, !.blocked = ledger]
  /\ Later
  /\ UNCHANGED <<published, kept, mishaps>> /\ Still

(* publish_daily_reset, applied to whatever is newest. *)
ResetAlways(s) == TRUE                                                          \* a slip
ResetRequired(s) ==
  \/ run.kind = "force" /\ s = run.initial
  \/ s.anchor # day
  \/ s.slot \notin {0, day}
KeepsPrescreen(d) ==                                                            \* a slip
  [d EXCEPT !.state = FreshState(day), !.catalog = NoCatalog]
ResetFiles(d) ==
  [d EXCEPT !.state = FreshState(day), !.catalog = NoCatalog, !.prefilter = NoPrefilter]

Reset(answered) ==
  /\ At("reset")
  /\ published.state.anchor <= day
  /\ LET files == IF ResetRequired(published.state) THEN ResetFiles(published) ELSE published
     IN published' = [files EXCEPT !.state.slot = day]
  /\ IF answered
     THEN /\ run' = [run EXCEPT !.pc = "capture", !.blocked = ledger]
          /\ disk' = published'
          /\ UNCHANGED mishaps
     ELSE Gone /\ Mishap
  /\ UNCHANGED <<kept, manual, stamps>> /\ Still

(* capture_daily_baseline *)
Capture ==
  /\ At("capture")
  /\ run' = [run EXCEPT !.pc = "work", !.base = disk]
  /\ UNCHANGED <<published, disk, kept, manual, stamps, mishaps>> /\ Still

(* The loop of a refresh, or the single pass of a continuation. *)
MorePasses ==
  IF run.kind = "continue" THEN run.passes = 0
  ELSE run.passes < MaxPass /\ disk.state.phase \notin {"followers", "complete"}

Pass ==
  /\ At("work") /\ MorePasses
  /\ disk' \in Pipeline(disk)
  /\ run' = [run EXCEPT !.passes = @ + 1]
  /\ Later
  /\ UNCHANGED <<published, kept, manual, mishaps>> /\ Still

(* The pass raises before it writes, or is killed between two writes. *)
PassDies(n) ==
  /\ At("work") /\ MorePasses
  /\ \E new \in Pipeline(disk) \cup {disk} : disk' = Torn(disk, new, n)
  /\ IF Pipeline(disk) = {} THEN UNCHANGED mishaps ELSE Mishap
  /\ run' = [run EXCEPT !.pc = "freeze"]
  /\ Later
  /\ UNCHANGED <<published, kept, manual>> /\ Still

(* "Export today's exact-date non-adult candidate handoff"; an unfinished
   refresh fails before it, and a continuation has no such step. *)
EndLoop ==
  /\ At("work") /\ ~MorePasses
  /\ run' = [run EXCEPT !.pc = "freeze"]
  /\ disk' = IF /\ run.kind # "continue"
                /\ disk.state.phase \in {"followers", "complete"} /\ disk.prefilter.complete
                /\ disk.catalog.gate
             THEN [disk EXCEPT !.eligible = [day |-> day, games |-> disk.catalog.eligible]]
             ELSE disk
  /\ UNCHANGED <<published, kept, manual, stamps, mishaps>> /\ Still

(* freeze_daily_state: the recovery input is durable before the first push. *)
Freeze ==
  /\ At("freeze")
  /\ kept' \in {kept, [base |-> run.base, observed |-> disk]}
  /\ run' = [run EXCEPT !.pc = "publish"]
  /\ UNCHANGED <<published, disk, manual, stamps, mishaps>> /\ Still
--------------------------------------------------------------------------------
(* publish_daily_state *)

MergeKey(l, b, o) == IF o = b THEN l ELSE IF l \in {b, o} THEN o ELSE -1
MergeCache(l, b, o) == [a \in App |-> MergeKey(l[a], b[a], o[a])]

(* Unknown progress of the candidate files fails closed, as one unit. *)
EachByItself(batch) ==                                                          \* a slip
  \A f \in CandidatePaths :
    batch.observed[f] # batch.base[f] => published[f] \in {batch.base[f], batch.observed[f]}
Replayable(batch) ==
  \/ \A f \in CandidatePaths : batch.observed[f] = batch.base[f]
  \/ \A f \in CandidatePaths : published[f] \in {batch.base[f], batch.observed[f]}

Mergeable(batch) ==
  /\ Replayable(batch)
  /\ -1 \notin {MergeCache(published.cache, batch.base.cache, batch.observed.cache)[a] : a \in App}

Replayed(batch) ==
  [f \in Paths |->
     IF f = "cache" THEN MergeCache(published.cache, batch.base.cache, batch.observed.cache)
     ELSE IF batch.observed[f] = batch.base[f] THEN published[f] ELSE batch.observed[f]]

Batch == [base |-> run.base, observed |-> disk]

Publish(answered) ==
  /\ At("publish") /\ Mergeable(Batch)
  /\ published' = Replayed(Batch)
  /\ IF answered THEN UNCHANGED mishaps ELSE Mishap
  /\ Gone
  /\ UNCHANGED <<kept, manual, stamps>> /\ Still

(* The batch stays an artifact. *)
PublishConflict ==
  /\ At("publish") /\ ~Mergeable(Batch)
  /\ Gone
  /\ UNCHANGED <<published, kept, manual, stamps, mishaps>> /\ Still

(* An operator submits the kept batch again. *)
Replay ==
  /\ kept # NoBatch /\ Mergeable(kept)
  /\ published' = Replayed(kept)
  /\ UNCHANGED <<disk, run, kept, manual, stamps, mishaps>> /\ Still
--------------------------------------------------------------------------------
(* The runner disappears, or an anchor of a later day stops the reset. *)
RunEnds ==
  /\ ~At("idle")
  /\ IF At("reset") /\ published.state.anchor > day THEN UNCHANGED mishaps ELSE Mishap
  /\ Gone
  /\ UNCHANGED <<published, kept, manual, stamps>> /\ Still

NewDay ==
  /\ day < MaxDay /\ day' = day + 1
  /\ UNCHANGED <<published, disk, run, kept, ledger, manual, stamps, mishaps>>

(* A commit of data/steam_adult_exclusion.json. *)
Exclude(a) ==
  /\ a \notin ledger /\ Cardinality(ledger) < MaxLedger
  /\ ledger' = ledger \cup {a} /\ Mishap
  /\ UNCHANGED <<published, disk, run, kept, day, manual, stamps>>

RunStep ==
  \/ \E answered \in BOOLEAN : Reset(answered) \/ Publish(answered)
  \/ Capture \/ Pass \/ EndLoop \/ Freeze \/ PublishConflict
  \/ \E n \in 0..Len(Written) : PassDies(n)

Next ==
  \/ RunStep \/ RunEnds \/ Replay \/ NewDay
  \/ \E kind \in {"slot", "force", "continue"}, slot \in 1..MaxDay : Start(kind, slot)
  \/ \E a \in App : Exclude(a)

Spec == Init /\ [][Next]_daily

(* The slot checks come four times a day, and a running job goes on. *)
SlotCheck == \E slot \in 1..MaxDay : Start("slot", slot)
Fairness == WF_daily(RunStep) /\ WF_daily(SlotCheck)
FairSpec == Spec /\ Fairness
--------------------------------------------------------------------------------
(* Properties *)

Files ==
  [state : [anchor : 0..MaxDay, slot : 0..MaxDay, phase : Range(Phases), scanned : BOOLEAN,
            updated : 0..MaxStamp],
   catalog : [found : SUBSET App, gate : BOOLEAN, eligible : SUBSET App],
   prefilter : [day : 0..MaxDay, next : 0..Cardinality(App), complete : BOOLEAN,
                games : [App -> Band \cup {Absent}]],
   eligible : [day : 0..MaxDay, games : SUBSET App],
   cache : [App -> 0..MaxStamp]]

(* The values the files and the runner hold. *)
TypeOK ==
  /\ published \in Files /\ disk \in Files
  /\ kept.base \in Files /\ kept.observed \in Files
  /\ run.base \in Files /\ run.passes \in 0..MaxPass /\ run.blocked \subseteq App
  /\ run.pc \in {"idle", "reset", "capture", "work", "freeze", "publish"}
  /\ day \in 1..MaxDay /\ ledger \subseteq App /\ Cardinality(ledger) <= MaxLedger
  /\ manual \in 0..MaxManual /\ stamps \in 0..MaxStamp /\ mishaps \in 0..MaxFault

HandedOff == published.state.phase \in {"followers", "complete"}

(* Whatever died, was lost or was submitted again, the published files belong
   together ("Never stitch unrelated concurrent phases into a fabricated
   handoff", daily_state.py): after the handoff every eligible game was
   screened, and what the hourly worker takes from the exported list and the
   screening of the day (make_queue) passed the date and content gate. *)
HandoffIsCoherent ==
  /\ HandedOff => /\ published.catalog.gate
                  /\ published.catalog.eligible \ ledger \subseteq Screened(published.prefilter)
  /\ published.eligible.day = day /\ published.prefilter.day = day =>
       published.eligible.games \cap Screened(published.prefilter)
         \subseteq published.catalog.eligible

PhaseNumber(d) == CHOOSE i \in 1..Len(Phases) : Phases[i] = d.state.phase

KeepsProgress ==
  /\ published'.state.anchor >= published.state.anchor
  /\ published'.state.anchor = published.state.anchor =>
       \/ /\ PhaseNumber(published') >= PhaseNumber(published)
          /\ published'.prefilter.next >= published.prefilter.next
          /\ Screened(published.prefilter) \subseteq Screened(published'.prefilter)
       \/ At("reset") /\ run.kind = "force" /\ run.initial = published.state

(* The day's progress is resumed and never undone, whichever runs and old
   batches meet: only an operator's refresh starts again, and only from the
   state that it saw ("must resume that state rather than repeatedly wiping its
   progress", publish_daily_reset).  An older day never comes back. *)
ProgressIsKept == [][KeepsProgress]_daily

(* The recovery checks finish what is left of the day's screening. *)
PrescreenFinishes == []<>HandedOff

(* They do unless the exclusion ledger, which only grows, changes. *)
HandedOffUnchanged == HandedOff \/ ledger # {}
PrescreenFinishesUnchanged == []<>HandedOffUnchanged
================================================================================
