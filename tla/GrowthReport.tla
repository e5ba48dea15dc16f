----------------------------- MODULE GrowthReport ------------------------------
(***************************************************************************)
(* The daily growth collection and its report: application/growth.py and    *)
(* growth_daily.py, the coverage rules of domain/growth.py, and the two      *)
(* deliveries that reconcile the report with what has become durable         *)
(* (publication/growth.py).                                                  *)
(*                                                                         *)
(* The public catalogue changes while the collection runs, and so do the    *)
(* groups: the Twitch and group resolvers write the same checkpoint.  A game *)
(* is measured through its group; a group that Valve says does not exist    *)
(* accounts for the game until the receipt expires.                         *)
(***************************************************************************)
EXTENDS Integers, FiniteSets

CONSTANTS
  Game,
  DayLength,   \* hours of a day
  Validity,    \* how long a receipt that a group is missing holds
  MaxHour,     \* BOUND on the clock
  MaxUpset,    \* BOUND on failed deliveries and dead collections
  MaxEdit      \* BOUND on what others change

GrowthAssumption ==
  /\ IsFiniteSet(Game)
  /\ {DayLength, Validity} \subseteq Nat \ {0} /\ {MaxHour, MaxUpset, MaxEdit} \subseteq Nat
  /\ DayLength <= MaxHour

VARIABLES
  catalog,    \* the accepted games, and whether their rows show a group
  identity,   \* the checkpoint: what is known of the game's group
  counted,    \* the checkpoint: the hour of the newest count, 0 if none
  shown,      \* the public history: the hour of the newest count
  collector,  \* the running collection and its report
  truth,      \* history: the catalogue and the groups that the deliveries met
  verdict,    \* the stamped report
  hour, upsets, edits

growth == <<catalog, identity, counted, shown, collector, truth, verdict, hour, upsets, edits>>

DayOf(h) == h \div DayLength
Today(h) == h > 0 /\ DayOf(h) = DayOf(hour)

Unknown == [state |-> "unknown", at |-> 0, retry |-> 0]
Receipts == [state : {"unknown", "missing", "resolved"}, at : 0..MaxHour,
             retry : 0..(MaxHour + Validity)]

NoCollector ==
  [pc |-> "idle", cohort |-> {}, todo |-> {}, base |-> [g \in Game |-> Unknown],
   ids |-> [g \in Game |-> Unknown], counts |-> [g \in Game |-> 0], measured |-> {},
   absent |-> {}, pending |-> {}, reason |-> "", day |-> 0,
   receipts |-> [g \in Game |-> Unknown], public |-> {}, grouped |-> {}, saved |-> FALSE]

Init ==
  /\ catalog \in [Game -> {"out", "plain"}]
  /\ identity = [g \in Game |-> Unknown]
  /\ counted = [g \in Game |-> 0] /\ shown = [g \in Game |-> 0]
  /\ collector = NoCollector
  /\ truth = [catalog |-> catalog, identity |-> identity]
  /\ verdict = "none" /\ hour = DayLength /\ upsets = 0 /\ edits = 0

In(c) == {g \in Game : c[g] # "out"}
At(l) == collector.pc = l
Upset == upsets < MaxUpset /\ upsets' = upsets + 1
World == <<catalog, hour, edits>>
Edit == edits < MaxEdit /\ edits' = edits + 1
--------------------------------------------------------------------------------
(* domain/growth.py *)

(* A verified absence is bounded: group_unavailable. *)
Absent(r) == r.state = "missing" /\ r.retry > hour

(* What the collected rows say, without the deliveries. *)
Covered(r) ==
  /\ r.reason = "completed" /\ r.pending = {}
  /\ r.day = DayOf(hour)
  /\ r.measured \cup r.absent = r.cohort
  /\ \A g \in r.measured : Today(r.counts[g])
  /\ \A g \in r.absent : Absent(r.ids[g])

(* growth_collection_complete of a report that both deliveries completed. *)
Complete(r) ==
  /\ Covered(r)
  /\ r.public = r.cohort /\ r.grouped \cap r.absent = {}
  /\ \A g \in r.absent : Absent(r.receipts[g]) /\ r.receipts[g].at >= r.ids[g].at

(* merge_growth_checkpoint: metadata never removes a group, and only newer
   evidence replaces a receipt. *)
MergedIdentity ==
  [g \in Game |->
     IF \/ collector.ids[g] = collector.base[g]
        \/ identity[g].state = "resolved" /\ collector.ids[g].state # "resolved"
        \/ identity[g].state # "unknown" /\ identity[g].at >= collector.ids[g].at
     THEN identity[g] ELSE collector.ids[g]]
MergedCounts ==
  [g \in Game |-> IF collector.counts[g] > counted[g] THEN collector.counts[g] ELSE counted[g]]
--------------------------------------------------------------------------------
(* application/growth.py *)

Collect ==
  /\ At("idle")
  /\ collector' = [NoCollector EXCEPT !.pc = "resolve", !.cohort = In(catalog),
                     !.todo = In(catalog), !.base = identity, !.ids = identity, !.day = DayOf(hour),
                     !.counts = [g \in Game |-> IF shown[g] > counted[g] THEN shown[g]
                                                ELSE counted[g]]]
  /\ verdict' = "none"
  /\ UNCHANGED <<identity, counted, shown, truth, upsets>> /\ UNCHANGED World

(* The official identity of a game without a group and without today's count,
   unless its last receipt still holds or the budget is spent. *)
Resolve(g, state) ==
  /\ At("resolve") /\ g \in collector.cohort
  /\ collector.ids[g].state # "resolved" /\ ~Today(collector.counts[g])
  /\ collector.ids[g].retry <= hour /\ collector.ids[g].at < hour
  /\ collector' = [collector EXCEPT !.ids[g] =
       [state |-> state, at |-> hour, retry |-> IF state = "missing" THEN hour + Validity ELSE 0]]
  /\ UNCHANGED <<identity, counted, shown, truth, verdict, upsets>> /\ UNCHANGED World

(* The identities are saved before the first XML request. *)
StartRows ==
  /\ At("resolve")
  /\ identity' = MergedIdentity
  /\ collector' = [collector EXCEPT !.pc = "rows", !.ids = MergedIdentity, !.base = MergedIdentity]
  /\ UNCHANGED <<counted, shown, truth, verdict, upsets>> /\ UNCHANGED World

(* One row of the loop: reused, or asked for and saved, or accounted for. *)
Row(g) ==
  LET done == [collector EXCEPT !.todo = @ \ {g}]
  IN /\ At("rows") /\ g \in collector.todo
     /\ \/ /\ Today(collector.counts[g])
           /\ collector' = [done EXCEPT !.measured = @ \cup {g}]
           /\ UNCHANGED counted
        \/ /\ ~Today(collector.counts[g]) /\ collector.ids[g].state = "resolved"
           /\ collector' = [done EXCEPT !.measured = @ \cup {g}, !.counts[g] = hour]
           /\ counted' = [counted EXCEPT ![g] = hour]
        \/ /\ ~Today(collector.counts[g]) /\ collector.ids[g].state # "resolved"
           /\ Absent(collector.ids[g])
           /\ collector' = [done EXCEPT !.absent = @ \cup {g}]
           /\ UNCHANGED counted
        \/ (* no group, a cooldown, the budget, or a failed request *)
           /\ ~Today(collector.counts[g])
           /\ collector.ids[g].state = "resolved" \/ ~Absent(collector.ids[g])
           /\ collector' = [done EXCEPT !.pending = @ \cup {g}]
           /\ UNCHANGED counted
     /\ UNCHANGED <<identity, shown, truth, verdict, upsets>> /\ UNCHANGED World

Finish ==
  /\ At("rows") /\ collector.todo = {}
  /\ \E reason \in IF collector.pending = {} THEN {"completed"}
                   ELSE IF \E g \in collector.pending : collector.ids[g].state = "resolved"
                   THEN {"pending", "rate_limited"} ELSE {"pending"} :
       collector' = [collector EXCEPT !.pc = "checkpoint", !.reason = reason]
  /\ UNCHANGED <<identity, counted, shown, truth, verdict, upsets>> /\ UNCHANGED World

(* growth_daily.py: a collection that a cooldown stopped waits for its end, and
   goes over the rows again if it still is the same day. *)
Again ==
  /\ At("checkpoint") /\ collector.reason = "rate_limited" /\ DayOf(hour) = collector.day
  /\ collector' = [collector EXCEPT !.pc = "resolve", !.todo = collector.cohort, !.reason = "",
                     !.measured = {}, !.absent = {}, !.pending = {}]
  /\ UNCHANGED <<identity, counted, shown, truth, verdict, upsets>> /\ UNCHANGED World
--------------------------------------------------------------------------------
(* publication/growth.py *)

(* Games whose absence no longer holds are to be retried. *)
Superseded(r, stale) ==
  IF stale = {} THEN r
  ELSE [r EXCEPT !.reason = "changed", !.pending = @ \cup stale, !.absent = @ \ stale]

WithCheckpoint(r, receipts) ==
  LET stale == {g \in r.absent : \/ receipts[g].state = "resolved" \/ ~Absent(receipts[g])
                                 \/ receipts[g].at < r.ids[g].at}
  IN Superseded([r EXCEPT !.receipts = receipts], stale)

KeepsCohort(r, rows) ==                                                          \* a slip
  [r EXCEPT !.public = r.cohort, !.grouped = {}]
WithCatalog(r, rows) ==
  LET grouped == {g \in In(rows) : rows[g] = "grouped"}
      bound == [r EXCEPT !.public = In(rows), !.grouped = grouped]
      joined == In(rows) \ r.cohort
      reconciled == Superseded(bound, (r.absent \cap grouped) \cup (r.absent \ In(rows)))
  IN IF In(rows) = r.cohort THEN reconciled
     ELSE [reconciled EXCEPT !.reason = "changed", !.pending = @ \cup joined]

(* publish_growth_checkpoint: the report is bound to what was committed. *)
DeliverCheckpoint ==
  /\ At("checkpoint")
  /\ identity' = MergedIdentity /\ counted' = MergedCounts
  /\ collector' = [WithCheckpoint(collector, MergedIdentity) EXCEPT !.pc = "publish"]
  /\ truth' = [truth EXCEPT !.identity = MergedIdentity]
  /\ UNCHANGED <<shown, verdict, upsets>> /\ UNCHANGED World

(* publish_growth, on the newest catalogue. *)
Publish ==
  LET report == WithCatalog(collector, catalog)
      expired == {g \in report.absent : ~Absent(report.receipts[g])}
  IN /\ At("publish")
     /\ shown' = [g \in Game |-> IF g \in report.measured /\ report.counts[g] > shown[g]
                                 THEN report.counts[g] ELSE shown[g]]
     /\ collector' = [Superseded(report, expired) EXCEPT !.pc = "stamp", !.saved = TRUE]
     /\ truth' = [truth EXCEPT !.catalog = catalog]
     /\ UNCHANGED <<identity, counted, verdict, upsets>> /\ UNCHANGED World

(* A delivery fails, after what it carries was accepted or before: the report
   is stamped as failed, and the checkpoint alone holds the counts. *)
DeliveryFails(accepted) ==
  /\ At("checkpoint") \/ At("publish")
  /\ Upset
  /\ IF At("checkpoint") /\ accepted
     THEN identity' = MergedIdentity /\ counted' = MergedCounts
     ELSE UNCHANGED <<identity, counted>>
  /\ shown' = IF At("publish") /\ accepted
              THEN [g \in Game |-> IF g \in collector.measured /\ collector.counts[g] > shown[g]
                                   THEN collector.counts[g] ELSE shown[g]]
              ELSE shown
  /\ collector' = [collector EXCEPT !.pc = "stamp"]
  /\ UNCHANGED <<truth, verdict>> /\ UNCHANGED World

(* stamp_growth_publication, evaluated at the clock of the stamp. *)
Stamp ==
  /\ At("stamp")
  /\ verdict' = IF ~collector.saved THEN "failed"
                ELSE IF Complete(collector) THEN "complete" ELSE "partial"
  /\ collector' = NoCollector
  /\ UNCHANGED <<identity, counted, shown, truth, upsets>> /\ UNCHANGED World

Die ==
  /\ ~At("idle") /\ Upset
  /\ collector' = NoCollector
  /\ UNCHANGED <<identity, counted, shown, truth, verdict>> /\ UNCHANGED World
--------------------------------------------------------------------------------
(* The catalogue is published, another worker resolves a group, time passes. *)
Recatalog(g, row) ==
  /\ catalog[g] # row /\ Edit
  /\ catalog' = [catalog EXCEPT ![g] = row]
  /\ UNCHANGED <<identity, counted, shown, collector, truth, verdict, hour, upsets>>

ResolveElsewhere(g, state) ==
  /\ identity[g].state # "resolved" /\ identity[g].retry <= hour /\ identity[g].at < hour
  /\ Edit
  /\ identity' = [identity EXCEPT ![g] =
       [state |-> state, at |-> hour, retry |-> IF state = "missing" THEN hour + Validity ELSE 0]]
  /\ UNCHANGED <<catalog, counted, shown, collector, truth, verdict, hour, upsets>>

NextHour ==
  /\ hour < MaxHour /\ hour' = hour + 1
  /\ UNCHANGED <<catalog, identity, counted, shown, collector, truth, verdict, upsets, edits>>

Next ==
  \/ Collect \/ StartRows \/ (\E g \in Game : Row(g)) \/ Finish \/ Again
  \/ DeliverCheckpoint \/ Publish \/ Stamp \/ Die
  \/ \E accepted \in BOOLEAN : DeliveryFails(accepted)
  \/ \E g \in Game, state \in {"missing", "resolved"} : Resolve(g, state) \/ ResolveElsewhere(g, state)
  \/ \E g \in Game, row \in {"out", "plain", "grouped"} : Recatalog(g, row)
  \/ NextHour

Spec == Init /\ [][Next]_growth
--------------------------------------------------------------------------------
(* Properties *)

(* The catalogue, the receipts and the report. *)
TypeOK ==
  /\ catalog \in [Game -> {"out", "plain", "grouped"}]
  /\ identity \in [Game -> Receipts] /\ collector.ids \in [Game -> Receipts]
  /\ counted \in [Game -> 0..MaxHour] /\ shown \in [Game -> 0..MaxHour]
  /\ collector.measured \cup collector.absent \cup collector.pending \subseteq Game
  /\ verdict \in {"none", "failed", "partial", "complete"}
  /\ hour \in 1..MaxHour /\ edits \in 0..MaxEdit /\ upsets \in 0..MaxUpset

CoversTheDay ==
  At("stamp") /\ verdict' = "complete" =>
    \A g \in In(truth.catalog) :
      \/ Today(shown[g])
      \/ Absent(truth.identity[g]) /\ truth.catalog[g] # "grouped"

(* A complete day is complete for the catalogue that the report was published
   with: every accepted game shows a count of the day, or its group was still
   known to be missing when the counts became durable.  A game that was
   accepted, or a group that was resolved, in the meantime is retried
   ("must not turn off the later daily retry", growth_publication_payload). *)
CompleteIsCovered == [][CoversTheDay]_growth
================================================================================
