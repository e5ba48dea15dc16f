------------------------------ MODULE Jobs_proofs ------------------------------
(***************************************************************************)
(* Proofs about the jobs of Jobs, one section for each: for every value of  *)
(* what it is given, an inductive invariant and what follows from it.       *)
(***************************************************************************)
EXTENDS Jobs, FiniteSetTheorems, WellFoundedInduction, SequenceTheorems, TLAPS

(* Days follow one another. *)
LEMMA DivisionGrows ==
  ASSUME NEW d \in Nat \ {0}, NEW a \in Nat, NEW b \in Nat, a <= b
  PROVE  a \div d \in Nat /\ b \div d \in Nat /\ a \div d <= b \div d
  <1>1. \A n \in Nat : /\ n \div d \in Nat /\ d * (n \div d) <= n
                       /\ n < d * (n \div d) + d
    BY SMT
  <1> DEFINE x == a \div d  y == b \div d
  <1>2. x \in Nat /\ y \in Nat /\ d * x <= a /\ b < d * y + d
    BY <1>1
  <1> HIDE DEF x, y
  <1>3. ~(y < x)
    <2> SUFFICES ASSUME y < x PROVE FALSE
      OBVIOUS
    <2>1. PICK k \in Nat : x = y + 1 + k
      <3>1. x - (y + 1) \in Nat /\ x = y + 1 + (x - (y + 1))
        BY <1>2
      <3> QED BY <3>1
    <2>2. d * x = d * y + d + d * k /\ d * k \in Nat /\ d * y \in Nat
      BY <1>2, <2>1
    <2> QED BY <1>2, <2>2
  <1> QED BY <1>2, <1>3 DEF x, y
--------------------------------------------------------------------------------
(* GrowthReport *)

LEMMA GrowthGiven == Growth!GrowthAssumption
  BY JobsAssumption

LEMMA DaysAreOrdered ==
  ASSUME NEW d \in Nat \ {0}, NEW a \in Nat, NEW b \in Nat, NEW c \in Nat,
         a <= b, b <= c, a \div d = c \div d
  PROVE  b \div d = c \div d
  <1>1. /\ a \div d \in Nat /\ b \div d \in Nat
        /\ a \div d <= b \div d /\ b \div d <= c \div d
    BY DivisionGrows
  <1> QED BY <1>1

--------------------------------------------------------------------------------
Reports ==
  [pc : {"idle", "resolve", "rows", "checkpoint", "publish", "stamp"},
   cohort : SUBSET OfGrowth.Game, todo : SUBSET OfGrowth.Game, base : [OfGrowth.Game -> Growth!Receipts],
   ids : [OfGrowth.Game -> Growth!Receipts], counts : [OfGrowth.Game -> 0..OfGrowth.MaxHour], measured : SUBSET OfGrowth.Game,
   absent : SUBSET OfGrowth.Game, pending : SUBSET OfGrowth.Game,
   reason : {"", "completed", "pending", "rate_limited", "changed"}, day : Int,
   receipts : [OfGrowth.Game -> Growth!Receipts], public : SUBSET OfGrowth.Game, grouped : SUBSET OfGrowth.Game,
   saved : BOOLEAN]
GrowthRows == {"out", "plain", "grouped"}

GrowthTypes ==
  /\ catalog \in [OfGrowth.Game -> GrowthRows] /\ identity \in [OfGrowth.Game -> Growth!Receipts]
  /\ counted \in [OfGrowth.Game -> 0..OfGrowth.MaxHour] /\ shown \in [OfGrowth.Game -> 0..OfGrowth.MaxHour]
  /\ collector \in Reports
  /\ truth \in [catalog : [OfGrowth.Game -> GrowthRows], identity : [OfGrowth.Game -> Growth!Receipts]]
  /\ verdict \in {"none", "failed", "partial", "complete"}
  /\ hour \in 1..OfGrowth.MaxHour /\ edits \in 0..OfGrowth.MaxEdit /\ upsets \in 0..OfGrowth.MaxUpset

(* No count is of an hour to come. *)
GrowthPast ==
  \A g \in OfGrowth.Game : counted[g] <= hour /\ shown[g] <= hour /\ collector.counts[g] <= hour

(* A report is bound to what its two deliveries met, and its counts are shown. *)
GrowthBound ==
  /\ ~Growth!At("idle") => verdict = "none"
  /\ Growth!At("publish") => collector.receipts = truth.identity
  /\ collector.saved =>
       /\ Growth!At("stamp") /\ collector.receipts = truth.identity
       /\ collector.public = Growth!In(truth.catalog)
       /\ collector.grouped = {g \in Growth!In(truth.catalog) : truth.catalog[g] = "grouped"}
       /\ \A g \in collector.measured : collector.counts[g] <= shown[g]

GrowthInv == GrowthTypes /\ GrowthPast /\ GrowthBound

LEMMA UnknownIsReceipt == ASSUME Growth!GrowthAssumption, GrowthTypes PROVE Growth!Unknown \in Growth!Receipts
  BY DEF Growth!Unknown, Growth!Receipts, GrowthTypes, Growth!GrowthAssumption

LEMMA NoCollectorType == 
  ASSUME Growth!GrowthAssumption, GrowthTypes
  PROVE  /\ Growth!NoCollector \in Reports /\ ~Growth!NoCollector.saved /\ Growth!NoCollector.pc = "idle"
         /\ \A g \in OfGrowth.Game : Growth!NoCollector.counts[g] = 0
  <1>1. 0 \in 0..OfGrowth.MaxHour /\ 0 \in Int
    BY DEF GrowthTypes, Growth!GrowthAssumption
  <1>2. [g \in OfGrowth.Game |-> Growth!Unknown] \in [OfGrowth.Game -> Growth!Receipts]
    BY UnknownIsReceipt
  <1>3. [g \in OfGrowth.Game |-> 0] \in [OfGrowth.Game -> 0..OfGrowth.MaxHour]
    BY <1>1
  <1> QED BY <1>1, <1>2, <1>3 DEF Growth!NoCollector, Reports

LEMMA MergedType ==
  ASSUME GrowthTypes
  PROVE  /\ Growth!MergedIdentity \in [OfGrowth.Game -> Growth!Receipts] /\ Growth!MergedCounts \in [OfGrowth.Game -> 0..OfGrowth.MaxHour]
  BY DEF GrowthTypes, Reports, Growth!MergedIdentity, Growth!MergedCounts

LEMMA MergedPast ==
  ASSUME GrowthTypes, GrowthPast
  PROVE  \A g \in OfGrowth.Game : Growth!MergedCounts[g] <= hour
  BY DEF GrowthTypes, GrowthPast, Reports, Growth!MergedCounts

(* To retry a game changes nothing else of the report. *)
LEMMA SupersededKeeps ==
  ASSUME NEW r \in Reports, NEW stale \in SUBSET OfGrowth.Game
  PROVE  LET s == Growth!Superseded(r, stale)
         IN /\ s \in Reports
            /\ s.pc = r.pc /\ s.receipts = r.receipts /\ s.public = r.public
            /\ s.grouped = r.grouped /\ s.measured = r.measured /\ s.counts = r.counts
            /\ s.saved = r.saved
  BY DEF Growth!Superseded, Reports

LEMMA WithCheckpointBinds ==
  ASSUME NEW r \in Reports, NEW receipts \in [OfGrowth.Game -> Growth!Receipts]
  PROVE  LET s == Growth!WithCheckpoint(r, receipts)
         IN s \in Reports /\ s.receipts = receipts /\ s.counts = r.counts /\ s.saved = r.saved
  <1> DEFINE q == [r EXCEPT !.receipts = receipts]
             stale == {g \in r.absent : \/ receipts[g].state = "resolved" \/ ~Growth!Absent(receipts[g])
                                        \/ receipts[g].at < r.ids[g].at}
  <1>1. q \in Reports /\ q.receipts = receipts /\ q.counts = r.counts /\ q.saved = r.saved
    BY DEF Reports
  <1>2. stale \in SUBSET OfGrowth.Game
    BY DEF Reports
  <1>3. Growth!WithCheckpoint(r, receipts) = Growth!Superseded(q, stale)
    BY DEF Growth!WithCheckpoint
  <1> HIDE DEF q, stale
  <1> QED BY <1>1, <1>2, <1>3, SupersededKeeps

LEMMA WithCatalogBinds ==
  ASSUME NEW r \in Reports, NEW rows \in [OfGrowth.Game -> GrowthRows]
  PROVE  LET s == Growth!WithCatalog(r, rows)
         IN /\ s \in Reports
            /\ s.public = Growth!In(rows) /\ s.grouped = {g \in Growth!In(rows) : rows[g] = "grouped"}
            /\ s.receipts = r.receipts /\ s.measured = r.measured /\ s.counts = r.counts
            /\ s.saved = r.saved
  <1> DEFINE grouped == {g \in Growth!In(rows) : rows[g] = "grouped"}
             bound == [r EXCEPT !.public = Growth!In(rows), !.grouped = grouped]
             stale == (r.absent \cap grouped) \cup (r.absent \ Growth!In(rows))
             joined == Growth!In(rows) \ r.cohort
             reconciled == Growth!Superseded(bound, stale)
  <1>1. Growth!In(rows) \in SUBSET OfGrowth.Game /\ grouped \in SUBSET OfGrowth.Game /\ joined \in SUBSET OfGrowth.Game
    BY DEF Growth!In
  <1>2. stale \in SUBSET OfGrowth.Game
    BY DEF Reports
  <1>3. /\ bound \in Reports /\ bound.public = Growth!In(rows) /\ bound.grouped = grouped
        /\ bound.receipts = r.receipts /\ bound.measured = r.measured
        /\ bound.counts = r.counts /\ bound.saved = r.saved
    BY <1>1 DEF Reports
  <1>4. Growth!WithCatalog(r, rows) = IF Growth!In(rows) = r.cohort THEN reconciled
          ELSE [reconciled EXCEPT !.reason = "changed", !.pending = @ \cup joined]
    BY DEF Growth!WithCatalog
  <1> HIDE DEF bound, stale, joined
  <1>5. /\ reconciled \in Reports /\ reconciled.public = Growth!In(rows)
        /\ reconciled.grouped = grouped /\ reconciled.receipts = r.receipts
        /\ reconciled.measured = r.measured /\ reconciled.counts = r.counts
        /\ reconciled.saved = r.saved
    BY <1>2, <1>3, SupersededKeeps
  <1> HIDE DEF reconciled, grouped
  <1>6. LET s == [reconciled EXCEPT !.reason = "changed", !.pending = @ \cup joined]
        IN /\ s \in Reports /\ s.public = Growth!In(rows) /\ s.grouped = grouped
           /\ s.receipts = r.receipts /\ s.measured = r.measured /\ s.counts = r.counts
           /\ s.saved = r.saved
    BY <1>1, <1>5 DEF Reports
  <1> QED BY <1>4, <1>5, <1>6 DEF grouped
--------------------------------------------------------------------------------
LEMMA GrowthStarts == Growth!Init => GrowthInv
  <1> SUFFICES ASSUME Growth!Init PROVE GrowthInv
    OBVIOUS
  <1> USE GrowthGiven
  <1>1. Growth!Unknown \in Growth!Receipts /\ 0 \in 0..OfGrowth.MaxHour
    BY DEF Growth!GrowthAssumption, Growth!Unknown, Growth!Receipts, Growth!Init
  <1>2. GrowthTypes
    <2>1. [g \in OfGrowth.Game |-> Growth!Unknown] \in [OfGrowth.Game -> Growth!Receipts]
          /\ [g \in OfGrowth.Game |-> 0] \in [OfGrowth.Game -> 0..OfGrowth.MaxHour]
      BY <1>1
    <2>2. catalog \in [OfGrowth.Game -> GrowthRows]
      BY DEF Growth!Init, GrowthRows
    <2>3. truth \in [catalog : [OfGrowth.Game -> GrowthRows], identity : [OfGrowth.Game -> Growth!Receipts]]
      BY <2>1, <2>2 DEF Growth!Init
    <2>4. Growth!NoCollector \in Reports
      BY <2>1 DEF Growth!NoCollector, Reports
    <2> QED BY <2>1, <2>2, <2>3, <2>4 DEF GrowthTypes, Growth!Init, Growth!GrowthAssumption
  <1> QED BY <1>2, NoCollectorType DEF GrowthInv, GrowthPast, GrowthBound, Growth!Init, Growth!At,
             Growth!GrowthAssumption

LEMMA GrowthKeeps == GrowthInv /\ [Growth!Next]_(Growth!growth) => GrowthInv'
  <1> SUFFICES ASSUME GrowthInv, [Growth!Next]_(Growth!growth) PROVE GrowthInv'
    OBVIOUS
  <1> USE GrowthGiven
  <1> USE DEF GrowthInv
  <1>a. /\ hour \in Nat /\ OfGrowth.MaxHour \in Nat
    BY DEF GrowthTypes, Growth!GrowthAssumption
  <1>1. CASE UNCHANGED Growth!growth
    BY <1>1 DEF Growth!growth, GrowthTypes, GrowthPast, GrowthBound, Growth!At, Growth!In
  <1>2. CASE Growth!Collect
    <2>1. collector' \in Reports /\ ~collector'.saved /\ collector'.pc = "resolve"
          /\ \A g \in OfGrowth.Game : collector'.counts[g] <= hour
      <3> DEFINE newest == [g \in OfGrowth.Game |-> IF shown[g] > counted[g] THEN shown[g]
                                           ELSE counted[g]]
      <3>1. newest \in [OfGrowth.Game -> 0..OfGrowth.MaxHour] /\ \A g \in OfGrowth.Game : newest[g] <= hour
        BY DEF GrowthTypes, GrowthPast
      <3>2. Growth!In(catalog) \in SUBSET OfGrowth.Game /\ Growth!DayOf(hour) \in Int
        BY <1>a DEF Growth!In, Growth!DayOf, Growth!GrowthAssumption
      <3> HIDE DEF newest
      <3> QED BY <1>2, <3>1, <3>2, NoCollectorType DEF Growth!Collect, newest, GrowthTypes, Reports
    <2> QED BY <1>2, <2>1 DEF Growth!Collect, Growth!World, GrowthTypes, GrowthPast, GrowthBound,
               Growth!At, Growth!In
  <1>3. ASSUME NEW g \in OfGrowth.Game, NEW state \in {"missing", "resolved"}, Growth!Resolve(g, state)
        PROVE GrowthInv'
    <2> DEFINE receipt == [state |-> state, at |-> hour,
                           retry |-> IF state = "missing" THEN hour + OfGrowth.Validity ELSE 0]
    <2>1. receipt \in Growth!Receipts
      BY <1>a DEF Growth!Receipts, Growth!GrowthAssumption, GrowthTypes
    <2> HIDE DEF receipt
    <2>2. collector' = [collector EXCEPT !.ids[g] = receipt]
      BY <1>3 DEF Growth!Resolve, receipt
    <2>3. /\ collector' \in Reports /\ collector'.saved = collector.saved
          /\ collector'.counts = collector.counts /\ collector'.pc = collector.pc
      BY <2>1, <2>2 DEF Reports, GrowthTypes
    <2>4. ~collector.saved /\ collector.pc = "resolve"
      BY <1>3 DEF Growth!Resolve, Growth!At, GrowthBound
    <2> QED BY <1>3, <2>3, <2>4 DEF Growth!Resolve, Growth!World, GrowthTypes, GrowthPast,
               GrowthBound, Growth!At, Growth!In
  <1>4. CASE Growth!StartRows
    <2>1. /\ collector' \in Reports /\ collector'.saved = collector.saved
          /\ collector'.counts = collector.counts /\ collector'.pc = "rows"
      BY <1>4, MergedType DEF Growth!StartRows, Reports, GrowthTypes
    <2>2. ~collector.saved
      BY <1>4 DEF Growth!StartRows, Growth!At, GrowthBound
    <2> QED BY <1>4, <2>1, <2>2, MergedType
            DEF Growth!StartRows, Growth!World, GrowthTypes, GrowthPast, GrowthBound, Growth!At, Growth!In
  <1>5. ASSUME NEW g \in OfGrowth.Game, Growth!Row(g) PROVE GrowthInv'
    <2> DEFINE done == [collector EXCEPT !.todo = @ \ {g}]
    <2>1. /\ done \in Reports /\ done.saved = collector.saved
          /\ done.counts = collector.counts /\ done.pc = "rows"
      BY <1>5 DEF Growth!Row, Growth!At, Reports, GrowthTypes
    <2>2. ~collector.saved /\ verdict = "none"
      BY <1>5 DEF Growth!Row, Growth!At, GrowthBound
    <2>3. hour \in 0..OfGrowth.MaxHour
      BY DEF GrowthTypes
    <2>4. /\ \/ /\ collector' = [done EXCEPT !.measured = @ \cup {g}]
                /\ counted' = counted
             \/ /\ collector' = [done EXCEPT !.measured = @ \cup {g}, !.counts[g] = hour]
                /\ counted' = [counted EXCEPT ![g] = hour]
             \/ /\ collector' = [done EXCEPT !.absent = @ \cup {g}]
                /\ counted' = counted
             \/ /\ collector' = [done EXCEPT !.pending = @ \cup {g}]
                /\ counted' = counted
          /\ UNCHANGED <<identity, shown, truth, verdict, upsets, catalog, hour, edits>>
      BY <1>5 DEF Growth!Row, Growth!World
    <2> HIDE DEF done
    <2>5. collector' \in Reports /\ ~collector'.saved /\ collector'.pc = "rows"
      <3>1. CASE collector' = [done EXCEPT !.measured = @ \cup {g}]
        BY <2>1, <2>2, <3>1 DEF Reports
      <3>2. CASE collector' = [done EXCEPT !.measured = @ \cup {g}, !.counts[g] = hour]
        <4>1. [done.counts EXCEPT ![g] = hour] \in [OfGrowth.Game -> 0..OfGrowth.MaxHour]
          BY <2>1, <2>3 DEF Reports
        <4>2. collector' = [done EXCEPT !.measured = @ \cup {g},
                                                        !.counts = [done.counts EXCEPT ![g] = hour]]
          BY <2>1, <3>2 DEF Reports
        <4> QED BY <2>1, <2>2, <4>1, <4>2 DEF Reports
      <3>3. CASE collector' = [done EXCEPT !.absent = @ \cup {g}]
        BY <2>1, <2>2, <3>3 DEF Reports
      <3>4. CASE collector' = [done EXCEPT !.pending = @ \cup {g}]
        BY <2>1, <2>2, <3>4 DEF Reports
      <3> QED BY <2>4, <3>1, <3>2, <3>3, <3>4
    <2>6. counted' \in [OfGrowth.Game -> 0..OfGrowth.MaxHour]
      BY <2>3, <2>4 DEF GrowthTypes
    <2>7. \A h \in OfGrowth.Game : counted'[h] <= hour /\ collector'.counts[h] <= hour
      <3>1. done.counts \in [OfGrowth.Game -> 0..OfGrowth.MaxHour] /\ counted \in [OfGrowth.Game -> 0..OfGrowth.MaxHour]
        BY <2>1 DEF Reports, GrowthTypes
      <3>2. hour <= hour
        BY <1>a
      <3>3. \A h \in OfGrowth.Game : counted[h] <= hour /\ done.counts[h] <= hour
        BY <2>1 DEF GrowthPast
      <3>4. \/ collector'.counts = done.counts /\ counted' = counted
            \/ /\ collector'.counts = [done.counts EXCEPT ![g] = hour]
               /\ counted' = [counted EXCEPT ![g] = hour]
        BY <2>1, <2>4 DEF Reports
      <3> QED BY <3>1, <3>2, <3>3, <3>4
    <2> QED BY <2>2, <2>4, <2>5, <2>6, <2>7 DEF GrowthTypes, GrowthPast, GrowthBound, Growth!At
  <1>6. CASE Growth!Finish
    <2>1. /\ collector' \in Reports /\ collector'.saved = collector.saved
          /\ collector'.counts = collector.counts /\ collector'.pc = "checkpoint"
      <3>1. PICK reason \in {"completed", "pending", "rate_limited"} :
              collector' = [collector EXCEPT !.pc = "checkpoint", !.reason = reason]
        BY <1>6 DEF Growth!Finish
      <3> QED BY <3>1 DEF Reports, GrowthTypes
    <2>2. ~collector.saved
      BY <1>6 DEF Growth!Finish, Growth!At, GrowthBound
    <2> QED BY <1>6, <2>1, <2>2 DEF Growth!Finish, Growth!World, GrowthTypes, GrowthPast,
               GrowthBound, Growth!At, Growth!In
  <1>7. CASE Growth!Again
    <2>1. /\ collector' \in Reports /\ collector'.saved = collector.saved
          /\ collector'.counts = collector.counts /\ collector'.pc = "resolve"
      BY <1>7 DEF Growth!Again, Reports, GrowthTypes
    <2>2. ~collector.saved
      BY <1>7 DEF Growth!Again, Growth!At, GrowthBound
    <2> QED BY <1>7, <2>1, <2>2 DEF Growth!Again, Growth!World, GrowthTypes, GrowthPast,
               GrowthBound, Growth!At, Growth!In
  <1>8. CASE Growth!DeliverCheckpoint
    <2> DEFINE with == Growth!WithCheckpoint(collector, Growth!MergedIdentity)
    <2>1. /\ with \in Reports /\ with.receipts = Growth!MergedIdentity
          /\ with.counts = collector.counts /\ with.saved = collector.saved
      BY MergedType, WithCheckpointBinds DEF GrowthTypes
    <2>2. ~collector.saved /\ verdict = "none"
      BY <1>8 DEF Growth!DeliverCheckpoint, Growth!At, GrowthBound
    <2>3. collector' = [with EXCEPT !.pc = "publish"]
      BY <1>8 DEF Growth!DeliverCheckpoint
    <2> HIDE DEF with
    <2>4. /\ collector' \in Reports /\ collector'.receipts = Growth!MergedIdentity
          /\ collector'.counts = collector.counts /\ ~collector'.saved
      BY <2>1, <2>2, <2>3 DEF Reports
    <2>5. /\ truth' \in [catalog : [OfGrowth.Game -> GrowthRows], identity : [OfGrowth.Game -> Growth!Receipts]]
          /\ truth'.identity = Growth!MergedIdentity
      BY <1>8, MergedType DEF Growth!DeliverCheckpoint, GrowthTypes
    <2>6. identity' = Growth!MergedIdentity /\ counted' = Growth!MergedCounts
          /\ UNCHANGED <<shown, verdict, upsets, catalog, hour, edits>>
      BY <1>8 DEF Growth!DeliverCheckpoint, Growth!World
    <2> QED BY <2>2, <2>4, <2>5, <2>6, MergedType, MergedPast
            DEF GrowthTypes, GrowthPast, GrowthBound
  <1>9. CASE Growth!Publish
    <2> DEFINE report == Growth!WithCatalog(collector, catalog)
               expired == {g \in report.absent : ~Growth!Absent(report.receipts[g])}
               over == Growth!Superseded(report, expired)
    <2>1. /\ report \in Reports
          /\ report.public = Growth!In(catalog)
          /\ report.grouped = {g \in Growth!In(catalog) : catalog[g] = "grouped"}
          /\ report.receipts = collector.receipts /\ report.measured = collector.measured
          /\ report.counts = collector.counts
      BY WithCatalogBinds DEF GrowthTypes
    <2>2. collector.receipts = truth.identity /\ verdict = "none"
      BY <1>9 DEF Growth!Publish, Growth!At, GrowthBound
    <2>3. /\ shown' = [g \in OfGrowth.Game |-> IF g \in report.measured /\ report.counts[g] > shown[g]
                                       THEN report.counts[g] ELSE shown[g]]
          /\ collector' = [over EXCEPT !.pc = "stamp", !.saved = TRUE]
          /\ truth' = [truth EXCEPT !.catalog = catalog]
          /\ UNCHANGED <<identity, counted, verdict, upsets, catalog, hour, edits>>
      BY <1>9 DEF Growth!Publish, Growth!World
    <2> HIDE DEF report
    <2>4. expired \in SUBSET OfGrowth.Game
      BY <2>1 DEF Reports
    <2> HIDE DEF expired
    <2>5. /\ over \in Reports /\ over.public = report.public /\ over.grouped = report.grouped
          /\ over.receipts = report.receipts /\ over.measured = report.measured
          /\ over.counts = report.counts
      BY <2>1, <2>4, SupersededKeeps
    <2> HIDE DEF over
    <2>6. /\ collector' \in Reports /\ collector'.pc = "stamp"
          /\ collector'.public = report.public /\ collector'.grouped = report.grouped
          /\ collector'.receipts = report.receipts /\ collector'.measured = report.measured
          /\ collector'.counts = report.counts
      BY <2>3, <2>5 DEF Reports
    <2>7. report.counts \in [OfGrowth.Game -> 0..OfGrowth.MaxHour] /\ shown \in [OfGrowth.Game -> 0..OfGrowth.MaxHour]
      BY <2>1 DEF Reports, GrowthTypes
    <2>8. shown' \in [OfGrowth.Game -> 0..OfGrowth.MaxHour] /\ \A g \in OfGrowth.Game : shown'[g] <= hour
      BY <2>1, <2>3, <2>7 DEF GrowthPast
    <2>9. \A g \in OfGrowth.Game : g \in report.measured => report.counts[g] <= shown'[g]
      BY <2>3, <2>7
    <2>10. /\ truth' \in [catalog : [OfGrowth.Game -> GrowthRows], identity : [OfGrowth.Game -> Growth!Receipts]]
           /\ truth'.identity = truth.identity /\ truth'.catalog = catalog
      BY <2>3 DEF GrowthTypes
    <2>11. report.measured \subseteq OfGrowth.Game
      BY <2>1 DEF Reports
    <2>12. GrowthTypes'
      BY <2>3, <2>6, <2>8, <2>10 DEF GrowthTypes
    <2>13. GrowthPast'
      BY <2>1, <2>3, <2>6, <2>8 DEF GrowthPast
    <2>14. GrowthBound'
      BY <2>1, <2>2, <2>3, <2>6, <2>9, <2>10, <2>11 DEF GrowthBound, Growth!At, Growth!In
    <2> QED BY <2>12, <2>13, <2>14
  <1>10. ASSUME NEW accepted \in BOOLEAN, Growth!DeliveryFails(accepted) PROVE GrowthInv'
    <2>1. ~collector.saved /\ verdict = "none"
      BY <1>10 DEF Growth!DeliveryFails, Growth!At, GrowthBound
    <2>2. /\ collector' \in Reports /\ ~collector'.saved /\ collector'.pc = "stamp"
          /\ collector'.counts = collector.counts
      BY <1>10, <2>1 DEF Growth!DeliveryFails, Reports, GrowthTypes
    <2>3. /\ identity' \in [OfGrowth.Game -> Growth!Receipts] /\ counted' \in [OfGrowth.Game -> 0..OfGrowth.MaxHour]
          /\ \A g \in OfGrowth.Game : counted'[g] <= hour
      <3>1. \/ identity' = Growth!MergedIdentity /\ counted' = Growth!MergedCounts
            \/ UNCHANGED <<identity, counted>>
        BY <1>10 DEF Growth!DeliveryFails
      <3> QED BY <3>1, MergedType, MergedPast DEF GrowthTypes, GrowthPast
    <2>4. shown' \in [OfGrowth.Game -> 0..OfGrowth.MaxHour] /\ \A g \in OfGrowth.Game : shown'[g] <= hour
      <3>1. collector.counts \in [OfGrowth.Game -> 0..OfGrowth.MaxHour] /\ shown \in [OfGrowth.Game -> 0..OfGrowth.MaxHour]
        BY DEF GrowthTypes, Reports
      <3>2. \/ shown' = [g \in OfGrowth.Game |-> IF g \in collector.measured /\ collector.counts[g] > shown[g]
                                                        THEN collector.counts[g] ELSE shown[g]]
            \/ shown' = shown
        BY <1>10 DEF Growth!DeliveryFails
      <3> QED BY <3>1, <3>2 DEF GrowthPast
    <2>5. UNCHANGED <<truth, verdict, catalog, hour, edits>> /\ upsets' \in 0..OfGrowth.MaxUpset
      BY <1>10 DEF Growth!DeliveryFails, Growth!World, Growth!Upset, GrowthTypes,
         Growth!GrowthAssumption
    <2> QED BY <2>1, <2>2, <2>3, <2>4, <2>5 DEF GrowthTypes, GrowthPast, GrowthBound, Growth!At
  <1>11. CASE Growth!Stamp
    BY <1>11, NoCollectorType, <1>a
       DEF Growth!Stamp, Growth!World, GrowthTypes, GrowthPast, GrowthBound, Growth!At, Growth!In
  <1>12. CASE Growth!Die
    <2>1. upsets' \in 0..OfGrowth.MaxUpset
      BY <1>12 DEF Growth!Die, Growth!Upset, GrowthTypes, Growth!GrowthAssumption
    <2> QED BY <1>12, <2>1, NoCollectorType, <1>a
            DEF Growth!Die, Growth!World, GrowthTypes, GrowthPast, GrowthBound, Growth!At, Growth!In
  <1>13. ASSUME NEW g \in OfGrowth.Game, NEW row \in {"out", "plain", "grouped"}, Growth!Recatalog(g, row)
         PROVE GrowthInv'
    <2>1. catalog' \in [OfGrowth.Game -> GrowthRows] /\ edits' \in 0..OfGrowth.MaxEdit
      BY <1>13 DEF Growth!Recatalog, Growth!Edit, GrowthTypes, GrowthRows, Growth!GrowthAssumption
    <2> QED BY <1>13, <2>1 DEF Growth!Recatalog, GrowthTypes, GrowthPast, GrowthBound, Growth!At,
               Growth!In
  <1>14. ASSUME NEW g \in OfGrowth.Game, NEW state \in {"missing", "resolved"}, Growth!ResolveElsewhere(g, state)
         PROVE GrowthInv'
    <2> DEFINE receipt == [state |-> state, at |-> hour,
                           retry |-> IF state = "missing" THEN hour + OfGrowth.Validity ELSE 0]
    <2>1. receipt \in Growth!Receipts
      BY <1>a DEF Growth!Receipts, Growth!GrowthAssumption, GrowthTypes
    <2> HIDE DEF receipt
    <2>2. identity' = [identity EXCEPT ![g] = receipt]
      BY <1>14 DEF Growth!ResolveElsewhere, receipt
    <2>3. identity' \in [OfGrowth.Game -> Growth!Receipts] /\ edits' \in 0..OfGrowth.MaxEdit
      BY <1>14, <2>1, <2>2 DEF Growth!ResolveElsewhere, Growth!Edit, GrowthTypes,
         Growth!GrowthAssumption
    <2> QED BY <1>14, <2>3 DEF Growth!ResolveElsewhere, GrowthTypes, GrowthPast, GrowthBound,
               Growth!At, Growth!In
  <1>15. CASE Growth!NextHour
    <2>1. hour' \in 1..OfGrowth.MaxHour /\ hour <= hour'
      BY <1>15, <1>a DEF Growth!NextHour, GrowthTypes
    <2>2. \A g \in OfGrowth.Game : counted[g] <= hour' /\ shown[g] <= hour' /\ collector.counts[g] <= hour'
      <3>1. /\ counted \in [OfGrowth.Game -> 0..OfGrowth.MaxHour] /\ shown \in [OfGrowth.Game -> 0..OfGrowth.MaxHour]
            /\ collector.counts \in [OfGrowth.Game -> 0..OfGrowth.MaxHour]
        BY DEF GrowthTypes, Reports
      <3>2. hour' \in Nat
        BY <2>1, <1>a
      <3> QED BY <2>1, <1>a, <3>1, <3>2 DEF GrowthPast
    <2> QED BY <1>15, <2>1, <2>2 DEF Growth!NextHour, GrowthTypes, GrowthPast, GrowthBound,
               Growth!At, Growth!In
  <1> QED BY <1>1, <1>2, <1>3, <1>4, <1>5, <1>6, <1>7, <1>8, <1>9, <1>10, <1>11, <1>12,
             <1>13, <1>14, <1>15 DEF Growth!Next
--------------------------------------------------------------------------------
LEMMA GrowthCovers == GrowthInv /\ [Growth!Next]_(Growth!growth) => Growth!CoversTheDay
  <1> USE GrowthGiven
  <1> SUFFICES ASSUME GrowthInv, [Growth!Next]_(Growth!growth),
                      Growth!At("stamp"), verdict' = "complete",
                      NEW g \in Growth!In(truth.catalog)
               PROVE  \/ Growth!Today(shown[g])
                      \/ Growth!Absent(truth.identity[g]) /\ truth.catalog[g] # "grouped"
    BY DEF Growth!CoversTheDay
  <1>1. verdict = "none"
    BY DEF GrowthInv, GrowthBound, Growth!At
  <1>2. Growth!Stamp
    BY <1>1 DEF Growth!Next, Growth!growth, Growth!Collect, Growth!Resolve, Growth!StartRows,
       Growth!Row, Growth!Finish, Growth!Again,
           Growth!DeliverCheckpoint, Growth!Publish, Growth!DeliveryFails, Growth!Die, Growth!Recatalog, Growth!ResolveElsewhere,
           Growth!NextHour, Growth!World, Growth!At
  <1>3. collector.saved /\ Growth!Complete(collector)
    BY <1>2 DEF Growth!Stamp
  <1>4. /\ collector.receipts = truth.identity /\ collector.public = Growth!In(truth.catalog)
        /\ collector.grouped = {h \in Growth!In(truth.catalog) : truth.catalog[h] = "grouped"}
        /\ \A h \in collector.measured : collector.counts[h] <= shown[h]
    BY <1>3 DEF GrowthInv, GrowthBound
  <1>5. g \in collector.measured \cup collector.absent
    BY <1>3, <1>4 DEF Growth!Complete, Growth!Covered
  <1>6. CASE g \in collector.absent
    BY <1>3, <1>4, <1>6 DEF Growth!Complete
  <1>7. CASE g \in collector.measured
    <2>1. Growth!Today(collector.counts[g]) /\ collector.counts[g] <= shown[g]
      BY <1>3, <1>4, <1>7 DEF Growth!Complete, Growth!Covered
    <2>2. g \in OfGrowth.Game /\ shown[g] <= hour
      BY DEF Growth!In, GrowthInv, GrowthPast
    <2>3. /\ collector.counts[g] \in Nat /\ shown[g] \in Nat /\ hour \in Nat
          /\ OfGrowth.DayLength \in Nat \ {0}
      <3>1. collector.counts[g] \in 0..OfGrowth.MaxHour /\ shown[g] \in 0..OfGrowth.MaxHour
        BY <2>2 DEF GrowthInv, GrowthTypes, Reports
      <3> QED BY <3>1 DEF GrowthInv, GrowthTypes, Growth!GrowthAssumption
    <2>4. Growth!DayOf(shown[g]) = Growth!DayOf(hour)
      BY <2>1, <2>2, <2>3, DaysAreOrdered DEF Growth!Today, Growth!DayOf
    <2> QED BY <2>1, <2>3, <2>4 DEF Growth!Today
  <1> QED BY <1>5, <1>6, <1>7

LEMMA GrowthInvAlways == Growth!Spec => []GrowthInv
  BY GrowthStarts, GrowthKeeps, PTL DEF Growth!Spec

THEOREM GrowthTypeCorrect == Growth!Spec => []Growth!TypeOK
  <1>1. GrowthInv => Growth!TypeOK
    BY DEF GrowthInv, GrowthTypes, Growth!TypeOK, Reports, GrowthRows
  <1> QED BY <1>1, GrowthInvAlways, PTL

THEOREM CompleteAlways == Growth!Spec => Growth!CompleteIsCovered
  BY GrowthCovers, GrowthInvAlways, PTL DEF Growth!Spec, Growth!CompleteIsCovered

--------------------------------------------------------------------------------
(* FollowerCheckpoint *)

LEMMA FollowersGiven == Followers!FollowerAssumption
  BY JobsAssumption

Collecting ==
  [pc : {"idle", "loop", "read", "write", "done", "failed"},
   cache : [OfFollowers.App -> 0..OfFollowers.MaxClock], dirty : Nat, todo : SUBSET OfFollowers.App, budget : Int, again : Int,
   started : Int, frozen : [OfFollowers.App -> 0..OfFollowers.MaxClock], read : [OfFollowers.App -> 0..OfFollowers.MaxClock],
   stale : BOOLEAN, tries : Nat, next : {"loop", "done"}]

FollowerTypes ==
  /\ remote \in [OfFollowers.App -> 0..OfFollowers.MaxClock] /\ primary \in BOOLEAN
  /\ collectors \in [OfFollowers.Collector -> Collecting]
  /\ observed \in [OfFollowers.Collector -> [OfFollowers.App -> 0..OfFollowers.MaxClock]]
  /\ clock \in 1..OfFollowers.MaxClock /\ trouble \in 0..OfFollowers.MaxTrouble

(* What is dirty, and the attempts of a write, are bounded. *)
WithinBounds(state) ==
  /\ state.dirty + Cardinality(state.todo) <= Cardinality(OfFollowers.App)
  /\ state.tries <= OfFollowers.Attempts

(* What a collector observed is in its records, and they are what it writes. *)
Recorded(state, seen) ==
  /\ state.pc = "idle" => seen = Followers!Nothing
  /\ \A a \in OfFollowers.App : seen[a] <= state.cache[a]
  /\ state.pc \in {"read", "write"} => state.frozen = state.cache

(* A write that is accepted has read the checkpoint as it is. *)
AgreesWith(state, seen, saved) ==
  /\ state.pc = "write" /\ ~state.stale => state.read = saved
  /\ state.pc # "idle" /\ state.dirty = 0 => \A a \in OfFollowers.App : seen[a] <= saved[a]

FollowerInv ==
  /\ FollowerTypes
  /\ \A c \in OfFollowers.Collector :
       /\ WithinBounds(collectors[c])
       /\ Recorded(collectors[c], observed[c])
       /\ AgreesWith(collectors[c], observed[c], remote)
--------------------------------------------------------------------------------
(* The first of the games to do is one of them. *)
LEMMA FirstIsToDo ==
  ASSUME NEW T \in SUBSET Nat, T # {}
  PROVE  Followers!Min(T) \in T
  <1> DEFINE Below == OpToRel(<, Nat)
  <1>1. IsWellFoundedOn(Below, Nat)
    BY NatLessThanWellFounded, Zenon
  <1> HIDE DEF Below
  <1>2. \E x \in T : \A y \in T : ~(<<y, x>> \in Below)
    BY <1>1, WFMin, Zenon
  <1>3. \A x, y \in T : ~(<<y, x>> \in Below) => x <= y
    <2> SUFFICES ASSUME NEW x \in T, NEW y \in T, ~(<<y, x>> \in Below) PROVE x <= y
      OBVIOUS
    <2>1. x \in Nat /\ y \in Nat
      OBVIOUS
    <2>2. ~(y < x)
      BY <2>1 DEF Below, OpToRel
    <2> QED BY <2>1, <2>2
  <1>4. \E x \in T : \A y \in T : x <= y
    BY <1>2, <1>3
  <1> QED BY <1>4 DEF Followers!Min

(* The counts of the instance are those of the library. *)
LEMMA CountsAgree ==
  /\ \A S : Followers!IsFiniteSet(S) = IsFiniteSet(S)
  /\ \A S : Followers!Cardinality(S) = Cardinality(S)
  <1>1. \A S : Followers!IsFiniteSet(S) = IsFiniteSet(S)
    BY Zenon DEF Followers!IsFiniteSet, IsFiniteSet
  <1>2. \A S : Followers!Cardinality(S) = Cardinality(S)
    BY Zenon DEF Followers!Cardinality, Cardinality
  <1> QED BY <1>1, <1>2

LEMMA Counting ==
  /\ Cardinality(OfFollowers.App) \in Nat
  /\ \A T \in SUBSET OfFollowers.App : /\ Cardinality(T) \in Nat /\ Cardinality(T) <= Cardinality(OfFollowers.App)
                                       /\ \A x \in T : Cardinality(T \ {x}) = Cardinality(T) - 1
                                       /\ \A x : Cardinality(T \ {x}) <= Cardinality(T)
  <1>1. IsFiniteSet(OfFollowers.App)
    BY FollowersGiven, CountsAgree DEF Followers!FollowerAssumption
  <1>2. ASSUME NEW T \in SUBSET OfFollowers.App
        PROVE  IsFiniteSet(T) /\ Cardinality(T) \in Nat /\ Cardinality(T) <= Cardinality(OfFollowers.App)
    BY <1>1, FS_Subset, FS_CardinalityType
  <1>3. ASSUME NEW T \in SUBSET OfFollowers.App, NEW x
        PROVE  Cardinality(T \ {x}) = IF x \in T THEN Cardinality(T) - 1 ELSE Cardinality(T)
    BY <1>2, FS_RemoveElement
  <1>4. Cardinality(OfFollowers.App) \in Nat
    BY <1>1, FS_CardinalityType
  <1>5. ASSUME NEW T \in SUBSET OfFollowers.App, NEW x PROVE Cardinality(T \ {x}) <= Cardinality(T)
    BY <1>2, <1>3
  <1> QED BY <1>2, <1>3, <1>4, <1>5

LEMMA NothingType == Followers!Nothing \in [OfFollowers.App -> 0..OfFollowers.MaxClock] /\ \A a \in OfFollowers.App : Followers!Nothing[a] = 0
  BY FollowersGiven DEF Followers!Nothing, Followers!FollowerAssumption

LEMMA NoneCollecting ==
  /\ Followers!NoCollector \in Collecting /\ WithinBounds(Followers!NoCollector)
  /\ Recorded(Followers!NoCollector, Followers!Nothing)
  /\ \A saved \in [OfFollowers.App -> 0..OfFollowers.MaxClock] : AgreesWith(Followers!NoCollector, Followers!Nothing, saved)
  <1>1. Cardinality({}) = 0
    BY FS_EmptySet
  <1>2. OfFollowers.Attempts \in Nat /\ Cardinality(OfFollowers.App) \in Nat
    BY FollowersGiven, Counting DEF Followers!FollowerAssumption
  <1> QED BY NothingType, <1>1, <1>2
          DEF Followers!NoCollector, Collecting, WithinBounds, Recorded, AgreesWith

(* The newest of two records is at least each of them. *)
LEMMA NewestCovers ==
  ASSUME NEW x \in [OfFollowers.App -> 0..OfFollowers.MaxClock], NEW y \in [OfFollowers.App -> 0..OfFollowers.MaxClock]
  PROVE  /\ Followers!Newest(x, y) \in [OfFollowers.App -> 0..OfFollowers.MaxClock]
         /\ \A a \in OfFollowers.App : x[a] <= Followers!Newest(x, y)[a] /\ y[a] <= Followers!Newest(x, y)[a]
  <1>1. 0..OfFollowers.MaxClock \subseteq Int
    BY FollowersGiven DEF Followers!FollowerAssumption
  <1>2. \A a \in OfFollowers.App : x[a] \in Int /\ y[a] \in Int
    BY <1>1
  <1> QED BY <1>2 DEF Followers!Newest

(* A step of one collector that leaves the checkpoint alone. *)
LEMMA OneMoves ==
  ASSUME FollowerInv, NEW c \in OfFollowers.Collector, NEW state, NEW seen,
         collectors' = [collectors EXCEPT ![c] = state],
         observed' = [observed EXCEPT ![c] = seen],
         UNCHANGED <<remote, primary>>, clock' \in 1..OfFollowers.MaxClock, trouble' \in 0..OfFollowers.MaxTrouble,
         state \in Collecting, seen \in [OfFollowers.App -> 0..OfFollowers.MaxClock],
         WithinBounds(state), Recorded(state, seen), AgreesWith(state, seen, remote)
  PROVE  FollowerInv'
  BY DEF FollowerInv, FollowerTypes
--------------------------------------------------------------------------------
(* What the helpers make of a collector at work. *)
Sound(state, seen) ==
  /\ state \in Collecting /\ WithinBounds(state) /\ Recorded(state, seen)
  /\ AgreesWith(state, seen, remote)

LEMMA FreezingSound ==
  ASSUME FollowerInv, NEW state, NEW seen, Sound(state, seen), state.pc = "loop",
         NEW next \in {"loop", "done"}
  PROVE  Sound(Followers!Freezing(state, next), seen)
  <1>1. 1 <= OfFollowers.Attempts /\ 1 \in Nat
    BY FollowersGiven DEF Followers!FollowerAssumption
  <1> QED BY <1>1 DEF Sound, Followers!Freezing, Collecting, WithinBounds, Recorded, AgreesWith

LEMMA UnsavedSound ==
  ASSUME FollowerInv, NEW state, NEW seen, Sound(state, seen), state.pc # "idle"
  PROVE  Sound(Followers!Unsaved(state), seen)
  <1>1. 0 <= OfFollowers.Attempts
    BY FollowersGiven DEF Followers!FollowerAssumption
  <1> QED BY <1>1, NothingType
          DEF Sound, Followers!Unsaved, Followers!Settled, Collecting, WithinBounds, Recorded, AgreesWith
--------------------------------------------------------------------------------
LEMMA FollowersStart == Followers!Init => FollowerInv
  <1> SUFFICES ASSUME Followers!Init PROVE FollowerInv
    OBVIOUS
  <1>1. FollowerTypes
    BY FollowersGiven, NothingType, NoneCollecting DEF Followers!Init, FollowerTypes,
       Followers!FollowerAssumption
  <1> QED BY <1>1, NoneCollecting, NothingType DEF Followers!Init, FollowerInv

LEMMA FollowersKeep == FollowerInv /\ [Followers!Next]_(Followers!followers) => FollowerInv'
  <1> SUFFICES ASSUME FollowerInv, [Followers!Next]_(Followers!followers) PROVE FollowerInv'
    OBVIOUS
  <1>a. /\ clock \in 1..OfFollowers.MaxClock /\ trouble \in 0..OfFollowers.MaxTrouble /\ OfFollowers.MaxClock \in Nat
        /\ OfFollowers.MaxTrouble \in Nat
    BY FollowersGiven DEF FollowerInv, FollowerTypes, Followers!FollowerAssumption
  <1>t. Followers!Trouble => trouble' \in 0..OfFollowers.MaxTrouble
    BY <1>a DEF Followers!Trouble
  <1>s. ASSUME NEW c \in OfFollowers.Collector PROVE Sound(collectors[c], observed[c])
    BY DEF FollowerInv, FollowerTypes, Sound
  <1>o. ASSUME NEW c \in OfFollowers.Collector, UNCHANGED observed
        PROVE  /\ observed' = [observed EXCEPT ![c] = observed[c]]
               /\ observed[c] \in [OfFollowers.App -> 0..OfFollowers.MaxClock]
    BY <1>o DEF FollowerInv, FollowerTypes
  <1>1. CASE UNCHANGED Followers!followers
    BY <1>1 DEF Followers!followers, FollowerInv, FollowerTypes
  <1>2. CASE Followers!Next
    <2>1. PICK c \in OfFollowers.Collector :
            \/ \E games \in SUBSET OfFollowers.App, budget \in 1..Cardinality(OfFollowers.App) : Followers!Start(c, games, budget)
            \/ Followers!Reuse(c) \/ Followers!Fetch(c) \/ Followers!FetchRefused(c) \/ Followers!FetchFails(c) \/ Followers!Finish(c)
            \/ Followers!Read(c) \/ (\E answered \in BOOLEAN : Followers!Write(c, answered)) \/ Followers!Conflict(c)
            \/ Followers!Exit(c)
      BY <1>2, CountsAgree DEF Followers!Next
    <2> DEFINE state == collectors[c]
               seen == observed[c]
    <2>s. /\ Sound(state, seen) /\ seen \in [OfFollowers.App -> 0..OfFollowers.MaxClock] /\ state \in Collecting
          /\ remote \in [OfFollowers.App -> 0..OfFollowers.MaxClock]
      BY <1>s DEF FollowerInv, FollowerTypes, Sound
    <2>2. ASSUME NEW games \in SUBSET OfFollowers.App, NEW budget \in 1..Cardinality(OfFollowers.App),
                 Followers!Start(c, games, budget)
          PROVE  FollowerInv'
      <3>1. seen = Followers!Nothing
        BY <2>2, <2>s DEF Followers!Start, Followers!At, Sound, Recorded
      <3>2. \E new \in Collecting :
              /\ collectors' = [collectors EXCEPT ![c] = new]
              /\ new.dirty = 0 /\ new.todo = games /\ new.tries = 0 /\ new.pc = "loop"
              /\ new.cache \in {remote, Followers!Nothing}
        <4> DEFINE read == [Followers!NoCollector EXCEPT !.pc = "loop", !.cache = remote, !.todo = games,
                              !.budget = budget, !.started = clock]
                   unread == [Followers!NoCollector EXCEPT !.pc = "loop", !.todo = games,
                                !.budget = budget, !.started = clock]
        <4>1. \/ collectors' = [collectors EXCEPT ![c] = read]
              \/ collectors' = [collectors EXCEPT ![c] = unread]
          BY <2>2 DEF Followers!Start, Followers!Now
        <4>2. budget \in Int /\ clock \in Int /\ games \in SUBSET OfFollowers.App
          BY <1>a, Counting
        <4>3. /\ read \in Collecting /\ read.dirty = 0 /\ read.todo = games /\ read.tries = 0
              /\ read.pc = "loop" /\ read.cache = remote
          BY <4>2, <2>s, NoneCollecting DEF Followers!NoCollector, Collecting
        <4>4. /\ unread \in Collecting /\ unread.dirty = 0 /\ unread.todo = games
              /\ unread.tries = 0 /\ unread.pc = "loop" /\ unread.cache = Followers!Nothing
          BY <4>2, NoneCollecting DEF Followers!NoCollector, Collecting
        <4> HIDE DEF read, unread
        <4> QED BY <4>1, <4>3, <4>4
      <3>3. PICK new \in Collecting :
              /\ collectors' = [collectors EXCEPT ![c] = new]
              /\ new.dirty = 0 /\ new.todo = games /\ new.tries = 0 /\ new.pc = "loop"
              /\ new.cache \in {remote, Followers!Nothing}
        BY <3>2
      <3>5. Sound(new, Followers!Nothing)
        <4>2. \A a \in OfFollowers.App : Followers!Nothing[a] <= new.cache[a] /\ Followers!Nothing[a] <= remote[a]
          BY <3>3, <2>s, NothingType
        <4>3. Cardinality(games) <= Cardinality(OfFollowers.App) /\ Cardinality(games) \in Nat
          BY Counting
        <4>4. 0 <= OfFollowers.Attempts
          BY FollowersGiven DEF Followers!FollowerAssumption
        <4> QED BY <3>3, <4>2, <4>3, <4>4 DEF Sound, WithinBounds, Recorded, AgreesWith
      <3>6. UNCHANGED <<primary, remote, clock, observed>> /\ trouble' \in 0..OfFollowers.MaxTrouble
        BY <2>2, <1>t, <1>a DEF Followers!Start
      <3> QED BY <3>1, <3>3, <3>5, <3>6, <1>a, <1>o, <2>s, OneMoves DEF Sound
    <2>3. CASE Followers!Reuse(c)
      <3> DEFINE new == [state EXCEPT !.todo = @ \ {Followers!First(c)}]
      <3>1. Sound(new, seen)
        <4>1. /\ new \in Collecting /\ new.todo = state.todo \ {Followers!First(c)}
              /\ new.dirty = state.dirty /\ new.tries = state.tries /\ new.pc = state.pc
              /\ new.cache = state.cache /\ new.frozen = state.frozen /\ new.read = state.read
              /\ new.stale = state.stale
          BY <2>s DEF Collecting
        <4>2. /\ Cardinality(new.todo) <= Cardinality(state.todo) /\ Cardinality(new.todo) \in Nat
              /\ Cardinality(state.todo) \in Nat /\ Cardinality(OfFollowers.App) \in Nat /\ state.dirty \in Nat
          BY <2>s, <4>1, Counting DEF Collecting
        <4> HIDE DEF new
        <4> QED BY <2>s, <4>1, <4>2 DEF Sound, WithinBounds, Recorded, AgreesWith
      <3>2. collectors' = [collectors EXCEPT ![c] = new]
            /\ UNCHANGED <<remote, observed, primary, clock, trouble>>
        BY <2>3 DEF Followers!Reuse, Followers!Now, Followers!Quiet
      <3> HIDE DEF new
      <3> QED BY <3>1, <3>2, <1>a, <1>o, <2>s, OneMoves DEF Sound
    <2>4. CASE Followers!Fetch(c)
      <3> DEFINE a == Followers!First(c)
                 new == [state EXCEPT !.cache[a] = clock', !.dirty = @ + 1, !.again = 0,
                                      !.todo = @ \ {a}, !.budget = @ - 1]
                 now == [seen EXCEPT ![a] = clock']
                 next == IF new.dirty >= OfFollowers.Every THEN Followers!Freezing(new, "loop") ELSE new
      <3>1. /\ state.pc = "loop" /\ clock' \in 1..OfFollowers.MaxClock /\ clock' \in 0..OfFollowers.MaxClock
            /\ state.todo # {}
        BY <2>4, <1>a DEF Followers!Fetch, Followers!Fetches, Followers!At
      <3>2. a \in state.todo /\ state.todo \in SUBSET OfFollowers.App
        <4>1. state.todo \in SUBSET OfFollowers.App /\ state.todo \in SUBSET Nat
          BY <2>s, FollowersGiven DEF Collecting, Followers!FollowerAssumption
        <4> QED BY <3>1, <4>1, FirstIsToDo DEF Followers!First
      <3>3. now \in [OfFollowers.App -> 0..OfFollowers.MaxClock]
        BY <2>s, <3>1
      <3>4. /\ new \in Collecting /\ new.todo = state.todo \ {a}
            /\ new.dirty = state.dirty + 1 /\ new.tries = state.tries /\ new.pc = "loop"
            /\ new.cache = [state.cache EXCEPT ![a] = clock'] /\ new.dirty # 0
        <4>1. [state.cache EXCEPT ![a] = clock'] \in [OfFollowers.App -> 0..OfFollowers.MaxClock]
          BY <2>s, <3>1 DEF Collecting
        <4>2. new = [state EXCEPT !.cache = [state.cache EXCEPT ![a] = clock'],
                                 !.dirty = @ + 1, !.again = 0, !.todo = @ \ {a}, !.budget = @ - 1]
          BY <2>s DEF Collecting
        <4> HIDE DEF new
        <4>3. /\ state.dirty + 1 \in Nat /\ state.budget - 1 \in Int /\ 0 \in Int
              /\ state.todo \ {a} \in SUBSET OfFollowers.App
          BY <2>s DEF Collecting
        <4> HIDE DEF a
        <4>4. new \in Collecting
          BY <4>1, <4>2, <4>3, <2>s DEF Collecting
        <4> QED BY <4>2, <4>3, <2>s, <3>1, <4>4 DEF Collecting
      <3> HIDE DEF new, a
      <3>5. Sound(new, now)
        <4>1. /\ Cardinality(new.todo) = Cardinality(state.todo) - 1
              /\ Cardinality(state.todo) \in Nat /\ Cardinality(OfFollowers.App) \in Nat /\ state.dirty \in Nat
          BY <2>s, <3>2, <3>4, Counting DEF Collecting
        <4>2. WithinBounds(new)
          BY <2>s, <3>4, <4>1 DEF Sound, WithinBounds
        <4>3. \A b \in OfFollowers.App : now[b] <= new.cache[b]
          <5>1. state.cache \in [OfFollowers.App -> 0..OfFollowers.MaxClock] /\ clock' <= clock'
            BY <2>s, <3>1 DEF Collecting
          <5> QED BY <2>s, <3>4, <5>1 DEF Sound, Recorded
        <4> QED BY <3>4, <4>2, <4>3 DEF Sound, Recorded, AgreesWith
      <3>6. Sound(next, now)
        BY <3>4, <3>5, FreezingSound
      <3> HIDE DEF next
      <3>7. /\ collectors' = [collectors EXCEPT ![c] = next]
            /\ observed' = [observed EXCEPT ![c] = now]
            /\ UNCHANGED <<remote, primary, trouble>>
        BY <2>4 DEF Followers!Fetch, Followers!Now, next, new, a
      <3> HIDE DEF now
      <3> QED BY <3>1, <3>3, <3>6, <3>7, <1>a, OneMoves DEF Sound
    <2>5. CASE Followers!FetchRefused(c)
      <3> DEFINE left == IF state.again + 1 = OfFollowers.Attempts THEN state.todo \ {Followers!First(c)}
                         ELSE state.todo
                 again == (state.again + 1) % OfFollowers.Attempts
                 new == [state EXCEPT !.again = again, !.todo = left]
      <3>1. Sound(new, seen) /\ new.pc = "loop"
        <4>0. again \in Int
          BY <2>s, FollowersGiven DEF Collecting, Followers!FollowerAssumption
        <4>9. left \in {state.todo \ {Followers!First(c)}, state.todo} /\ left \in SUBSET OfFollowers.App
          BY <2>s DEF Collecting
        <4>3. state.pc = "loop"
          BY <2>5 DEF Followers!FetchRefused, Followers!Fetches, Followers!At
        <4> HIDE DEF left, again
        <4>1. /\ new \in Collecting /\ new.todo = left
              /\ new.dirty = state.dirty /\ new.tries = state.tries /\ new.pc = "loop"
              /\ new.cache = state.cache
          BY <2>s, <4>0, <4>3, <4>9 DEF Collecting
        <4> HIDE DEF new
        <4>2. /\ Cardinality(new.todo) <= Cardinality(state.todo) /\ Cardinality(new.todo) \in Nat
              /\ Cardinality(state.todo) \in Nat /\ Cardinality(OfFollowers.App) \in Nat /\ state.dirty \in Nat
          <5>1. \A T \in SUBSET OfFollowers.App : /\ Cardinality(T \ {Followers!First(c)}) <= Cardinality(T)
                                                  /\ Cardinality(T) \in Nat
            BY Counting
          <5>2. state.todo \in SUBSET OfFollowers.App /\ state.dirty \in Nat /\ Cardinality(OfFollowers.App) \in Nat
            BY <2>s, Counting DEF Collecting
          <5>3. new.todo \in SUBSET OfFollowers.App /\ new.todo \in {state.todo \ {Followers!First(c)}, state.todo}
            BY <4>1, <4>9
          <5>4. CASE new.todo = state.todo
            <6>1. Cardinality(new.todo) = Cardinality(state.todo)
              BY <5>4, Zenon
            <6>2. Cardinality(state.todo) \in Nat
              BY <5>1, <5>2
            <6> QED BY <5>2, <6>1, <6>2
          <5>5. CASE new.todo = state.todo \ {Followers!First(c)}
            <6>1. /\ Cardinality(state.todo \ {Followers!First(c)}) <= Cardinality(state.todo)
                  /\ Cardinality(state.todo) \in Nat
              BY <5>1, <5>2
            <6>2. Cardinality(new.todo) = Cardinality(state.todo \ {Followers!First(c)})
              BY <5>5, Zenon
            <6>3. Cardinality(new.todo) \in Nat
              BY <5>1, <5>3
            <6> QED BY <5>2, <6>1, <6>2, <6>3
          <5> QED BY <5>3, <5>4, <5>5
        <4> QED BY <2>s, <4>1, <4>2, <4>3 DEF Sound, WithinBounds, Recorded, AgreesWith
      <3>2. /\ collectors' = [collectors EXCEPT ![c] = Followers!Freezing(new, "loop")]
            /\ clock' \in 1..OfFollowers.MaxClock
            /\ UNCHANGED <<remote, observed, primary, trouble>>
        BY <2>5, <1>a DEF Followers!FetchRefused, Followers!Fetches, Followers!Now
      <3> HIDE DEF new
      <3>3. Sound(Followers!Freezing(new, "loop"), seen)
        BY <3>1, FreezingSound
      <3> QED BY <3>2, <3>3, <1>a, <1>o, <2>s, OneMoves DEF Sound
    <2>6. CASE Followers!FetchFails(c)
      <3> DEFINE new == [state EXCEPT !.todo = @ \ {Followers!First(c)}, !.again = 0]
      <3>1. Sound(new, seen)
        <4>1. /\ new \in Collecting /\ new.todo = state.todo \ {Followers!First(c)}
              /\ new.dirty = state.dirty /\ new.tries = state.tries /\ new.pc = state.pc
              /\ new.cache = state.cache /\ new.frozen = state.frozen /\ new.read = state.read
              /\ new.stale = state.stale
          <5>1. state.todo \ {Followers!First(c)} \in SUBSET OfFollowers.App /\ 0 \in Int
            BY <2>s DEF Collecting
          <5> QED BY <2>s, <5>1 DEF Collecting
        <4>2. /\ Cardinality(new.todo) <= Cardinality(state.todo) /\ Cardinality(new.todo) \in Nat
              /\ Cardinality(state.todo) \in Nat /\ Cardinality(OfFollowers.App) \in Nat /\ state.dirty \in Nat
          BY <2>s, <4>1, Counting DEF Collecting
        <4> HIDE DEF new
        <4> QED BY <2>s, <4>1, <4>2 DEF Sound, WithinBounds, Recorded, AgreesWith
      <3>2. /\ collectors' = [collectors EXCEPT ![c] = new] /\ trouble' \in 0..OfFollowers.MaxTrouble
            /\ UNCHANGED <<remote, observed, primary, clock>>
        BY <2>6, <1>t DEF Followers!FetchFails, Followers!Now
      <3> HIDE DEF new
      <3> QED BY <3>1, <3>2, <1>a, <1>o, <2>s, OneMoves DEF Sound
    <2>7. CASE Followers!Finish(c)
      <3>1. /\ collectors' = [collectors EXCEPT ![c] = Followers!Freezing(state, "done")]
            /\ state.pc = "loop"
            /\ UNCHANGED <<remote, observed, primary, clock, trouble>>
        BY <2>7 DEF Followers!Finish, Followers!Now, Followers!Quiet, Followers!At
      <3>2. Sound(Followers!Freezing(state, "done"), seen)
        BY <2>s, <3>1, FreezingSound
      <3> QED BY <3>1, <3>2, <1>a, <1>o, <2>s, OneMoves DEF Sound
    <2>8. CASE Followers!Read(c)
      <3> DEFINE new == [state EXCEPT !.pc = "write", !.read = remote, !.stale = FALSE]
      <3>1. Sound(new, seen) /\ Sound(Followers!Unsaved(state), seen)
        <4>1. state.pc = "read"
          BY <2>8 DEF Followers!Read, Followers!At
        <4>2. Sound(new, seen)
          BY <2>s, <4>1 DEF Sound, Collecting, WithinBounds, Recorded, AgreesWith
        <4> QED BY <2>s, <4>1, <4>2, UnsavedSound
      <3>2. /\ \/ collectors' = [collectors EXCEPT ![c] = new]
               \/ collectors' = [collectors EXCEPT ![c] = Followers!Unsaved(state)]
            /\ trouble' \in 0..OfFollowers.MaxTrouble
            /\ UNCHANGED <<remote, observed, primary, clock>>
        BY <2>8, <1>t, <1>a DEF Followers!Read, Followers!Now
      <3> HIDE DEF new
      <3> QED BY <3>1, <3>2, <1>a, <1>o, <2>s, OneMoves DEF Sound
    <2>9. ASSUME NEW answered \in BOOLEAN, Followers!Write(c, answered) PROVE FollowerInv'
      <3> DEFINE merged == Followers!Newest(state.read, state.frozen)
                 saved == [Followers!Settled(state) EXCEPT !.cache = merged, !.dirty = 0]
                 mine == IF answered THEN saved ELSE Followers!Unsaved(state)
      <3>1. state.pc = "write" /\ ~state.stale
        BY <2>9 DEF Followers!Write, Followers!At
      <3>2. state.read = remote /\ state.frozen = state.cache
        BY <2>s, <3>1 DEF Sound, Recorded, AgreesWith
      <3>3. /\ merged \in [OfFollowers.App -> 0..OfFollowers.MaxClock]
            /\ \A b \in OfFollowers.App : remote[b] <= merged[b] /\ state.cache[b] <= merged[b]
        BY <2>s, <3>2, NewestCovers DEF Collecting
      <3>4. \A b \in OfFollowers.App : seen[b] <= merged[b]
        <4>1. \A b \in OfFollowers.App : /\ seen[b] \in 0..OfFollowers.MaxClock /\ state.cache[b] \in 0..OfFollowers.MaxClock
                                         /\ merged[b] \in 0..OfFollowers.MaxClock
          BY <2>s, <3>3 DEF Collecting
        <4>2. \A b \in OfFollowers.App : seen[b] <= state.cache[b] /\ state.cache[b] <= merged[b]
          BY <2>s, <3>3 DEF Sound, Recorded
        <4> QED BY <4>1, <4>2
      <3>5. /\ remote' = merged
            /\ collectors' = [d \in OfFollowers.Collector |-> IF d = c THEN mine ELSE
                 [collectors[d] EXCEPT !.stale = collectors[d].pc = "write"]]
            /\ UNCHANGED <<primary, clock, observed>> /\ trouble' \in 0..OfFollowers.MaxTrouble
        BY <2>9, <1>t, <1>a DEF Followers!Write
      <3>6. /\ mine \in Collecting /\ WithinBounds(mine) /\ Recorded(mine, seen)
            /\ AgreesWith(mine, seen, merged)
        <4>1. 0 <= OfFollowers.Attempts
          BY FollowersGiven DEF Followers!FollowerAssumption
        <4>2. CASE answered
          <5> HIDE DEF merged
          <5>1. /\ saved \in Collecting /\ saved.cache = merged /\ saved.dirty = 0
                /\ saved.todo = state.todo /\ saved.tries = 0 /\ saved.pc = state.next
            BY <2>s, <3>3, NothingType DEF Followers!Settled, Collecting
          <5>2. /\ Cardinality(state.todo) <= Cardinality(OfFollowers.App) /\ Cardinality(state.todo) \in Nat
                /\ state.next \in {"loop", "done"}
            BY <2>s, Counting DEF Collecting
          <5> HIDE DEF saved
          <5> QED BY <4>1, <4>2, <5>1, <5>2, <3>4 DEF WithinBounds, Recorded, AgreesWith
        <4>3. CASE ~answered
          <5>1. Sound(Followers!Unsaved(state), seen)
            BY <2>s, <3>1, UnsavedSound
          <5>2. Followers!Unsaved(state).pc # "write"
            BY <2>s DEF Followers!Unsaved, Followers!Settled, Collecting
          <5>3. \A b \in OfFollowers.App : seen[b] <= merged[b]
            BY <3>4
          <5> HIDE DEF merged
          <5> QED BY <4>3, <5>1, <5>2, <5>3 DEF Sound, AgreesWith
        <4> QED BY <4>2, <4>3
      <3>7. ASSUME NEW d \in OfFollowers.Collector, d # c
            PROVE  LET other == [collectors[d] EXCEPT !.stale = collectors[d].pc = "write"]
                   IN /\ other \in Collecting /\ WithinBounds(other)
                      /\ Recorded(other, observed[d]) /\ AgreesWith(other, observed[d], merged)
        <4> DEFINE other == [collectors[d] EXCEPT !.stale = collectors[d].pc = "write"]
        <4>1. Sound(collectors[d], observed[d]) /\ observed[d] \in [OfFollowers.App -> 0..OfFollowers.MaxClock]
          BY <1>s DEF FollowerInv, FollowerTypes
        <4>2. /\ other \in Collecting /\ WithinBounds(other) /\ Recorded(other, observed[d])
              /\ other.stale = (collectors[d].pc = "write") /\ other.pc = collectors[d].pc
              /\ other.dirty = collectors[d].dirty
          BY <4>1 DEF Sound, Collecting, WithinBounds, Recorded
        <4> HIDE DEF other, merged
        <4>3. other.pc # "idle" /\ other.dirty = 0 => \A b \in OfFollowers.App : observed[d][b] <= merged[b]
          <5> SUFFICES ASSUME other.pc # "idle", other.dirty = 0, NEW b \in OfFollowers.App
                                 PROVE  observed[d][b] <= merged[b]
            OBVIOUS
          <5>1. observed[d][b] <= remote[b] /\ remote[b] <= merged[b]
            BY <3>3, <4>1, <4>2 DEF Sound, AgreesWith
          <5>2. observed[d][b] \in 0..OfFollowers.MaxClock /\ remote[b] \in 0..OfFollowers.MaxClock
                /\ merged[b] \in 0..OfFollowers.MaxClock
            BY <4>1, <2>s, <3>3
          <5> QED BY <5>1, <5>2
        <4>4. AgreesWith(other, observed[d], merged)
          BY <4>2, <4>3 DEF AgreesWith
        <4> QED BY <4>2, <4>4 DEF other
      <3> HIDE DEF merged, mine
      <3>8. collectors' \in [OfFollowers.Collector -> Collecting]
        BY <3>5, <3>6, <3>7
      <3>9. \A d \in OfFollowers.Collector : /\ WithinBounds(collectors'[d])
                                             /\ Recorded(collectors'[d], observed[d])
                                             /\ AgreesWith(collectors'[d], observed[d], remote')
        BY <3>5, <3>6, <3>7
      <3> QED BY <3>3, <3>5, <3>8, <3>9, <1>a DEF FollowerInv, FollowerTypes
    <2>10. CASE Followers!Conflict(c)
      <3> DEFINE more == state.tries + 1
                 new == [state EXCEPT !.pc = "read", !.tries = more, !.stale = FALSE,
                                      !.read = Followers!Nothing]
      <3>1. state.pc = "write"
        BY <2>10 DEF Followers!Conflict, Followers!At
      <3>2. Sound(Followers!Unsaved(state), seen)
        BY <2>s, <3>1, UnsavedSound
      <3>3. state.tries # OfFollowers.Attempts => Sound(new, seen)
        <4>1. state.tries # OfFollowers.Attempts => state.tries + 1 <= OfFollowers.Attempts
          BY <2>s, FollowersGiven DEF Sound, WithinBounds, Collecting, Followers!FollowerAssumption
        <4>3. more \in Nat
          BY <2>s DEF Collecting
        <4> HIDE DEF more
        <4>2. /\ new \in Collecting /\ new.tries = more /\ new.pc = "read"
              /\ new.dirty = state.dirty /\ new.todo = state.todo /\ new.cache = state.cache
              /\ new.frozen = state.frozen
          BY <2>s, <4>3, NothingType DEF Collecting
        <4> HIDE DEF new
        <4> QED BY <2>s, <3>1, <4>1, <4>2 DEF more, Sound, WithinBounds, Recorded, AgreesWith
      <3>4. /\ \/ collectors' = [collectors EXCEPT ![c] = Followers!Unsaved(state)]
               \/ state.tries # OfFollowers.Attempts /\ collectors' = [collectors EXCEPT ![c] = new]
            /\ UNCHANGED <<remote, observed, primary, clock, trouble>>
        BY <2>10 DEF Followers!Conflict, Followers!Now, Followers!Quiet
      <3> HIDE DEF new
      <3> QED BY <3>2, <3>3, <3>4, <1>a, <1>o, <2>s, OneMoves DEF Sound
    <2>11. CASE Followers!Exit(c)
      <3>1. /\ collectors' = [collectors EXCEPT ![c] = Followers!NoCollector]
            /\ observed' = [observed EXCEPT ![c] = Followers!Nothing]
            /\ UNCHANGED <<remote, primary, clock>> /\ trouble' \in 0..OfFollowers.MaxTrouble
        BY <2>11, <1>t, <1>a DEF Followers!Exit, Followers!Now
      <3> QED BY <3>1, <1>a, <2>s, NoneCollecting, NothingType, OneMoves
    <2> QED BY <2>1, <2>2, <2>3, <2>4, <2>5, <2>6, <2>7, <2>8, <2>9, <2>10, <2>11
  <1> QED BY <1>1, <1>2

LEMMA FollowerInvAlways == Followers!Spec => []FollowerInv
  BY FollowersStart, FollowersKeep, PTL DEF Followers!Spec

(* Types *)
THEOREM FollowerTypeCorrect == Followers!Spec => []Followers!TypeOK
  <1>1. FollowerInv => Followers!TypeOK
    <2> SUFFICES ASSUME FollowerInv, NEW c \in OfFollowers.Collector
                 PROVE  collectors[c].dirty \in 0..Cardinality(OfFollowers.App)
                        /\ collectors[c].tries \in 0..OfFollowers.Attempts
      BY CountsAgree DEF FollowerInv, FollowerTypes, Followers!TypeOK, Collecting
    <2>1. collectors[c] \in Collecting /\ WithinBounds(collectors[c])
      BY DEF FollowerInv, FollowerTypes
    <2>2. Cardinality(collectors[c].todo) \in Nat /\ Cardinality(OfFollowers.App) \in Nat
      BY <2>1, Counting DEF Collecting
    <2> QED BY <2>1, <2>2, FollowersGiven DEF Collecting, WithinBounds, Followers!FollowerAssumption
  <1> QED BY <1>1, FollowerInvAlways, PTL

THEOREM CheckpointAlways == Followers!Spec => []Followers!AcknowledgedIsSaved
  <1>1. FollowerInv => Followers!AcknowledgedIsSaved
    BY DEF FollowerInv, AgreesWith, Followers!AcknowledgedIsSaved
  <1> QED BY <1>1, FollowerInvAlways, PTL

--------------------------------------------------------------------------------
(* BackupRelease *)

LEMMA BackupGiven == Backup!BackupAssumption
  BY JobsAssumption

Heads == [OfBackup.Source -> 0..OfBackup.MaxGeneration]
Contents == 0..OfBackup.MaxExport
Exported == [heads : Heads, operations : {Backup!Committed(h) : h \in Heads}]
BackupFiles == [content : Contents, uploaded : BOOLEAN]
Bodies == [id : Contents, receipt : Contents, assets : [Backup!AssetName -> BackupFiles]]
Running ==
  [pc : {"idle", "exists", "heads", "metadata", "export", "find", "create", "asset", "upload",
         "confirm", "receipt"},
   day : Backup!Day, heads : Heads, operations : {0} \cup {Backup!Committed(h) : h \in Heads},
   content : Contents, release : Contents, at : 1..3, hurt : BOOLEAN]

BackupTypes ==
  /\ heads \in Heads /\ backupDay \in Backup!Day /\ exports \in Seq(Exported)
  /\ releases \in [Backup!Day -> Bodies] /\ proven \in [Backup!Day -> Contents] /\ backup \in Running
  /\ restorers \in [OfBackup.Restorer -> Contents] /\ output \in Contents
  /\ Len(exports) <= OfBackup.MaxExport

Made(content) == content \in 1..Len(exports)
UpTo(h, m) == \A s \in OfBackup.Source : h[s] <= m[s]

(* A run that has not exported yet has room to.  The heads that are exported have
   been read from every source; between them and the heads as they are, the
   operations were read. *)
ReadingOK ==
  /\ backup.pc \in {"exists", "heads", "metadata", "export"} => Len(exports) < OfBackup.MaxExport
  /\ backup.pc \in {"metadata", "export"} =>
       (\A s \in OfBackup.Source : backup.heads[s] > 0) /\ UpTo(backup.heads, heads)
  /\ backup.pc = "export" =>
       \E m \in Heads : backup.operations = Backup!Committed(m) /\ UpTo(backup.heads, m) /\ UpTo(m, heads)

(* What the run delivers was exported.  While it changes a release that has no
   receipt which is kept, and before it gives one: the files are whole. *)
DeliveryOK ==
  /\ backup.pc \in {"find", "create", "asset", "upload", "confirm", "receipt"} => Made(backup.content)
  /\ backup.pc \in {"upload", "receipt"} => proven[backup.day] = 0
  /\ backup.pc = "receipt" /\ ~backup.hurt => Backup!Whole(releases[backup.day], backup.content)

ExportsOK == \A c \in 1..Len(exports) : Backup!Coherent(c)
FilesOK ==
  /\ \A d \in Backup!Day, n \in Backup!AssetName :
       releases[d].assets[n].uploaded => Made(releases[d].assets[n].content)
  /\ \A r \in OfBackup.Restorer : restorers[r] # 0 => Made(restorers[r])
  /\ output # 0 => Made(output)
KeptOK ==
  \A d \in Backup!Day : proven[d] # 0 =>
    Made(proven[d]) /\ releases[d].receipt = proven[d] /\ Backup!Whole(releases[d], proven[d])

BackupInv == BackupTypes /\ ReadingOK /\ DeliveryOK /\ ExportsOK /\ FilesOK /\ KeptOK
--------------------------------------------------------------------------------
LEMMA ContentsAre ==
  /\ OfBackup.MaxExport \in Nat /\ OfBackup.MaxGeneration \in Nat
  /\ 0 \in Contents /\ Contents \subseteq Nat
  BY BackupGiven DEF Backup!BackupAssumption, Contents

LEMMA NoJobType == Backup!NoJob \in Running /\ Backup!NoJob.pc = "idle"
  <1>1. 1 \in Backup!Day
    BY BackupGiven DEF Backup!BackupAssumption, Backup!Day
  <1>2. 0 \in 0..OfBackup.MaxGeneration
    BY ContentsAre
  <1> QED BY <1>1, <1>2, ContentsAre DEF Backup!NoJob, Running, Heads

LEMMA NoReleaseType ==
  /\ Backup!NoFile \in BackupFiles /\ ~Backup!NoFile.uploaded
  /\ Backup!NoRelease \in Bodies /\ Backup!NoRelease.receipt = 0 /\ Backup!NoRelease.id = 0
  /\ \A n \in Backup!AssetName : Backup!NoRelease.assets[n] = Backup!NoFile
  BY ContentsAre DEF Backup!NoFile, BackupFiles, Backup!NoRelease, Bodies

LEMMA AssetIs == \A i \in 1..3 : Backup!Asset[i] \in Backup!AssetName
  BY DEF Backup!AssetName

LEMMA MadeType == ASSUME BackupTypes PROVE Len(exports) \in Nat
  BY LenProperties DEF BackupTypes

(* A step of the run that leaves what it works on alone. *)
LEMMA RunMoves ==
  ASSUME BackupInv, UNCHANGED <<heads, backupDay, exports, releases, proven, restorers, output>>,
         backup' \in Running, ReadingOK', DeliveryOK'
  PROVE  BackupInv'
  BY DEF BackupInv, BackupTypes, ExportsOK, FilesOK, KeptOK, Made, Backup!Coherent

LEMMA RunEnds ==
  ASSUME BackupInv, UNCHANGED <<heads, backupDay, exports, releases, proven, restorers, output>>, Backup!End
  PROVE  BackupInv'
  <1>1. backup' \in Running /\ backup'.pc = "idle"
    BY NoJobType DEF Backup!End
  <1> QED BY <1>1, RunMoves DEF ReadingOK, DeliveryOK
--------------------------------------------------------------------------------
LEMMA BackupStarts == Backup!Init => BackupInv
  <1> SUFFICES ASSUME Backup!Init PROVE BackupInv
    OBVIOUS
  <1> USE BackupGiven DEF Backup!BackupAssumption
  <1>1. /\ heads = [s \in OfBackup.Source |-> 0] /\ backupDay = 1 /\ exports = <<>>
        /\ releases = [d \in Backup!Day |-> Backup!NoRelease] /\ backup = Backup!NoJob /\ proven = [d \in Backup!Day |-> 0]
        /\ restorers = [r \in OfBackup.Restorer |-> 0] /\ output = 0
    BY DEF Backup!Init
  <1>2. 1 \in Backup!Day
    BY DEF Backup!Day
  <1>3. BackupTypes
    <2>1. heads \in Heads
      BY <1>1, ContentsAre DEF Heads
    <2>2. exports \in Seq(Exported) /\ Len(exports) <= OfBackup.MaxExport
      BY <1>1, EmptySeq, ContentsAre
    <2> QED BY <1>1, <1>2, <2>1, <2>2, NoJobType, NoReleaseType, ContentsAre DEF BackupTypes
  <1>4. Len(exports) = 0
    BY <1>1
  <1>5. FilesOK
    BY <1>1, NoReleaseType DEF FilesOK
  <1> QED BY <1>1, <1>3, <1>4, <1>5, NoJobType
          DEF BackupInv, ReadingOK, DeliveryOK, ExportsOK, KeptOK

LEMMA WorldKeeps ==
  ASSUME BackupInv,
         \/ \E s \in OfBackup.Source : Backup!Commit(s)
         \/ Backup!Midnight
         \/ \E d \in Backup!Day : Backup!Damage(d)
         \/ \E r \in OfBackup.Restorer : Backup!Import(r) \/ Backup!Rename(r)
  PROVE  BackupInv'
  <1> USE DEF BackupInv
  <1>0. Len(exports) \in Nat
    BY MadeType
  <1>1. ASSUME NEW s \in OfBackup.Source, Backup!Commit(s) PROVE BackupInv'
    <2>1. /\ heads' \in Heads /\ UpTo(heads, heads')
          /\ UNCHANGED <<backupDay, exports, releases, backup, proven, restorers, output>>
      <3>1. heads[s] \in Nat /\ heads[s] + 1 \in 0..OfBackup.MaxGeneration
        BY <1>1, ContentsAre DEF Backup!Commit, BackupTypes, Heads
      <3>2. heads' = [heads EXCEPT ![s] = heads[s] + 1] /\ heads \in Heads
            /\ UNCHANGED <<backupDay, exports, releases, backup, proven, restorers, output>>
        BY <1>1 DEF Backup!Commit, BackupTypes
      <3>3. \A x \in OfBackup.Source : heads[x] \in Nat
        BY <3>2, ContentsAre DEF Heads
      <3> QED BY <3>1, <3>2, <3>3 DEF Heads, UpTo
    <2>2. ASSUME NEW h \in Heads, UpTo(h, heads) PROVE UpTo(h, heads')
      <3>1. \A x \in OfBackup.Source : h[x] \in Nat /\ heads[x] \in Nat /\ heads'[x] \in Nat
        BY <2>1, ContentsAre DEF BackupTypes, Heads
      <3> QED BY <2>1, <2>2, <3>1 DEF UpTo
    <2>3. backup.heads \in Heads
      BY DEF BackupTypes, Running
    <2>4. ReadingOK'
      BY <2>1, <2>2, <2>3 DEF ReadingOK
    <2> QED BY <2>1, <2>4
            DEF BackupTypes, DeliveryOK, ExportsOK, FilesOK, KeptOK, Made, Backup!Coherent
  <1>2. CASE Backup!Midnight
    <2>1. /\ backupDay' \in Backup!Day
          /\ UNCHANGED <<heads, exports, releases, backup, proven, restorers, output>>
      BY <1>2, BackupGiven DEF Backup!Midnight, BackupTypes, Backup!Day, Backup!BackupAssumption
    <2> QED BY <2>1
            DEF BackupTypes, ReadingOK, DeliveryOK, ExportsOK, FilesOK, KeptOK, Made, Backup!Coherent
  <1>3. ASSUME NEW d \in Backup!Day, Backup!Damage(d) PROVE BackupInv'
    <2>1. /\ UNCHANGED <<heads, backupDay, exports, restorers, output>>
          /\ proven' = [proven EXCEPT ![d] = 0]
          /\ backup' = [backup EXCEPT !.hurt = @ \/ (backup.pc = "receipt" /\ backup.day = d)]
      BY <1>3 DEF Backup!Damage
    <2>2. /\ releases' \in [Backup!Day -> Bodies]
          /\ \A e \in Backup!Day : e # d => releases'[e] = releases[e]
          /\ \A n \in Backup!AssetName : releases'[d].assets[n] \in {Backup!NoFile, releases[d].assets[n]}
      <3>1. CASE releases' = [releases EXCEPT ![d] = Backup!NoRelease]
        BY <3>1, NoReleaseType DEF BackupTypes
      <3>2. ASSUME NEW n \in Backup!AssetName, releases' = [releases EXCEPT ![d].assets[n] = Backup!NoFile]
            PROVE  <2>2!1 /\ <2>2!2 /\ <2>2!3
        <4>1. /\ releases[d] \in Bodies
              /\ releases' = [releases EXCEPT ![d] =
                   [releases[d] EXCEPT !.assets = [releases[d].assets EXCEPT ![n] = Backup!NoFile]]]
          BY <3>2 DEF BackupTypes
        <4>2. [releases[d].assets EXCEPT ![n] = Backup!NoFile] \in [Backup!AssetName -> BackupFiles]
          BY <4>1, NoReleaseType DEF Bodies
        <4>3. /\ [releases[d] EXCEPT !.assets = [releases[d].assets EXCEPT ![n] = Backup!NoFile]] \in Bodies
              /\ [releases[d] EXCEPT !.assets = [releases[d].assets EXCEPT ![n] = Backup!NoFile]].assets
                   = [releases[d].assets EXCEPT ![n] = Backup!NoFile]
          BY <4>1, <4>2 DEF Bodies
        <4> QED BY <4>1, <4>2, <4>3 DEF BackupTypes, Bodies
      <3> QED BY <1>3, <3>1, <3>2 DEF Backup!Damage
    <2>3. /\ backup' \in Running /\ backup'.pc = backup.pc /\ backup'.day = backup.day
          /\ backup'.content = backup.content /\ backup'.heads = backup.heads
          /\ backup'.operations = backup.operations
          /\ ~backup'.hurt => ~backup.hurt /\ ~(backup.pc = "receipt" /\ backup.day = d)
      BY <2>1 DEF BackupTypes, Running
    <2>4. /\ proven' \in [Backup!Day -> Contents] /\ proven'[d] = 0 /\ \A e \in Backup!Day : e # d => proven'[e] = proven[e]
      BY <2>1, ContentsAre DEF BackupTypes
    <2>5. ReadingOK'
      BY <2>1, <2>3 DEF ReadingOK
    <2>6. DeliveryOK'
      <3>1. backup.day \in Backup!Day
        BY DEF BackupTypes, Running
      <3>2. backup'.pc = "receipt" /\ ~backup'.hurt => Backup!Whole(releases'[backup'.day], backup'.content)
        BY <2>2, <2>3, <3>1 DEF DeliveryOK
      <3>3. proven[backup.day] = 0 => proven'[backup'.day] = 0
        BY <2>3, <2>4, <3>1
      <3> QED BY <2>1, <2>3, <3>2, <3>3 DEF DeliveryOK, Made
    <2>7. FilesOK'
      <3>1. \A e \in Backup!Day, n \in Backup!AssetName :
              releases'[e].assets[n].uploaded => releases'[e].assets[n] = releases[e].assets[n]
        BY <2>2, NoReleaseType
      <3> QED BY <2>1, <3>1 DEF FilesOK, Made
    <2>8. KeptOK'
      BY <2>1, <2>2, <2>4 DEF KeptOK, Made
    <2> QED BY <2>1, <2>2, <2>3, <2>4, <2>5, <2>6, <2>7, <2>8
            DEF BackupTypes, ExportsOK, Backup!Coherent
  <1>4. ASSUME NEW r \in OfBackup.Restorer, Backup!Import(r) PROVE BackupInv'
    <2>1. PICK d \in Backup!Dumps :
            restorers' = [restorers EXCEPT ![r] = releases[d].assets["radar.sql.gz"].content]
      BY <1>4 DEF Backup!Import
    <2>2. UNCHANGED <<heads, backupDay, exports, releases, backup, proven, output>>
      BY <1>4 DEF Backup!Import
    <2>3. "radar.sql.gz" \in Backup!AssetName
      BY AssetIs DEF Backup!Asset
    <2>4. /\ Made(releases[d].assets["radar.sql.gz"].content)
          /\ releases[d].assets["radar.sql.gz"].content \in Contents
      BY <2>3 DEF Backup!Dumps, FilesOK, BackupTypes, Bodies, BackupFiles
    <2>5. /\ restorers' \in [OfBackup.Restorer -> Contents]
          /\ \A q \in OfBackup.Restorer : restorers'[q] # 0 => Made(restorers'[q])
      BY <2>1, <2>4 DEF BackupTypes, FilesOK
    <2> QED BY <2>2, <2>5
            DEF BackupTypes, ReadingOK, DeliveryOK, ExportsOK, FilesOK, KeptOK, Made, Backup!Coherent
  <1>5. ASSUME NEW r \in OfBackup.Restorer, Backup!Rename(r) PROVE BackupInv'
    <2>1. /\ restorers' \in [OfBackup.Restorer -> Contents] /\ output' \in Contents
          /\ \A q \in OfBackup.Restorer : restorers'[q] # 0 => Made(restorers'[q])
          /\ output' # 0 => Made(output')
      BY <1>5, ContentsAre DEF Backup!Rename, BackupTypes, FilesOK
    <2>2. UNCHANGED <<heads, backupDay, exports, releases, backup, proven>>
      BY <1>5 DEF Backup!Rename
    <2> QED BY <2>1, <2>2
            DEF BackupTypes, ReadingOK, DeliveryOK, ExportsOK, FilesOK, KeptOK, Made, Backup!Coherent
  <1> QED BY <1>1, <1>2, <1>3, <1>4, <1>5
--------------------------------------------------------------------------------
(* The run puts a file of its export under a name of its release, or removes one. *)
LEMMA AssetChanges ==
  ASSUME BackupInv, NEW n \in Backup!AssetName, NEW file \in BackupFiles,
         releases' = [releases EXCEPT ![backup.day].assets[n] = file],
         file.uploaded => Made(file.content), proven[backup.day] = 0,
         UNCHANGED <<heads, backupDay, exports, proven, restorers, output>>,
         backup' \in Running, ReadingOK', backup'.pc # "receipt",
         backup'.pc \in {"find", "create", "asset", "upload", "confirm"} => Made(backup'.content),
         backup'.pc # "idle" => backup'.day = backup.day
  PROVE  BackupInv'
  <1> USE DEF BackupInv
  <1> DEFINE d == backup.day
  <1>1. d \in Backup!Day /\ releases[d] \in Bodies
    BY DEF BackupTypes, Running
  <1>2. /\ [releases[d].assets EXCEPT ![n] = file] \in [Backup!AssetName -> BackupFiles]
        /\ releases' = [releases EXCEPT ![d] =
             [releases[d] EXCEPT !.assets = [releases[d].assets EXCEPT ![n] = file]]]
    BY <1>1 DEF Bodies, BackupTypes
  <1>3. /\ [releases[d] EXCEPT !.assets = [releases[d].assets EXCEPT ![n] = file]] \in Bodies
        /\ [releases[d] EXCEPT !.assets = [releases[d].assets EXCEPT ![n] = file]].assets
             = [releases[d].assets EXCEPT ![n] = file]
    BY <1>1, <1>2 DEF Bodies
  <1>4. /\ releases' \in [Backup!Day -> Bodies]
        /\ \A e \in Backup!Day : e # d => releases'[e] = releases[e]
        /\ \A x \in Backup!AssetName : releases'[d].assets[x] \in {file, releases[d].assets[x]}
    BY <1>1, <1>2, <1>3 DEF BackupTypes, Bodies
  <1> HIDE DEF d
  <1>5. FilesOK'
    <2>1. ASSUME NEW e \in Backup!Day, NEW x \in Backup!AssetName, releases'[e].assets[x].uploaded
          PROVE  Made(releases'[e].assets[x].content)
      BY <1>4, <2>1 DEF FilesOK
    <2> QED BY <2>1 DEF FilesOK, Made
  <1>6. KeptOK'
    BY <1>4 DEF KeptOK, Made, d
  <1>7. DeliveryOK'
    BY DEF DeliveryOK, Made
  <1>8. BackupTypes'
    BY <1>4 DEF BackupTypes
  <1> QED BY <1>5, <1>6, <1>7, <1>8 DEF ExportsOK, Backup!Coherent

LEMMA KeptCompletes ==
  ASSUME BackupInv, ~Backup!Completed PROVE proven[backup.day] = 0
  <1>1. backup.day \in Backup!Day
    BY DEF BackupInv, BackupTypes, Running
  <1> QED BY <1>1 DEF BackupInv, KeptOK, Backup!Completed, Backup!mine

LEMMA RunKeeps == ASSUME BackupInv, Backup!Run PROVE BackupInv'
  <1> USE DEF BackupInv
  <1>0. Len(exports) \in Nat /\ backup \in Running /\ backup.day \in Backup!Day
    BY MadeType DEF BackupTypes, Running
  <1>1. ASSUME NEW requested \in BOOLEAN, Backup!Start(requested) PROVE BackupInv'
    <2>1. /\ backup' \in Running /\ backup'.pc \in {"heads", "exists"}
          /\ UNCHANGED <<heads, backupDay, exports, releases, proven, restorers, output>>
      BY <1>1 DEF Backup!Start, Backup!Rest, Running, BackupTypes
    <2>2. Len(exports') < OfBackup.MaxExport
      BY <1>1, <2>1 DEF Backup!Start
    <2> QED BY <2>1, <2>2, RunMoves DEF ReadingOK, DeliveryOK
  <1>2. CASE Backup!Exists
    <2>1. /\ Backup!End \/ Backup!Goes("heads")
          /\ UNCHANGED <<heads, backupDay, exports, releases, proven, restorers, output>>
      BY <1>2 DEF Backup!Exists, Backup!Rest
    <2>2. CASE Backup!Goes("heads")
      <3>1. backup' \in Running /\ backup'.pc = "heads"
        BY <2>2, <1>0 DEF Backup!Goes, Running
      <3>2. Len(exports') < OfBackup.MaxExport
        BY <1>2, <2>1 DEF Backup!Exists, ReadingOK
      <3> QED BY <2>1, <3>1, <3>2, RunMoves DEF ReadingOK, DeliveryOK
    <2> QED BY <2>1, <2>2, RunEnds
  <1>3. CASE Backup!ReadHeads
    <2>0. UNCHANGED <<heads, backupDay, exports, releases, proven, restorers, output>>
      BY <1>3 DEF Backup!ReadHeads, Backup!Rest
    <2>1. CASE Backup!End
      BY <2>0, <2>1, RunEnds
    <2>2. CASE backup' = [backup EXCEPT !.pc = "metadata", !.heads = heads]
               /\ \A s \in OfBackup.Source : heads[s] # 0
      <3>1. backup' \in Running /\ backup'.pc = "metadata" /\ backup'.heads = heads
        BY <2>2, <1>0 DEF BackupTypes, Running
      <3>2. \A s \in OfBackup.Source : heads[s] > 0 /\ heads[s] <= heads[s]
        BY <2>2, ContentsAre DEF BackupTypes, Heads
      <3>3. Len(exports') < OfBackup.MaxExport
        BY <1>3, <2>0 DEF Backup!ReadHeads, ReadingOK
      <3> QED BY <2>0, <3>1, <3>2, <3>3, RunMoves DEF ReadingOK, DeliveryOK, UpTo
    <2> QED BY <1>3, <2>1, <2>2 DEF Backup!ReadHeads
  <1>4. CASE Backup!ReadMetadata
    <2>1. /\ backup' = [backup EXCEPT !.pc = "export", !.operations = Backup!Committed(heads)]
          /\ backup.pc = "metadata"
          /\ UNCHANGED <<heads, backupDay, exports, releases, proven, restorers, output>>
      BY <1>4 DEF Backup!ReadMetadata, Backup!Rest
    <2>2. heads \in Heads
      BY DEF BackupTypes
    <2>3. /\ backup' \in Running /\ backup'.pc = "export" /\ backup'.heads = backup.heads
          /\ backup'.operations = Backup!Committed(heads)
      <3>1. Backup!Committed(heads) \in {Backup!Committed(h) : h \in Heads}
        BY <2>2
      <3> QED BY <2>1, <1>0, <3>1 DEF Running
    <2>4. UpTo(heads, heads)
      BY <2>2 DEF Heads, UpTo
    <2>5. ReadingOK'
      BY <2>1, <2>2, <2>3, <2>4 DEF ReadingOK
    <2> QED BY <2>1, <2>3, <2>5, RunMoves DEF DeliveryOK
  <1>5. CASE Backup!Export
    <2>0. backup.pc = "export" /\ UNCHANGED <<heads, backupDay, releases, proven, restorers, output>>
      BY <1>5 DEF Backup!Export, Backup!Rest
    <2>1. CASE heads # backup.heads
      BY <1>5, <2>0, <2>1, RunEnds DEF Backup!Export
    <2>2. CASE heads = backup.heads
      <3> DEFINE made == [heads |-> backup.heads, operations |-> backup.operations]
      <3>1. /\ exports' = Append(exports, made)
            /\ backup' = [backup EXCEPT !.pc = "find", !.content = Len(exports) + 1]
        BY <1>5, <2>2 DEF Backup!Export
      <3>2. /\ \A s \in OfBackup.Source : backup.heads[s] > 0
            /\ backup.operations = Backup!Committed(backup.heads) /\ backup.heads \in Heads
        <4>1. PICK m \in Heads : /\ backup.operations = Backup!Committed(m)
                                 /\ UpTo(backup.heads, m) /\ UpTo(m, heads)
          BY <2>0 DEF ReadingOK
        <4>2. backup.heads \in Heads
          BY <1>0 DEF Running
        <4>3. \A s \in OfBackup.Source : m[s] = backup.heads[s]
          BY <2>2, <4>1, <4>2 DEF UpTo, Heads
        <4>4. m = backup.heads
          BY <4>2, <4>3 DEF Heads
        <4> QED BY <2>0, <4>1, <4>2, <4>4 DEF ReadingOK
      <3>3. made \in Exported /\ made.heads = backup.heads /\ made.operations = Backup!Committed(made.heads)
        BY <3>2 DEF Exported
      <3> HIDE DEF made
      <3>4. /\ exports' \in Seq(Exported) /\ Len(exports') = Len(exports) + 1
            /\ \A i \in 1..Len(exports) : exports'[i] = exports[i]
            /\ exports'[Len(exports) + 1] = made
        BY <3>1, <3>3, AppendProperties DEF BackupTypes
      <3>5. /\ backup' \in Running /\ backup'.pc = "find" /\ backup'.content = Len(exports) + 1
        <4>1. Len(exports) + 1 \in Contents
          BY <1>0, <2>0, ContentsAre DEF ReadingOK, Contents
        <4> HIDE <3>4
        <4> QED BY <3>1, <1>0, <4>1 DEF Running
      <3>6. ASSUME NEW c, Made(c) PROVE Made(c)'
        BY <1>0, <3>4, <3>6 DEF Made
      <3>7. ExportsOK'
        <4> SUFFICES ASSUME NEW c \in 1..Len(exports') PROVE Backup!Coherent(c)'
          BY DEF ExportsOK
        <4>1. CASE c \in 1..Len(exports)
          BY <3>4, <4>1 DEF ExportsOK, Backup!Coherent
        <4>2. CASE c = Len(exports) + 1
          BY <3>2, <3>3, <3>4, <4>2 DEF Backup!Coherent
        <4> QED BY <1>0, <3>4, <4>1, <4>2
      <3>8. backup'.content \in 1..Len(exports')
        BY <1>0, <3>4, <3>5
      <3>9. FilesOK'
        <4>1. \A c \in Nat : Made(c) => Made(c)'
          BY <3>6
        <4>2. /\ \A d \in Backup!Day, n \in Backup!AssetName : releases[d].assets[n].content \in Contents
              /\ \A r \in OfBackup.Restorer : restorers[r] \in Contents
              /\ output \in Contents
          BY DEF BackupTypes, Bodies, BackupFiles
        <4> QED BY <2>0, <4>1, <4>2, ContentsAre DEF FilesOK
      <3>10. KeptOK'
        <4>1. \A c \in Nat : Made(c) => Made(c)'
          BY <3>6
        <4>2. \A d \in Backup!Day : proven[d] \in Nat
          BY ContentsAre DEF BackupTypes
        <4> QED BY <2>0, <4>1, <4>2 DEF KeptOK
      <3>11. DeliveryOK' /\ ReadingOK'
        BY <3>5, <3>8 DEF DeliveryOK, ReadingOK, Made
      <3>12. Len(exports') <= OfBackup.MaxExport
        BY <1>0, <2>0, <3>4, ContentsAre DEF ReadingOK
      <3> QED BY <2>0, <3>4, <3>5, <3>7, <3>9, <3>10, <3>11, <3>12 DEF BackupTypes
    <2> QED BY <2>1, <2>2
  <1>6. CASE Backup!Find
    <2>0. backup.pc = "find" /\ UNCHANGED <<heads, backupDay, exports, releases, proven, restorers, output>>
      BY <1>6 DEF Backup!Find, Backup!Rest
    <2>1. \/ Backup!End \/ Backup!Goes("create")
          \/ backup' = [backup EXCEPT !.pc = "asset", !.release = Backup!mine.id]
      BY <1>6 DEF Backup!Find
    <2>2. Backup!mine.id \in Contents
      BY <1>0 DEF Backup!mine, BackupTypes, Bodies
    <2>3. CASE ~Backup!End
      <3>1. /\ backup' \in Running /\ backup'.pc \in {"create", "asset"}
            /\ backup'.content = backup.content
        BY <2>1, <2>2, <2>3, <1>0 DEF Backup!Goes, Running
      <3> QED BY <2>0, <3>1, RunMoves DEF DeliveryOK, ReadingOK, Made
    <2> QED BY <2>0, <2>3, RunEnds
  <1>7. CASE Backup!Create
    <2>0. backup.pc = "create" /\ UNCHANGED <<heads, backupDay, exports, proven, restorers, output>>
      BY <1>7 DEF Backup!Create, Backup!Rest
    <2>1. CASE Backup!End /\ UNCHANGED releases
      BY <2>0, <2>1, RunEnds
    <2>2. CASE \E new \in Bodies :
                        /\ new = (IF Backup!mine = Backup!NoRelease THEN [Backup!NoRelease EXCEPT !.id = backup.content] ELSE Backup!mine)
                        /\ releases' = [releases EXCEPT ![backup.day] = new]
                        /\ backup' = [backup EXCEPT !.pc = "asset", !.release = new.id]
      <3>1. PICK new \in Bodies :
                        /\ new = (IF Backup!mine = Backup!NoRelease THEN [Backup!NoRelease EXCEPT !.id = backup.content] ELSE Backup!mine)
                        /\ releases' = [releases EXCEPT ![backup.day] = new]
                        /\ backup' = [backup EXCEPT !.pc = "asset", !.release = new.id]
        BY <2>2
      <3>2. /\ backup' \in Running /\ backup'.pc = "asset" /\ backup'.content = backup.content
        BY <3>1, <1>0 DEF Running, Bodies
      <3>3. /\ new.assets = Backup!mine.assets /\ (Backup!mine # Backup!NoRelease => new = Backup!mine)
        BY <3>1 DEF Backup!NoRelease
      <3>4. /\ releases' \in [Backup!Day -> Bodies] /\ releases'[backup.day] = new
            /\ \A d \in Backup!Day : /\ d # backup.day => releases'[d] = releases[d]
                                     /\ releases'[d].assets = releases[d].assets
        BY <3>1, <3>3, <1>0 DEF BackupTypes, Backup!mine
      <3>5. Backup!mine = Backup!NoRelease => proven[backup.day] = 0
        BY <1>0, NoReleaseType DEF KeptOK, Backup!mine
      <3>6. KeptOK'
        BY <2>0, <3>3, <3>4, <3>5, <1>0 DEF KeptOK, Made, Backup!mine
      <3>7. FilesOK' /\ DeliveryOK' /\ ReadingOK'
        BY <2>0, <3>2, <3>4 DEF FilesOK, DeliveryOK, ReadingOK, Made
      <3> QED BY <2>0, <3>2, <3>4, <3>6, <3>7 DEF BackupTypes, ExportsOK, Backup!Coherent
    <2>3. (IF Backup!mine = Backup!NoRelease THEN [Backup!NoRelease EXCEPT !.id = backup.content] ELSE Backup!mine) \in Bodies
      BY <1>0, NoReleaseType DEF BackupTypes, Backup!mine, Running, Bodies
    <2> QED BY <1>7, <2>1, <2>2, <2>3 DEF Backup!Create
  <1>n. Backup!name \in Backup!AssetName /\ Made(backup.content) = Made(backup.content)
    BY <1>0, AssetIs DEF Backup!name, Running
  <1>a. /\ Backup!NextAsset \in Running /\ Backup!NextAsset.pc \in {"asset", "confirm"}
        /\ Backup!NextAsset.content = backup.content /\ Backup!NextAsset.day = backup.day
    <2>1. (IF backup.at = 3 THEN 1 ELSE backup.at + 1) \in 1..3
      BY <1>0 DEF Running
    <2> QED BY <1>0, <2>1 DEF Backup!NextAsset, Running
  <1>8. CASE Backup!Remove
    <2>0. backup.pc = "asset" /\ UNCHANGED <<heads, backupDay, exports, proven, restorers, output>>
          /\ Made(backup.content)
      BY <1>8 DEF Backup!Remove, Backup!Rest, DeliveryOK
    <2>1. CASE Backup!End /\ UNCHANGED releases
      BY <2>0, <2>1, RunEnds
    <2>2. CASE backup' = Backup!NextAsset /\ UNCHANGED releases
      BY <2>0, <2>2, <1>a, RunMoves DEF DeliveryOK, ReadingOK, Made
    <2>3. CASE /\ ~Backup!Completed /\ releases' = [releases EXCEPT ![backup.day].assets[Backup!name] = Backup!NoFile]
               /\ Backup!Goes("upload") \/ Backup!End
      <3>1. proven[backup.day] = 0
        BY <2>3, KeptCompletes
      <3>2. /\ backup' \in Running /\ backup'.pc \in {"upload", "idle"}
            /\ backup'.pc = "upload" => backup'.content = backup.content /\ backup'.day = backup.day
        BY <2>3, <1>0, NoJobType DEF Backup!Goes, Backup!End, Running
      <3>3. ReadingOK'
        BY <3>2 DEF ReadingOK
      <3> QED BY <2>0, <2>3, <3>1, <3>2, <3>3, <1>n, NoReleaseType, AssetChanges
    <2> QED BY <1>8, <2>1, <2>2, <2>3 DEF Backup!Remove
  <1>9. CASE Backup!Upload
    <2>0. backup.pc = "upload" /\ UNCHANGED <<heads, backupDay, exports, proven, restorers, output>>
          /\ Made(backup.content) /\ proven[backup.day] = 0
      BY <1>9 DEF Backup!Upload, Backup!Rest, DeliveryOK
    <2>1. CASE UNCHANGED releases /\ Backup!End
      BY <2>0, <2>1, RunEnds
    <2>2. ASSUME NEW whole \in BOOLEAN,
                        releases' = [releases EXCEPT ![backup.day].assets[Backup!name] =
                          IF Backup!mine.id = backup.release /\ @ = Backup!NoFile
                          THEN [content |-> backup.content, uploaded |-> whole] ELSE @],
                        backup' \in {Backup!NextAsset, Backup!NoJob}
          PROVE  BackupInv'
      <3> DEFINE file == IF Backup!mine.id = backup.release /\ Backup!mine.assets[Backup!name] = Backup!NoFile
                         THEN [content |-> backup.content, uploaded |-> whole]
                         ELSE Backup!mine.assets[Backup!name]
      <3>1. releases' = [releases EXCEPT ![backup.day].assets[Backup!name] = file]
        BY <2>2, <1>0 DEF Backup!mine, BackupTypes
      <3>2. file \in BackupFiles /\ (file.uploaded => Made(file.content))
        <4>1. /\ Backup!mine.assets[Backup!name] \in BackupFiles
              /\ Backup!mine.assets[Backup!name].uploaded => Made(Backup!mine.assets[Backup!name].content)
          BY <1>0, <1>n DEF Backup!mine, BackupTypes, Bodies, FilesOK
        <4>2. backup.content \in Contents
          BY <1>0 DEF Running
        <4> QED BY <2>0, <4>1, <4>2 DEF BackupFiles
      <3> HIDE DEF file
      <3>3. /\ backup' \in Running /\ backup'.pc \in {"asset", "confirm", "idle"}
            /\ backup'.pc # "idle" => backup'.content = backup.content /\ backup'.day = backup.day
        BY <2>2, <1>a, NoJobType
      <3>4. ReadingOK'
        BY <3>3 DEF ReadingOK
      <3> QED BY <2>0, <3>1, <3>2, <3>3, <3>4, <1>n, AssetChanges
    <2> QED BY <1>9, <2>1, <2>2 DEF Backup!Upload, Backup!End
  <1>10. CASE Backup!Confirm
    <2>0. backup.pc = "confirm"
          /\ UNCHANGED <<heads, backupDay, exports, releases, proven, restorers, output>>
      BY <1>10 DEF Backup!Confirm, Backup!Rest
    <2>1. CASE Backup!End
      BY <2>0, <2>1, RunEnds
    <2>2. CASE ~Backup!Completed /\ Backup!Whole(Backup!mine, backup.content) /\ Backup!Goes("receipt")
      <3>1. /\ backup' \in Running /\ backup'.pc = "receipt" /\ backup'.content = backup.content
            /\ backup'.day = backup.day
        BY <2>2, <1>0 DEF Backup!Goes, Running
      <3>2. proven[backup.day] = 0
        BY <2>2, KeptCompletes
      <3> QED BY <2>0, <2>2, <3>1, <3>2, RunMoves DEF DeliveryOK, ReadingOK, Made, Backup!mine
    <2> QED BY <1>10, <2>1, <2>2 DEF Backup!Confirm
  <1>11. CASE Backup!Receipt
    <2>0. backup.pc = "receipt" /\ UNCHANGED <<heads, backupDay, exports, restorers, output>> /\ Backup!End
      BY <1>11 DEF Backup!Receipt, Backup!Rest
    <2>1. CASE UNCHANGED <<releases, proven>>
      BY <2>0, <2>1, RunEnds
    <2>2. CASE /\ releases' = [releases EXCEPT ![backup.day].receipt = backup.content]
               /\ proven' = [proven EXCEPT ![backup.day] = IF backup.hurt THEN 0 ELSE backup.content]
      <3>1. Made(backup.content) /\ backup.content \in Contents
            /\ (~backup.hurt => Backup!Whole(releases[backup.day], backup.content))
        BY <2>0, <1>0 DEF DeliveryOK, Running
      <3>2. /\ releases' \in [Backup!Day -> Bodies] /\ proven' \in [Backup!Day -> Contents]
            /\ \A d \in Backup!Day : /\ releases'[d].assets = releases[d].assets
                                     /\ d # backup.day => releases'[d] = releases[d] /\ proven'[d] = proven[d]
            /\ releases'[backup.day].receipt = backup.content
            /\ proven'[backup.day] = IF backup.hurt THEN 0 ELSE backup.content
        <4>1. /\ releases' = [releases EXCEPT ![backup.day] =
                          [releases[backup.day] EXCEPT !.receipt = backup.content]]
              /\ releases[backup.day] \in Bodies
          BY <2>2, <1>0 DEF BackupTypes
        <4>2. /\ [releases[backup.day] EXCEPT !.receipt = backup.content] \in Bodies
              /\ [releases[backup.day] EXCEPT !.receipt = backup.content].assets = releases[backup.day].assets
              /\ [releases[backup.day] EXCEPT !.receipt = backup.content].receipt = backup.content
          BY <4>1, <3>1 DEF Bodies
        <4> QED BY <2>2, <3>1, <4>1, <4>2, <1>0, ContentsAre DEF BackupTypes
      <3>3. KeptOK'
        <4> SUFFICES ASSUME NEW d \in Backup!Day, proven'[d] # 0
                     PROVE  /\ Made(proven'[d]) /\ releases'[d].receipt = proven'[d]
                            /\ Backup!Whole(releases'[d], proven'[d])
          BY <2>0 DEF KeptOK, Made
        <4>1. CASE d = backup.day
          BY <4>1, <3>1, <3>2 DEF Backup!Whole, Backup!Match
        <4>2. CASE d # backup.day
          BY <4>2, <3>2 DEF KeptOK
        <4> QED BY <4>1, <4>2
      <3>4. backup' \in Running /\ backup'.pc = "idle"
        BY <2>0, NoJobType DEF Backup!End
      <3>5. ReadingOK' /\ DeliveryOK'
        BY <3>4 DEF ReadingOK, DeliveryOK
      <3>6. FilesOK'
        BY <2>0, <3>2 DEF FilesOK, Made
      <3> QED BY <2>0, <3>2, <3>3, <3>4, <3>5, <3>6 DEF BackupTypes, ExportsOK, Backup!Coherent
    <2> QED BY <1>11, <2>1, <2>2 DEF Backup!Receipt
  <1>12. CASE Backup!Die
    BY <1>12, RunEnds DEF Backup!Die, Backup!Rest
  <1> QED BY <1>1, <1>2, <1>3, <1>4, <1>5, <1>6, <1>7, <1>8, <1>9, <1>10, <1>11,
             <1>12 DEF Backup!Run

LEMMA BackupKeeps == BackupInv /\ [Backup!Next]_(Backup!vars) => BackupInv'
  <1> SUFFICES ASSUME BackupInv, [Backup!Next]_(Backup!vars) PROVE BackupInv'
    OBVIOUS
  <1>1. CASE UNCHANGED Backup!vars
    BY <1>1 DEF Backup!vars, BackupInv, BackupTypes, ReadingOK, DeliveryOK, ExportsOK, FilesOK,
       KeptOK,
                Made, Backup!Coherent
  <1> QED BY <1>1, WorldKeeps, RunKeeps DEF Backup!Next

LEMMA BackupInvAlways == Backup!Spec => []BackupInv
  BY BackupStarts, BackupKeeps, PTL DEF Backup!Spec

FewDamages == damages \in 0..OfBackup.MaxTrouble

LEMMA DamagesCounted == FewDamages /\ [Backup!Next]_(Backup!vars) => FewDamages'
  <1> SUFFICES ASSUME FewDamages, [Backup!Next]_(Backup!vars) PROVE FewDamages'
    OBVIOUS
  <1>1. Backup!Trouble \/ Backup!Calm
    BY DEF Backup!Next, Backup!vars, Backup!Commit, Backup!Midnight, Backup!Damage, Backup!Run,
       Backup!Start, Backup!Exists, Backup!ReadHeads, Backup!ReadMetadata, Backup!Export,
       Backup!Find, Backup!Create, Backup!Remove, Backup!Upload, Backup!Confirm, Backup!Receipt,
       Backup!Die, Backup!Import, Backup!Rename, Backup!Calm
  <1>2. OfBackup.MaxTrouble \in Nat
    BY BackupGiven DEF Backup!BackupAssumption
  <1> QED BY <1>1, <1>2 DEF FewDamages, Backup!Trouble, Backup!Calm

(* What is exported, released and restored keeps its type: every export is of the
   heads and the operations of some moment. *)
THEOREM BackupTypeCorrect == Backup!Spec => []Backup!TypeOK
  <1>1. Backup!Init => FewDamages
    BY BackupGiven DEF FewDamages, Backup!Init, Backup!BackupAssumption
  <1>2. BackupInv /\ FewDamages => Backup!TypeOK
    <2> SUFFICES ASSUME BackupTypes, damages \in 0..OfBackup.MaxTrouble PROVE Backup!TypeOK
      BY DEF BackupInv, FewDamages
    <2>1. heads \in Backup!Heads /\ exports \in Seq(Backup!Exported)
      BY DEF BackupTypes, Heads, Exported, Backup!Heads, Backup!Exported
    <2>2. releases \in [Backup!Day -> Backup!Release]
      BY DEF BackupTypes, Bodies, BackupFiles, Contents, Backup!Release, Backup!File
    <2>3. /\ proven \in [Backup!Day -> 0..OfBackup.MaxExport]
          /\ restorers \in [OfBackup.Restorer -> 0..OfBackup.MaxExport]
          /\ output \in 0..OfBackup.MaxExport /\ backupDay \in Backup!Day
      BY DEF BackupTypes, Contents
    <2>4. backup.day \in Backup!Day /\ backup.content \in 0..OfBackup.MaxExport /\ backup.at \in 1..3
      BY DEF BackupTypes, Running, Contents
    <2> QED BY <2>1, <2>2, <2>3, <2>4 DEF Backup!TypeOK
  <1> QED BY <1>1, <1>2, BackupInvAlways, DamagesCounted, PTL DEF Backup!Spec

THEOREM WholeAlways == Backup!Spec => []Backup!KeptIsWhole
  <1>1. BackupInv => Backup!KeptIsWhole
    BY DEF BackupInv, KeptOK, ExportsOK, FilesOK, Made, Backup!KeptIsWhole
  <1> QED BY <1>1, BackupInvAlways, PTL

LEMMA BackupsStay == BackupInv /\ [Backup!Next]_(Backup!vars) => Backup!KeepsBackups
  <1> SUFFICES ASSUME BackupInv, [Backup!Next]_(Backup!vars) PROVE Backup!KeepsBackups
    OBVIOUS
  <1>1. output # 0 => output' = output
    BY DEF Backup!Next, Backup!vars, Backup!Commit, Backup!Midnight, Backup!Damage, Backup!Run,
       Backup!Start, Backup!Exists, Backup!ReadHeads, Backup!ReadMetadata,
           Backup!Export, Backup!Find, Backup!Create, Backup!Remove, Backup!Upload, Backup!Confirm, Backup!Receipt, Backup!Die, Backup!Rest, Backup!Import, Backup!Rename
  <1>2. CASE Backup!Receipt
    <2>1. backup.day \in Backup!Day /\ proven[backup.day] = 0 /\ proven \in [Backup!Day -> Contents]
      BY <1>2 DEF Backup!Receipt, BackupInv, DeliveryOK, BackupTypes, Running
    <2>2. \A d \in Backup!Day : d # backup.day => proven'[d] = proven[d]
      BY <1>2, <2>1 DEF Backup!Receipt
    <2> QED BY <1>1, <2>1, <2>2 DEF Backup!KeepsBackups
  <1>3. CASE ~Backup!Receipt
    <2>1. \/ UNCHANGED proven
          \/ \E d \in Backup!Day : proven' = [proven EXCEPT ![d] = 0]
      BY <1>3 DEF Backup!Next, Backup!vars, Backup!Commit, Backup!Midnight, Backup!Damage,
         Backup!Run, Backup!Start, Backup!Exists, Backup!ReadHeads,
           Backup!ReadMetadata, Backup!Export, Backup!Find, Backup!Create, Backup!Remove, Backup!Upload, Backup!Confirm, Backup!Die, Backup!Rest, Backup!Import, Backup!Rename
    <2>2. proven \in [Backup!Day -> Contents]
      BY DEF BackupInv, BackupTypes
    <2> QED BY <1>1, <2>1, <2>2 DEF Backup!KeepsBackups
  <1> QED BY <1>2, <1>3

THEOREM BackupsAlways == Backup!Spec => [][Backup!KeepsBackups]_(Backup!vars)
  BY BackupsStay, BackupInvAlways, PTL DEF Backup!Spec
--------------------------------------------------------------------------------
(* RecentLaunches *)

LEMMA LaunchesGiven == Launches!LaunchAssumption
  BY JobsAssumption

Launching ==
  [pc : {"idle", "tracked", "candidates", "count", "admit", "finish", "save", "publish"},
   at : 1..OfLaunches.MaxClock, released : [OfLaunches.Game -> Launches!Row], checks : [OfLaunches.Game -> Launches!Measure],
   cached : [OfLaunches.Game -> Launches!Measure], upcoming : SUBSET OfLaunches.Game, tracked : SUBSET OfLaunches.Game,
   processed : SUBSET OfLaunches.Game, todo : SUBSET OfLaunches.Game, game : OfLaunches.Game \cup {Launches!NoJob.game},
   exact : Launches!Date \cup {0}, count : Launches!Measure]
LaunchCounts == [game : OfLaunches.Game, count : Launches!Count, day : Launches!Date]
LaunchTypes == Launches!TypeOK /\ preparer \in Launching

(* A measure above the threshold, and what follows from the counts made. *)
Backed(g, m, made) ==
  m.count # Launches!Few => [game |-> g, count |-> m.count, day |-> Launches!Day(m.at)] \in made
Followed(g, made) == \E c \in made : c.game = g /\ c.count = Launches!Many
Proven(g, row, made) ==
  row # Launches!NoRow =>
    IF row.source = "direct"
    THEN \E c \in made : c.game = g /\ c.count > Launches!Few /\ c.day = Launches!Day(row.qualified)
    ELSE Followed(g, made)

(* A committed launch lacks nothing but its month. *)
OnlyAged(row) ==
  row # Launches!NoRow =>
    row.count > Launches!Few /\ (row.source = "direct" => Launches!InFirstWeek(row.start, Launches!Day(row.qualified)))

CommittedSound ==
  \A g \in OfLaunches.Game :
    /\ Backed(g, cached[g], counts) /\ Backed(g, launched.checks[g], counts)
    /\ Proven(g, launched.released[g], counts) /\ OnlyAged(launched.released[g])
    /\ Proven(g, preview.recent[g], counts)
    /\ preview.recent[g] # Launches!NoRow => Launches!Recent(preview.recent[g], preview.day)

(* A launch that was committed before is at hand, or what excuses its absence is
   known and stays so. *)
SameLaunch(row, was) ==
  /\ row # Launches!NoRow /\ row.count > Launches!Few
  /\ row.start = was.start /\ row.source = was.source /\ row.qualified = was.qualified
AtWork(j, g) == j.pc = "tracked" \/ g \in j.todo \/ (j.pc \in {"count", "admit"} /\ j.game = g)
Excused(j, g, was) ==
  \/ ~Launches!InMonth(was.start, Launches!Day(j.at))
  \/ g \in j.processed
  \/ j.cached[g].count = Launches!Few /\ j.cached[g].at # 0
  \/ /\ ~AtWork(j, g)
     /\ j.checks[g].count = Launches!Few /\ j.checks[g].at # 0 /\ j.at - j.checks[g].at < OfLaunches.DayLength

GameSound(j, g, was, made) ==
  /\ Backed(g, j.cached[g], made) /\ Backed(g, j.checks[g], made)
  /\ Proven(g, j.released[g], made)
  /\ j.pc \in {"save", "publish"} /\ j.released[g] # Launches!NoRow =>
       Launches!Recent(j.released[g], Launches!Day(j.at))
  /\ was # Launches!NoRow => SameLaunch(j.released[g], was) \/ Excused(j, g, was)
  /\ g \in j.tracked => Followed(g, made)

CandidateSound(j, made) ==
  /\ j.pc \in {"count", "admit"} => j.game \in OfLaunches.Game
  /\ j.pc = "admit" => /\ j.count.count # Launches!Few /\ Backed(j.game, j.count, made)
                       /\ j.released[j.game] = Launches!NoRow

JobSound(j, rows, made) ==
  j.pc # "idle" =>
    j.at <= moment /\ CandidateSound(j, made) /\ \A g \in OfLaunches.Game : GameSound(j, g, rows[g], made)

LaunchInv == LaunchTypes /\ CommittedSound /\ JobSound(preparer, launched.released, counts)
--------------------------------------------------------------------------------
LEMMA DayType == \A t \in 1..OfLaunches.MaxClock : Launches!Day(t) \in Launches!Date
  <1> SUFFICES ASSUME NEW t \in 1..OfLaunches.MaxClock PROVE Launches!Day(t) \in Launches!Date
    OBVIOUS
  <1>1. t - 1 \in Nat /\ OfLaunches.MaxClock - 1 \in Nat /\ t - 1 <= OfLaunches.MaxClock - 1
    BY LaunchesGiven DEF Launches!LaunchAssumption
  <1>2. /\ (t - 1) \div OfLaunches.DayLength \in Nat /\ (OfLaunches.MaxClock - 1) \div OfLaunches.DayLength \in Nat
        /\ (t - 1) \div OfLaunches.DayLength <= (OfLaunches.MaxClock - 1) \div OfLaunches.DayLength
    BY <1>1, LaunchesGiven, DivisionGrows DEF Launches!LaunchAssumption
  <1> DEFINE x == (t - 1) \div OfLaunches.DayLength  y == (OfLaunches.MaxClock - 1) \div OfLaunches.DayLength
  <1> HIDE DEF x, y
  <1>3. x \in Nat /\ y \in Nat /\ x <= y
    BY <1>2 DEF x, y
  <1>4. x + 1 \in 1..(y + 1)
    BY <1>3
  <1> QED BY <1>4 DEF Launches!Day, Launches!Date, x, y

LEMMA NoneTypes ==
  /\ Launches!NoRow \in Launches!Row /\ Launches!NoCount \in Launches!Measure /\ Launches!NoCount.count = Launches!Few
  /\ Launches!None(Launches!NoRow) \in [OfLaunches.Game -> Launches!Row] /\ Launches!None(Launches!NoCount) \in [OfLaunches.Game -> Launches!Measure]
  /\ \A g \in OfLaunches.Game : Launches!None(Launches!NoRow)[g] = Launches!NoRow /\ Launches!None(Launches!NoCount)[g] = Launches!NoCount
  <1>1. 0 \in 0..OfLaunches.MaxClock
    BY LaunchesGiven DEF Launches!LaunchAssumption
  <1> QED BY <1>1 DEF Launches!NoRow, Launches!Row, Launches!NoCount, Launches!Measure,
             Launches!None, Launches!Few, Launches!Count

LEMMA NoPreparer == Launches!NoJob \in Launching /\ Launches!NoJob.pc = "idle" /\ Launches!NoJob.game = Launches!NoJob.game
  <1>1. 1 \in 1..OfLaunches.MaxClock
    BY LaunchesGiven DEF Launches!LaunchAssumption
  <1> QED BY <1>1, NoneTypes DEF Launches!NoJob, Launching

(* What was counted stays so. *)
LEMMA CountsStay ==
  ASSUME NEW made, NEW more, made \subseteq more, NEW g
  PROVE  /\ \A m : Backed(g, m, made) => Backed(g, m, more)
         /\ \A row : Proven(g, row, made) => Proven(g, row, more)
         /\ Followed(g, made) => Followed(g, more)
  BY DEF Backed, Proven, Followed

LEMMA SoundStays ==
  ASSUME NEW j, NEW rows, NEW made, NEW more, made \subseteq more, JobSound(j, rows, made)
  PROVE  JobSound(j, rows, more)
  BY CountsStay DEF JobSound, GameSound, CandidateSound

LEMMA MadeIs ==
  ASSUME LaunchTypes, NEW g \in OfLaunches.Game, NEW n \in Launches!Count, Launches!Made(g, n)
  PROVE  /\ counts \subseteq counts' /\ counts' \subseteq LaunchCounts
         /\ Backed(g, [count |-> n, at |-> moment], counts')
         /\ [count |-> n, at |-> moment] \in Launches!Measure
  <1>1. /\ Launches!Day(moment) \in Launches!Date /\ moment \in 0..OfLaunches.MaxClock
    BY DayType, LaunchesGiven DEF LaunchTypes, Launches!TypeOK, Launches!LaunchAssumption
  <1> QED BY <1>1 DEF LaunchTypes, Launches!TypeOK, Launches!Made, Backed, LaunchCounts,
             Launches!Measure

(* A step of the run that changes nothing but the run and the counts. *)
LEMMA JobMoves ==
  ASSUME LaunchInv, UNCHANGED <<moment, store, cached, launched, preview, news>>,
         rounds' \in 0..OfLaunches.MaxRuns, counts \subseteq counts', counts' \subseteq LaunchCounts,
         preparer' \in Launching, JobSound(preparer', launched.released, counts')
  PROVE  LaunchInv'
  <1>1. LaunchTypes'
    BY DEF LaunchInv, LaunchTypes, Launches!TypeOK, LaunchCounts, Launching
  <1>2. CommittedSound'
    BY CountsStay DEF LaunchInv, CommittedSound
  <1>3. JobSound(preparer, launched.released, counts)'
    BY DEF JobSound
  <1> QED BY <1>1, <1>2, <1>3 DEF LaunchInv

LEMMA QuietMoves ==
  ASSUME LaunchInv, Launches!Quiet, preparer' \in Launching, JobSound(preparer', launched.released, counts)
  PROVE  LaunchInv'
  BY JobMoves DEF Launches!Quiet, Launches!Outside, LaunchInv, LaunchTypes, Launches!TypeOK,
     LaunchCounts
--------------------------------------------------------------------------------
LEMMA LaunchesStart == Launches!Init => LaunchInv
  <1> SUFFICES ASSUME Launches!Init PROVE LaunchInv
    OBVIOUS
  <1> USE LaunchesGiven DEF Launches!LaunchAssumption
  <1>1. 1 \in Launches!Date /\ 1 \in 1..OfLaunches.MaxClock
    <2>1. OfLaunches.MaxClock \in Nat \ {0}
      BY LaunchesGiven
    <2>2. 1 \in 1..OfLaunches.MaxClock
      BY <2>1
    <2>3. Launches!Day(1) = 1
      BY LaunchesGiven DEF Launches!Day
    <2>4. Launches!Day(OfLaunches.MaxClock) \in Nat \ {0}
      BY <2>1, LaunchesGiven DEF Launches!Day
    <2> QED BY <2>2, <2>3, <2>4 DEF Launches!Date
  <1>2. store \in [OfLaunches.Game -> [day : Launches!Date, out : BOOLEAN]]
    BY <1>1 DEF Launches!Init
  <1>3. preview \in [upcoming : SUBSET OfLaunches.Game, recent : [OfLaunches.Game -> Launches!Row], day : Launches!Date]
    BY <1>1, NoneTypes DEF Launches!Init
  <1>4. LaunchTypes
    BY <1>1, <1>2, <1>3, NoneTypes, NoPreparer DEF Launches!Init, LaunchTypes, Launches!TypeOK,
       Launching
  <1>5. CommittedSound
    BY NoneTypes DEF Launches!Init, CommittedSound, Backed, Proven, OnlyAged
  <1>6. JobSound(preparer, launched.released, counts)
    BY NoPreparer DEF Launches!Init, JobSound
  <1> QED BY <1>4, <1>5, <1>6 DEF LaunchInv

LEMMA LaunchWorldKeeps ==
  ASSUME LaunchInv, Launches!Tick \/ \E g \in OfLaunches.Game : Launches!StoreChanges(g) \/ Launches!CheckpointChanges(g)
  PROVE  LaunchInv'
  <1> USE DEF LaunchInv
  <1>1. CASE Launches!Tick
    <2>1. moment' \in 1..OfLaunches.MaxClock /\ moment <= moment'
          /\ UNCHANGED <<store, cached, launched, preview, preparer, counts, rounds, news>>
      BY <1>1, LaunchesGiven DEF Launches!Tick, LaunchTypes, Launches!TypeOK,
         Launches!LaunchAssumption
    <2>2. JobSound(preparer, launched.released, counts)'
      <3>1. preparer.at \in Int /\ moment \in Int /\ moment' \in Int
        BY <2>1 DEF LaunchTypes, Launching, Launches!TypeOK
      <3> QED BY <2>1, <3>1 DEF JobSound
    <2> QED BY <2>1, <2>2 DEF LaunchTypes, Launches!TypeOK, CommittedSound
  <1>2. ASSUME NEW g \in OfLaunches.Game, Launches!StoreChanges(g) PROVE LaunchInv'
    <2>1. /\ store' \in [OfLaunches.Game -> [day : Launches!Date, out : BOOLEAN]] /\ news' \in 0..OfLaunches.MaxNews
          /\ UNCHANGED <<moment, launched, preview, preparer, rounds, cached, counts>>
      BY <1>2, LaunchesGiven DEF Launches!StoreChanges, Launches!News, LaunchTypes,
         Launches!TypeOK, Launches!LaunchAssumption
    <2> QED BY <2>1 DEF LaunchTypes, Launches!TypeOK, CommittedSound, JobSound
  <1>3. ASSUME NEW g \in OfLaunches.Game, Launches!CheckpointChanges(g) PROVE LaunchInv'
    <2>1. PICK n \in Launches!Count :
            cached' = [cached EXCEPT ![g] = [count |-> n, at |-> moment]] /\ Launches!Made(g, n)
      BY <1>3 DEF Launches!CheckpointChanges
    <2>2. /\ counts \subseteq counts' /\ counts' \subseteq LaunchCounts
          /\ Backed(g, [count |-> n, at |-> moment], counts')
          /\ [count |-> n, at |-> moment] \in Launches!Measure
      BY <2>1, MadeIs
    <2>3. news' \in 0..OfLaunches.MaxNews /\ UNCHANGED <<moment, launched, preview, preparer, rounds, store>>
      BY <1>3, LaunchesGiven
         DEF Launches!CheckpointChanges, Launches!News, LaunchTypes, Launches!TypeOK, Launches!LaunchAssumption
    <2>4. cached' \in [OfLaunches.Game -> Launches!Measure] /\ \A h \in OfLaunches.Game : Backed(h, cached'[h], counts')
      BY <2>1, <2>2, CountsStay DEF LaunchTypes, Launches!TypeOK, CommittedSound
    <2>5. CommittedSound'
      BY <2>2, <2>3, <2>4, CountsStay DEF CommittedSound
    <2>6. JobSound(preparer, launched.released, counts)'
      <3>1. JobSound(preparer, launched.released, counts')
        BY <2>2, SoundStays
      <3> QED BY <2>3, <3>1 DEF JobSound
    <2> QED BY <2>2, <2>3, <2>4, <2>5, <2>6 DEF LaunchTypes, Launches!TypeOK, LaunchCounts
  <1> QED BY <1>1, <1>2, <1>3
--------------------------------------------------------------------------------
(* The parts of the run *)

LEMMA LaunchRunStarts == ASSUME LaunchInv, Launches!Start PROVE LaunchInv'
  <1> USE DEF LaunchInv
  <1> DEFINE rows == Launches!Pruned(launched.released, Launches!Day(moment))
             new == [Launches!NoJob EXCEPT !.pc = "tracked", !.at = moment, !.cached = cached,
                       !.released = rows, !.checks = launched.checks,
                       !.tracked = {g \in OfLaunches.Game : cached[g].count = Launches!Many}]
  <1>1. /\ preparer' = new /\ UNCHANGED <<moment, store, cached, news, launched, preview, counts>>
        /\ rounds' \in 0..OfLaunches.MaxRuns
    BY LaunchesGiven DEF Launches!Start, Launches!Outside, LaunchTypes, Launches!TypeOK,
       Launches!LaunchAssumption
  <1>2. /\ rows \in [OfLaunches.Game -> Launches!Row]
        /\ \A g \in OfLaunches.Game : rows[g] = IF Launches!Recent(launched.released[g], Launches!Day(moment))
                                     THEN launched.released[g] ELSE Launches!NoRow
    BY NoneTypes DEF Launches!Pruned, LaunchTypes, Launches!TypeOK
  <1> HIDE DEF rows
  <1>3. /\ new \in Launching /\ new.pc = "tracked" /\ new.at = moment /\ new.cached = cached
        /\ new.released = rows /\ new.checks = launched.checks
        /\ new.tracked = {g \in OfLaunches.Game : cached[g].count = Launches!Many}
    BY <1>2, NoPreparer DEF Launching, LaunchTypes, Launches!TypeOK
  <1> HIDE DEF new
  <1>4. ASSUME NEW g \in OfLaunches.Game PROVE GameSound(new, g, launched.released[g], counts)
    <2>1. Proven(g, rows[g], counts)
      BY <1>2 DEF CommittedSound, Proven
    <2>2. ASSUME cached[g].count = Launches!Many PROVE Followed(g, counts)
      <3>1. Backed(g, cached[g], counts)
        BY DEF CommittedSound
      <3>2. [game |-> g, count |-> cached[g].count, day |-> Launches!Day(cached[g].at)] \in counts
        BY <2>2, <3>1 DEF Backed, Launches!Many, Launches!Few
      <3> QED BY <2>2, <3>2 DEF Followed
    <2>3. launched.released[g] # Launches!NoRow =>
            SameLaunch(rows[g], launched.released[g]) \/ ~Launches!InMonth(launched.released[g].start, Launches!Day(moment))
      BY <1>2 DEF CommittedSound, OnlyAged, Launches!Recent, SameLaunch
    <2> QED BY <1>3, <2>1, <2>2, <2>3 DEF GameSound, Excused, CommittedSound
  <1>5. JobSound(new, launched.released, counts)
    <2>1. moment <= moment
      BY DEF LaunchTypes, Launches!TypeOK
    <2> QED BY <1>3, <1>4, <2>1 DEF JobSound, CandidateSound
  <1>6. counts' \subseteq LaunchCounts
    BY <1>1 DEF LaunchTypes, Launches!TypeOK, LaunchCounts
  <1> QED BY <1>1, <1>3, <1>5, <1>6, JobMoves

LEMMA TrackedKeeps == ASSUME LaunchInv, NEW g \in OfLaunches.Game, Launches!Tracked(g) PROVE LaunchInv'
  <1> USE DEF LaunchInv
  <1> DEFINE seen == store[g]
             row == [source |-> "tracked", start |-> seen.day, count |-> Launches!Many, qualified |-> 0]
             rest == [preparer EXCEPT !.tracked = @ \ {g}]
             done == [rest EXCEPT !.processed = @ \cup {g}]
  <1>1. /\ preparer.pc = "tracked" /\ g \in preparer.tracked /\ Launches!Quiet
        /\ \/ preparer' = rest
           \/ preparer' = [done EXCEPT !.released[g] = row]
           \/ preparer' = [done EXCEPT !.upcoming = @ \cup {g}]
           \/ preparer' = [done EXCEPT !.released[g] = Launches!NoRow]
    BY DEF Launches!Tracked, Launches!At
  <1>2. row \in Launches!Row /\ row.source # "direct"
    <2>1. seen.day \in Launches!Date /\ 0 \in 0..OfLaunches.MaxClock
      BY LaunchesGiven DEF LaunchTypes, Launches!TypeOK, Launches!LaunchAssumption
    <2> QED BY <2>1 DEF Launches!Row, Launches!Count, Launches!Many
  <1> HIDE DEF row
  <1>3. Followed(g, counts)
    BY <1>1 DEF JobSound, GameSound
  <1>4. /\ rest \in Launching /\ rest.released = preparer.released /\ rest.processed = preparer.processed
        /\ rest.pc = "tracked" /\ rest.tracked \subseteq preparer.tracked
        /\ rest.at = preparer.at /\ rest.checks = preparer.checks /\ rest.cached = preparer.cached
        /\ rest.todo = preparer.todo /\ rest.upcoming = preparer.upcoming /\ rest.game = preparer.game
    BY <1>1 DEF Launching, LaunchTypes
  <1>5. /\ done \in Launching /\ done.released = preparer.released
        /\ done.processed = preparer.processed \cup {g}
        /\ done.pc = "tracked" /\ done.tracked \subseteq preparer.tracked
        /\ done.at = preparer.at /\ done.checks = preparer.checks /\ done.cached = preparer.cached
    BY <1>4 DEF Launching
  <1> HIDE DEF rest, done
  <1>6. ASSUME NEW new \in Launching, new.pc = "tracked", new.tracked \subseteq preparer.tracked,
               new.at = preparer.at, new.checks = preparer.checks, new.cached = preparer.cached,
               preparer.processed \subseteq new.processed,
               \A h \in OfLaunches.Game : \/ new.released[h] = preparer.released[h]
                                          \/ /\ h \in new.processed
                                             /\ Proven(h, new.released[h], counts)
        PROVE  JobSound(new, launched.released, counts)
    <2>1. ASSUME NEW h \in OfLaunches.Game PROVE GameSound(new, h, launched.released[h], counts)
      <3>1. GameSound(preparer, h, launched.released[h], counts)
        BY <1>1 DEF JobSound
      <3>2. Proven(h, new.released[h], counts)
        BY <1>6, <3>1 DEF GameSound
      <3>3. Excused(preparer, h, launched.released[h]) => Excused(new, h, launched.released[h])
        BY <1>1, <1>6 DEF Excused, AtWork
      <3>4. h \in new.processed => Excused(new, h, launched.released[h])
        BY DEF Excused
      <3> QED BY <1>6, <3>1, <3>2, <3>3, <3>4 DEF GameSound
    <2> QED BY <1>1, <1>6, <2>1 DEF JobSound, CandidateSound
  <1>7. CASE preparer' = rest
    BY <1>1, <1>4, <1>6, <1>7, QuietMoves
  <1>8. ASSUME NEW displayed \in {row, Launches!NoRow}, preparer' = [done EXCEPT !.released[g] = displayed]
        PROVE  LaunchInv'
    <2>1. displayed \in Launches!Row /\ Proven(g, displayed, counts)
      BY <1>2, <1>3, NoneTypes DEF Proven
    <2>2. preparer' = [done EXCEPT !.released = [preparer.released EXCEPT ![g] = displayed]]
      BY <1>5, <1>8
    <2>3. preparer.released \in [OfLaunches.Game -> Launches!Row]
      BY DEF LaunchTypes, Launching
    <2>4. [preparer.released EXCEPT ![g] = displayed] \in [OfLaunches.Game -> Launches!Row]
      BY <2>1, <2>3
    <2>5. /\ preparer' \in Launching /\ preparer'.pc = "tracked" /\ preparer'.tracked \subseteq preparer.tracked
          /\ preparer'.at = preparer.at /\ preparer'.checks = preparer.checks /\ preparer'.cached = preparer.cached
          /\ preparer'.processed = preparer.processed \cup {g}
          /\ preparer'.released = [preparer.released EXCEPT ![g] = displayed]
      BY <1>5, <2>2, <2>4 DEF Launching
    <2>6. JobSound(preparer', launched.released, counts)
      BY <1>6, <2>1, <2>3, <2>5
    <2> QED BY <1>1, <2>5, <2>6, QuietMoves
  <1>9. CASE preparer' = [done EXCEPT !.upcoming = @ \cup {g}]
    <2>1. /\ preparer' \in Launching /\ preparer'.pc = "tracked" /\ preparer'.tracked \subseteq preparer.tracked
          /\ preparer'.at = preparer.at /\ preparer'.checks = preparer.checks /\ preparer'.cached = preparer.cached
          /\ preparer'.processed = preparer.processed \cup {g} /\ preparer'.released = preparer.released
      BY <1>5, <1>9 DEF Launching
    <2>2. JobSound(preparer', launched.released, counts)
      BY <1>6, <2>1
    <2> QED BY <1>1, <2>1, <2>2, QuietMoves
  <1> QED BY <1>1, <1>7, <1>8, <1>9

LEMMA SearchKeeps == ASSUME LaunchInv, Launches!Search PROVE LaunchInv'
  <1> USE DEF LaunchInv
  <1>1. PICK found \in SUBSET OfLaunches.Game :
          preparer' = [preparer EXCEPT !.pc = "candidates", !.todo = found \ preparer.processed]
    BY DEF Launches!Search
  <1>2. preparer.pc = "tracked" /\ Launches!Quiet
    BY DEF Launches!Search, Launches!At
  <1>3. /\ preparer' \in Launching /\ preparer'.pc = "candidates"
        /\ preparer'.at = preparer.at /\ preparer'.checks = preparer.checks /\ preparer'.cached = preparer.cached
        /\ preparer'.processed = preparer.processed /\ preparer'.released = preparer.released
        /\ preparer'.tracked = preparer.tracked
    BY <1>1 DEF Launching, LaunchTypes
  <1>4. ASSUME NEW g \in OfLaunches.Game PROVE GameSound(preparer', g, launched.released[g], counts)
    <2>1. GameSound(preparer, g, launched.released[g], counts)
      BY <1>2 DEF JobSound
    <2>2. Excused(preparer, g, launched.released[g]) => Excused(preparer', g, launched.released[g])
      BY <1>2, <1>3 DEF Excused, AtWork
    <2> QED BY <1>3, <2>1, <2>2 DEF GameSound
  <1>5. JobSound(preparer', launched.released, counts)
    BY <1>2, <1>3, <1>4 DEF JobSound, CandidateSound
  <1> QED BY <1>2, <1>3, <1>5, QuietMoves

(* The run gives up a candidate, and nothing else. *)
LEMMA DroppedSound ==
  ASSUME LaunchInv, NEW was \in Launching, NEW g \in OfLaunches.Game, NEW made,
         JobSound(was, launched.released, made), was.pc \in {"candidates", "count", "admit"},
         was.pc \in {"count", "admit"} => was.game = g
  PROVE  /\ Launches!Dropped(was, g) \in Launching /\ JobSound(Launches!Dropped(was, g), launched.released, made)
         /\ ~AtWork(Launches!Dropped(was, g), g) /\ Launches!Dropped(was, g).pc = "candidates"
         /\ Launches!Dropped(was, g).released = was.released /\ Launches!Dropped(was, g).checks = was.checks
         /\ Launches!Dropped(was, g).cached = was.cached /\ Launches!Dropped(was, g).at = was.at
         /\ Launches!Dropped(was, g).processed = was.processed /\ Launches!Dropped(was, g).tracked = was.tracked
         /\ \A h \in OfLaunches.Game : AtWork(Launches!Dropped(was, g), h) => AtWork(was, h)
  <1> DEFINE new == Launches!Dropped(was, g)
  <1>0. 0 \in Launches!Date \cup {0}
    OBVIOUS
  <1>1. /\ new \in Launching /\ new.pc = "candidates" /\ new.todo = was.todo \ {g}
        /\ new.released = was.released /\ new.checks = was.checks
        /\ new.cached = was.cached /\ new.at = was.at /\ new.processed = was.processed
        /\ new.tracked = was.tracked
    BY <1>0, NoneTypes DEF Launches!Dropped, Launching
  <1> HIDE DEF new
  <1>2. ~AtWork(new, g) /\ \A h \in OfLaunches.Game : AtWork(new, h) => AtWork(was, h)
    BY <1>1 DEF AtWork
  <1>3. ASSUME NEW h \in OfLaunches.Game PROVE GameSound(new, h, launched.released[h], made)
    <2>1. GameSound(was, h, launched.released[h], made)
      BY DEF JobSound
    <2>2. Excused(was, h, launched.released[h]) => Excused(new, h, launched.released[h])
      BY <1>1, <1>2 DEF Excused
    <2> QED BY <1>1, <2>1, <2>2 DEF GameSound
  <1>4. JobSound(new, launched.released, made)
    BY <1>1, <1>3 DEF JobSound, CandidateSound
  <1> QED BY <1>1, <1>2, <1>4 DEF new

LEMMA CandidateKeeps == ASSUME LaunchInv, NEW g \in OfLaunches.Game, Launches!Candidate(g) PROVE LaunchInv'
  <1> USE DEF LaunchInv
  <1>1. preparer.pc = "candidates" /\ g \in preparer.todo /\ Launches!Quiet /\ preparer \in Launching
    BY DEF Launches!Candidate, Launches!At, LaunchTypes
  <1>2. CASE preparer' = Launches!Drop(g)
    BY <1>1, <1>2, DroppedSound, QuietMoves DEF Launches!Drop
  <1>3. ASSUME NEW exact \in Launches!Date \cup {0},
               preparer' = [preparer EXCEPT !.pc = "count", !.game = g, !.exact = exact]
        PROVE  LaunchInv'
    <2>1. /\ preparer' \in Launching /\ preparer'.pc = "count" /\ preparer'.game = g /\ preparer'.todo = preparer.todo
          /\ preparer'.at = preparer.at /\ preparer'.checks = preparer.checks /\ preparer'.cached = preparer.cached
          /\ preparer'.processed = preparer.processed /\ preparer'.released = preparer.released
          /\ preparer'.tracked = preparer.tracked
      BY <1>1, <1>3 DEF Launching
    <2>2. ASSUME NEW h \in OfLaunches.Game PROVE GameSound(preparer', h, launched.released[h], counts)
      <3>1. GameSound(preparer, h, launched.released[h], counts)
        BY <1>1 DEF JobSound
      <3>2. AtWork(preparer', h) => AtWork(preparer, h)
        BY <1>1, <2>1 DEF AtWork
      <3>3. Excused(preparer, h, launched.released[h]) => Excused(preparer', h, launched.released[h])
        BY <2>1, <3>2 DEF Excused
      <3> QED BY <2>1, <3>1, <3>3 DEF GameSound
    <2>3. JobSound(preparer', launched.released, counts)
      BY <1>1, <2>1, <2>2 DEF JobSound, CandidateSound
    <2> QED BY <1>1, <2>1, <2>3, QuietMoves
  <1>4. store[g].day \in Launches!Date
    BY DEF LaunchTypes, Launches!TypeOK
  <1> QED BY <1>2, <1>3, <1>4 DEF Launches!Candidate

(* What a count leads to; a count below the threshold is one that excuses. *)
LEMMA CountedSound ==
  ASSUME LaunchInv, NEW was \in Launching, NEW m \in Launches!Measure, NEW made,
         JobSound(was, launched.released, made), was.pc = "count", was.game = preparer.game,
         was.released = preparer.released, Backed(was.game, m, made),
         m.count = Launches!Few => /\ m.at # 0
                                   /\ \/ was.cached[was.game] = m
                                      \/ /\ was.checks[was.game] = m
                                         /\ was.at - m.at < OfLaunches.DayLength
  PROVE  Launches!Counted(was, m) \in Launching /\ JobSound(Launches!Counted(was, m), launched.released, made)
  <1> DEFINE g == preparer.game
             left == Launches!Dropped(was, g)
  <1>1. g \in OfLaunches.Game /\ was.game = g
    BY DEF JobSound, CandidateSound
  <1>2. /\ left \in Launching /\ JobSound(left, launched.released, made)
        /\ ~AtWork(left, g) /\ left.pc = "candidates"
        /\ left.released = was.released /\ left.checks = was.checks
        /\ left.cached = was.cached /\ left.at = was.at
        /\ left.processed = was.processed /\ left.tracked = was.tracked
    BY <1>1, DroppedSound
  <1> HIDE DEF left
  <1>3. was.released \in [OfLaunches.Game -> Launches!Row]
    BY DEF Launching
  <1>4. CASE m.count = Launches!Few
    <2> DEFINE new == [left EXCEPT !.released[g] = Launches!NoRow]
               rows == [was.released EXCEPT ![g] = Launches!NoRow]
    <2>1. rows \in [OfLaunches.Game -> Launches!Row] /\ new = [left EXCEPT !.released = rows]
      BY <1>2, <1>3, NoneTypes
    <2>2. /\ new \in Launching /\ new.released = rows /\ new.pc = "candidates"
          /\ new.checks = was.checks /\ new.cached = was.cached /\ new.at = was.at
          /\ new.processed = was.processed /\ new.tracked = was.tracked /\ new.todo = left.todo
      BY <1>2, <2>1 DEF Launching
    <2>3. rows[g] = Launches!NoRow /\ \A h \in OfLaunches.Game : h # g => rows[h] = was.released[h]
      BY <1>1, <1>3
    <2> HIDE DEF new, rows
    <2>4. \A h \in OfLaunches.Game : AtWork(new, h) <=> AtWork(left, h)
      BY <1>2, <2>2 DEF AtWork
    <2>5. Excused(new, g, launched.released[g])
      BY <1>1, <1>2, <1>4, <2>2, <2>4 DEF Excused
    <2>6. ASSUME NEW h \in OfLaunches.Game PROVE GameSound(new, h, launched.released[h], made)
      <3>1. GameSound(left, h, launched.released[h], made)
        BY <1>2 DEF JobSound
      <3>2. Excused(left, h, launched.released[h]) => Excused(new, h, launched.released[h])
        BY <1>2, <2>2, <2>4 DEF Excused
      <3>3. CASE h = g
        BY <1>2, <2>2, <2>3, <2>5, <3>1, <3>3 DEF GameSound, Proven
      <3>4. CASE h # g
        BY <1>2, <2>2, <2>3, <3>1, <3>2, <3>4 DEF GameSound
      <3> QED BY <3>3, <3>4
    <2>7. JobSound(new, launched.released, made)
      BY <1>2, <2>2, <2>6 DEF JobSound, CandidateSound
    <2> QED BY <1>1, <1>4, <2>2, <2>7 DEF Launches!Counted, left, new
  <1>5. CASE m.count # Launches!Few /\ Launches!Retained(g)
    <2> DEFINE row == [was.released[g] EXCEPT !.count = m.count]
               rows == [was.released EXCEPT ![g] = row]
               new == [left EXCEPT !.released[g].count = m.count]
    <2>1. /\ was.released[g] \in Launches!Row /\ was.released[g] # Launches!NoRow /\ m.count \in Launches!Count
          /\ m.count > Launches!Few
      BY <1>1, <1>3, <1>5 DEF Launches!Retained, Launches!Measure, Launches!Count, Launches!Few
    <2>2. /\ row \in Launches!Row /\ row.source = was.released[g].source
          /\ row.start = was.released[g].start /\ row.qualified = was.released[g].qualified
          /\ row.count = m.count
      BY <2>1 DEF Launches!Row
    <2>2a. row # Launches!NoRow
      BY <2>1, <2>2 DEF Launches!NoRow, Launches!Few
    <2> HIDE DEF row
    <2>3. rows \in [OfLaunches.Game -> Launches!Row] /\ new = [left EXCEPT !.released = rows]
      BY <1>2, <1>3, <2>2 DEF row
    <2>4. /\ new \in Launching /\ new.released = rows /\ new.pc = "candidates"
          /\ new.checks = was.checks /\ new.cached = was.cached /\ new.at = was.at
          /\ new.processed = was.processed /\ new.tracked = was.tracked /\ new.todo = left.todo
      BY <1>2, <2>3 DEF Launching
    <2>5. rows[g] = row /\ \A h \in OfLaunches.Game : h # g => rows[h] = was.released[h]
      BY <1>1, <1>3
    <2> HIDE DEF new, rows
    <2>6. ASSUME NEW h \in OfLaunches.Game PROVE GameSound(new, h, launched.released[h], made)
      <3>1. GameSound(left, h, launched.released[h], made)
        BY <1>2 DEF JobSound
      <3>2. Excused(left, h, launched.released[h]) => Excused(new, h, launched.released[h])
        BY <1>2, <2>4 DEF Excused, AtWork
      <3>3. CASE h = g
        <4>1. Proven(g, row, made)
          BY <1>2, <2>1, <2>2, <3>1, <3>3 DEF GameSound, Proven
        <4>2. SameLaunch(was.released[g], launched.released[g]) => SameLaunch(row, launched.released[g])
          BY <2>1, <2>2, <2>2a DEF SameLaunch
        <4> QED BY <1>2, <2>4, <2>5, <3>1, <3>2, <3>3, <4>1, <4>2 DEF GameSound
      <3>4. CASE h # g
        BY <1>2, <2>4, <2>5, <3>1, <3>2, <3>4 DEF GameSound
      <3> QED BY <3>3, <3>4
    <2>7. JobSound(new, launched.released, made)
      BY <1>2, <2>4, <2>6 DEF JobSound, CandidateSound
    <2>8. Launches!Counted(was, m) = new
      BY <1>1, <1>5 DEF Launches!Counted, left, new
    <2> QED BY <2>4, <2>7, <2>8
  <1>6. CASE m.count # Launches!Few /\ ~Launches!Retained(g)
    <2> DEFINE new == [was EXCEPT !.pc = "admit", !.count = m]
    <2>1. /\ new \in Launching /\ new.pc = "admit" /\ new.count = m /\ new.game = g
          /\ new.released = was.released /\ new.checks = was.checks
          /\ new.cached = was.cached /\ new.at = was.at /\ new.processed = was.processed
          /\ new.tracked = was.tracked /\ new.todo = was.todo
      BY <1>1 DEF Launching
    <2> HIDE DEF new
    <2>2. ASSUME NEW h \in OfLaunches.Game PROVE GameSound(new, h, launched.released[h], made)
      <3>1. GameSound(was, h, launched.released[h], made)
        BY DEF JobSound
      <3>2. Excused(was, h, launched.released[h]) => Excused(new, h, launched.released[h])
        BY <1>1, <2>1 DEF Excused, AtWork
      <3> QED BY <2>1, <3>1, <3>2 DEF GameSound
    <2>3. JobSound(new, launched.released, made)
      BY <1>1, <1>6, <2>1, <2>2 DEF JobSound, CandidateSound, Launches!Retained
    <2>4. Launches!Counted(was, m) = new
      BY <1>6 DEF Launches!Counted, new
    <2> QED BY <2>1, <2>3, <2>4
  <1> QED BY <1>4, <1>5, <1>6

LEMMA ReuseKeeps == ASSUME LaunchInv, Launches!Reuse PROVE LaunchInv'
  <1> USE DEF LaunchInv
  <1>1. PICK m \in Launches!Usable(preparer.game) : preparer' = Launches!Counted(preparer, m)
    BY DEF Launches!Reuse
  <1>2. preparer.pc = "count" /\ Launches!Quiet /\ preparer \in Launching
    BY DEF Launches!Reuse, Launches!At, LaunchTypes
  <1>3. preparer.game \in OfLaunches.Game /\ GameSound(preparer, preparer.game, launched.released[preparer.game], counts)
    BY <1>2 DEF JobSound, CandidateSound
  <1>4. /\ m \in {preparer.cached[preparer.game], preparer.checks[preparer.game]} /\ m.at # 0
        /\ preparer.at - m.at < OfLaunches.DayLength
    BY <1>1 DEF Launches!Usable
  <1>5. m \in Launches!Measure /\ Backed(preparer.game, m, counts)
    BY <1>2, <1>3, <1>4 DEF GameSound, Launching
  <1>6. Launches!Counted(preparer, m) \in Launching /\ JobSound(Launches!Counted(preparer, m), launched.released, counts)
    BY <1>2, <1>4, <1>5, CountedSound
  <1> QED BY <1>1, <1>2, <1>6, QuietMoves

LEMMA AskKeeps == ASSUME LaunchInv, Launches!Ask PROVE LaunchInv'
  <1> USE DEF LaunchInv
  <1>1. /\ preparer.pc = "count" /\ preparer \in Launching /\ preparer.game \in OfLaunches.Game
        /\ UNCHANGED <<launched, preview, rounds, moment, store, cached, news>>
        /\ rounds \in 0..OfLaunches.MaxRuns /\ counts \subseteq LaunchCounts
    BY DEF Launches!Ask, Launches!At, LaunchTypes, Launches!Outside, JobSound, CandidateSound,
       Launches!TypeOK, LaunchCounts
  <1>2. CASE preparer' = Launches!Drop(preparer.game) /\ UNCHANGED counts
    <2>1. preparer' \in Launching /\ JobSound(preparer', launched.released, counts)
      BY <1>1, <1>2, DroppedSound DEF Launches!Drop
    <2> QED BY <1>1, <1>2, <2>1, JobMoves
  <1>3. ASSUME NEW n \in Launches!Count,
               preparer' = Launches!Counted([preparer EXCEPT !.checks[preparer.game] = [count |-> n, at |-> moment]],
                              [count |-> n, at |-> moment]),
               Launches!Made(preparer.game, n)
        PROVE  LaunchInv'
    <2> DEFINE m == [count |-> n, at |-> moment]
               g == preparer.game
               checks == [preparer.checks EXCEPT ![g] = m]
               was == [preparer EXCEPT !.checks[g] = m]
    <2>1. /\ counts \subseteq counts' /\ counts' \subseteq LaunchCounts
          /\ Backed(g, m, counts') /\ m \in Launches!Measure
      BY <1>1, <1>3, MadeIs
    <2>2. checks \in [OfLaunches.Game -> Launches!Measure] /\ was = [preparer EXCEPT !.checks = checks]
          /\ checks[g] = m /\ \A h \in OfLaunches.Game : h # g => checks[h] = preparer.checks[h]
      BY <1>1, <2>1 DEF Launching
    <2>3. m.count = n /\ m.at = moment
      OBVIOUS
    <2>4. m.at # 0 /\ preparer.at - m.at < OfLaunches.DayLength
      <3>1. preparer.at <= moment /\ preparer.at \in Nat /\ moment \in 1..OfLaunches.MaxClock
        BY <1>1 DEF JobSound, Launching, LaunchTypes, Launches!TypeOK
      <3> QED BY <2>3, <3>1, LaunchesGiven DEF Launches!LaunchAssumption
    <2> HIDE DEF m, checks
    <2>5. /\ was \in Launching /\ was.pc = "count" /\ was.checks = checks /\ was.game = g
          /\ was.released = preparer.released /\ was.cached = preparer.cached /\ was.at = preparer.at
          /\ was.processed = preparer.processed /\ was.tracked = preparer.tracked /\ was.todo = preparer.todo
      BY <1>1, <2>2 DEF Launching
    <2>6. preparer' = Launches!Counted(was, m)
      BY <1>3 DEF m
    <2> HIDE DEF was
    <2>7. ASSUME NEW h \in OfLaunches.Game PROVE GameSound(was, h, launched.released[h], counts')
      <3>1. JobSound(preparer, launched.released, counts')
        BY <2>1, SoundStays
      <3>2. GameSound(preparer, h, launched.released[h], counts')
        BY <1>1, <3>1 DEF JobSound
      <3>3. AtWork(was, h) <=> AtWork(preparer, h)
        BY <2>5, <1>1 DEF AtWork
      <3>4. h = g => AtWork(preparer, h)
        BY <1>1 DEF AtWork
      <3>5. Excused(preparer, h, launched.released[h]) => Excused(was, h, launched.released[h])
        BY <2>2, <2>5, <3>3, <3>4 DEF Excused
      <3>6. Backed(h, was.checks[h], counts')
        BY <2>1, <2>2, <2>5, <3>2 DEF GameSound
      <3> QED BY <1>1, <2>5, <3>2, <3>5, <3>6 DEF GameSound
    <2>8. JobSound(was, launched.released, counts')
      BY <1>1, <2>5, <2>7 DEF JobSound, CandidateSound
    <2>9. preparer' \in Launching /\ JobSound(preparer', launched.released, counts')
      BY <2>1, <2>2, <2>4, <2>5, <2>6, <2>8, CountedSound
    <2> QED BY <1>1, <2>1, <2>9, JobMoves
  <1> QED BY <1>2, <1>3 DEF Launches!Ask

LEMMA AdmitKeeps == ASSUME LaunchInv, Launches!Admit PROVE LaunchInv'
  <1> USE DEF LaunchInv
  <1> DEFINE g == preparer.game
             row == [source |-> "direct", start |-> store[g].day, count |-> preparer.count.count,
                     qualified |-> preparer.count.at]
             left == Launches!Dropped(preparer, g)
  <1>1. /\ preparer.pc = "admit" /\ preparer \in Launching /\ g \in OfLaunches.Game /\ Launches!Quiet
        /\ preparer.count.count # Launches!Few /\ Backed(g, preparer.count, counts) /\ preparer.released[g] = Launches!NoRow
        /\ preparer' = left \/ preparer' = [left EXCEPT !.released[g] = row]
    BY DEF Launches!Admit, Launches!At, LaunchTypes, JobSound, CandidateSound, Launches!Drop
  <1>2. /\ left \in Launching /\ JobSound(left, launched.released, counts)
        /\ ~AtWork(left, g) /\ left.pc = "candidates"
        /\ left.released = preparer.released /\ left.checks = preparer.checks
        /\ left.cached = preparer.cached /\ left.at = preparer.at
        /\ left.processed = preparer.processed /\ left.tracked = preparer.tracked
    BY <1>1, DroppedSound
  <1> HIDE DEF left
  <1>3. CASE preparer' = left
    BY <1>1, <1>2, <1>3, QuietMoves
  <1>4. CASE preparer' = [left EXCEPT !.released[g] = row]
    <2> DEFINE rows == [preparer.released EXCEPT ![g] = row]
    <2>1. row \in Launches!Row /\ row.source = "direct" /\ row.qualified = preparer.count.at
      BY <1>1 DEF Launching, Launches!Row, Launches!Measure, LaunchTypes, Launches!TypeOK
    <2>2. Proven(g, row, counts)
      <3>1. [game |-> g, count |-> preparer.count.count, day |-> Launches!Day(preparer.count.at)] \in counts
        BY <1>1 DEF Backed
      <3>2. preparer.count.count > Launches!Few
        BY <1>1 DEF Launching, Launches!Measure, Launches!Count, Launches!Few
      <3> HIDE DEF row
      <3> QED BY <2>1, <3>1, <3>2 DEF Proven
    <2> HIDE DEF row
    <2>3. rows \in [OfLaunches.Game -> Launches!Row] /\ preparer' = [left EXCEPT !.released = rows]
      BY <1>1, <1>2, <1>4, <2>1 DEF Launching
    <2>4. /\ preparer' \in Launching /\ preparer'.released = rows /\ preparer'.pc = "candidates"
          /\ preparer'.checks = preparer.checks /\ preparer'.cached = preparer.cached /\ preparer'.at = preparer.at
          /\ preparer'.processed = preparer.processed /\ preparer'.tracked = preparer.tracked
          /\ preparer'.todo = left.todo
      BY <1>2, <2>3 DEF Launching
    <2>5. rows[g] = row /\ \A h \in OfLaunches.Game : h # g => rows[h] = preparer.released[h]
      BY <1>1 DEF Launching
    <2> HIDE DEF rows
    <2>6. ASSUME NEW h \in OfLaunches.Game PROVE GameSound(preparer', h, launched.released[h], counts)
      <3>1. GameSound(left, h, launched.released[h], counts)
        BY <1>2 DEF JobSound
      <3>2. Excused(left, h, launched.released[h]) => Excused(preparer', h, launched.released[h])
        BY <1>2, <2>4 DEF Excused, AtWork
      <3>3. CASE h = g
        <4>1. launched.released[g] # Launches!NoRow => Excused(left, g, launched.released[g])
          BY <1>1, <1>2, <3>1, <3>3 DEF GameSound, SameLaunch
        <4> QED BY <1>2, <2>2, <2>4, <2>5, <3>1, <3>2, <3>3, <4>1 DEF GameSound
      <3>4. CASE h # g
        BY <1>2, <2>4, <2>5, <3>1, <3>2, <3>4 DEF GameSound
      <3> QED BY <3>3, <3>4
    <2>7. JobSound(preparer', launched.released, counts)
      BY <1>2, <2>4, <2>6 DEF JobSound, CandidateSound
    <2> QED BY <1>1, <2>4, <2>7, QuietMoves
  <1> QED BY <1>1, <1>3, <1>4

LEMMA ScanEndsKeeps == ASSUME LaunchInv, Launches!ScanEnds PROVE LaunchInv'
  <1> USE DEF LaunchInv
  <1>1. preparer.pc \in {"candidates", "count"} /\ preparer \in Launching /\ Launches!Quiet
    BY DEF Launches!ScanEnds, Launches!At, LaunchTypes
  <1>2. /\ preparer' \in Launching /\ preparer'.pc = "finish" /\ preparer'.todo = {}
        /\ preparer'.released = preparer.released /\ preparer'.checks = preparer.checks
        /\ preparer'.cached = preparer.cached /\ preparer'.at = preparer.at
        /\ preparer'.processed = preparer.processed /\ preparer'.tracked = preparer.tracked
    BY <1>1, NoneTypes DEF Launches!ScanEnds, Launches!Drop, Launches!Dropped, Launching
  <1>3. ASSUME NEW g \in OfLaunches.Game PROVE GameSound(preparer', g, launched.released[g], counts)
    <2>1. GameSound(preparer, g, launched.released[g], counts)
      BY <1>1 DEF JobSound
    <2>2. Excused(preparer, g, launched.released[g]) => Excused(preparer', g, launched.released[g])
      BY <1>2 DEF Excused, AtWork
    <2> QED BY <1>2, <2>1, <2>2 DEF GameSound
  <1>4. JobSound(preparer', launched.released, counts)
    BY <1>1, <1>2, <1>3 DEF JobSound, CandidateSound
  <1> QED BY <1>1, <1>2, <1>4, QuietMoves

LEMMA FinishKeeps == ASSUME LaunchInv, Launches!Finish PROVE LaunchInv'
  <1> USE DEF LaunchInv
  <1> DEFINE rows == Launches!Pruned(preparer.released, Launches!Day(preparer.at))
             checks == [g \in OfLaunches.Game |->
                         IF preparer.at - preparer.checks[g].at < OfLaunches.DayLength \/ preparer.released[g] # Launches!NoRow
                         THEN preparer.checks[g] ELSE Launches!NoCount]
  <1>1. /\ preparer.pc = "finish" /\ preparer \in Launching /\ Launches!Quiet
        /\ preparer' = [preparer EXCEPT !.pc = "save", !.released = rows, !.checks = checks]
    BY DEF Launches!Finish, Launches!At, LaunchTypes, Launches!today
  <1>2. /\ rows \in [OfLaunches.Game -> Launches!Row] /\ checks \in [OfLaunches.Game -> Launches!Measure]
        /\ \A g \in OfLaunches.Game : rows[g] = IF Launches!Recent(preparer.released[g], Launches!Day(preparer.at))
                                     THEN preparer.released[g] ELSE Launches!NoRow
        /\ \A g \in OfLaunches.Game : checks[g] = IF preparer.at - preparer.checks[g].at < OfLaunches.DayLength
                                          \/ preparer.released[g] # Launches!NoRow
                                       THEN preparer.checks[g] ELSE Launches!NoCount
    BY <1>1, NoneTypes DEF Launches!Pruned, Launching
  <1> HIDE DEF rows, checks
  <1>3. /\ preparer' \in Launching /\ preparer'.pc = "save" /\ preparer'.todo = preparer.todo
        /\ preparer'.released = rows /\ preparer'.checks = checks
        /\ preparer'.cached = preparer.cached /\ preparer'.at = preparer.at
        /\ preparer'.processed = preparer.processed /\ preparer'.tracked = preparer.tracked
    BY <1>1, <1>2 DEF Launching
  <1>4. ASSUME NEW g \in OfLaunches.Game PROVE GameSound(preparer', g, launched.released[g], counts)
    <2>1. GameSound(preparer, g, launched.released[g], counts)
      BY <1>1 DEF JobSound
    <2>2. Excused(preparer, g, launched.released[g]) => Excused(preparer', g, launched.released[g])
      BY <1>1, <1>2, <1>3 DEF Excused, AtWork
    <2>3. Backed(g, checks[g], counts)
      BY <1>2, <2>1, NoneTypes DEF GameSound, Backed
    <2>4. Proven(g, rows[g], counts) /\ (rows[g] # Launches!NoRow => Launches!Recent(rows[g], Launches!Day(preparer.at)))
      BY <1>2, <2>1 DEF GameSound, Proven
    <2>5. launched.released[g] # Launches!NoRow /\ SameLaunch(preparer.released[g], launched.released[g]) =>
            \/ SameLaunch(rows[g], launched.released[g])
            \/ Excused(preparer', g, launched.released[g])
      BY <1>2, <1>3 DEF SameLaunch, Launches!Recent, Excused, CommittedSound, OnlyAged
    <2> QED BY <1>3, <2>1, <2>2, <2>3, <2>4, <2>5 DEF GameSound
  <1>5. JobSound(preparer', launched.released, counts)
    BY <1>1, <1>3, <1>4 DEF JobSound, CandidateSound
  <1> QED BY <1>1, <1>3, <1>5, QuietMoves

LEMMA SaveKeeps == ASSUME LaunchInv, Launches!Save PROVE LaunchInv'
  <1> USE DEF LaunchInv
  <1>1. /\ preparer.pc = "save" /\ preparer \in Launching
        /\ UNCHANGED <<preview, counts, rounds, moment, store, cached, news>>
        /\ counts \subseteq LaunchCounts /\ rounds \in 0..OfLaunches.MaxRuns
    BY DEF Launches!Save, Launches!At, LaunchTypes, Launches!Outside, Launches!TypeOK, LaunchCounts
  <1>2. CASE preparer' = Launches!NoJob /\ UNCHANGED launched
    <2>1. JobSound(preparer', launched.released, counts')
      BY <1>2, NoPreparer DEF JobSound
    <2> QED BY <1>1, <1>2, <2>1, NoPreparer, JobMoves
  <1>3. CASE /\ launched' = [released |-> preparer.released, checks |-> preparer.checks]
             /\ preparer' \in {[preparer EXCEPT !.pc = "publish"], Launches!NoJob}
    <2>1. /\ launched' \in [released : [OfLaunches.Game -> Launches!Row], checks : [OfLaunches.Game -> Launches!Measure]]
          /\ launched'.released = preparer.released /\ launched'.checks = preparer.checks
      BY <1>1, <1>3 DEF Launching
    <2>2. \A g \in OfLaunches.Game : GameSound(preparer, g, launched.released[g], counts)
      BY <1>1 DEF JobSound
    <2>3. \A g \in OfLaunches.Game : preparer.released[g] # Launches!NoRow => Launches!Recent(preparer.released[g], Launches!Day(preparer.at))
      BY <1>1, <2>2 DEF GameSound
    <2>4. CommittedSound'
      BY <1>1, <2>1, <2>2, <2>3 DEF CommittedSound, GameSound, Launches!Recent, OnlyAged
    <2>5. preparer' \in Launching /\ LaunchTypes'
      <3>1. preparer' \in Launching
        BY <1>1, <1>3, NoPreparer DEF Launching
      <3> QED BY <1>1, <2>1, <3>1 DEF LaunchTypes, Launches!TypeOK, Launching
    <2>6. JobSound(preparer', launched'.released, counts)
      <3>1. CASE preparer' = Launches!NoJob
        BY <3>1, NoPreparer DEF JobSound
      <3>2. CASE preparer' = [preparer EXCEPT !.pc = "publish"]
        <4>1. /\ preparer'.pc = "publish" /\ preparer'.released = preparer.released
              /\ preparer'.checks = preparer.checks /\ preparer'.cached = preparer.cached /\ preparer'.at = preparer.at
              /\ preparer'.tracked = preparer.tracked
          BY <1>1, <3>2 DEF Launching
        <4>2. ASSUME NEW g \in OfLaunches.Game PROVE GameSound(preparer', g, launched'.released[g], counts)
          <5>1. preparer.released[g] # Launches!NoRow => SameLaunch(preparer.released[g], preparer.released[g])
            BY <2>3 DEF Launches!Recent, SameLaunch
          <5> QED BY <1>1, <2>1, <2>2, <4>1, <5>1 DEF GameSound
        <4> QED BY <1>1, <4>1, <4>2 DEF JobSound, CandidateSound
      <3> QED BY <1>3, <3>1, <3>2
    <2>7. JobSound(preparer, launched.released, counts)'
      BY <1>1, <2>6 DEF JobSound
    <2> QED BY <2>4, <2>5, <2>7
  <1> QED BY <1>2, <1>3 DEF Launches!Save

LEMMA PublishKeeps == ASSUME LaunchInv, Launches!Publish PROVE LaunchInv'
  <1> USE DEF LaunchInv
  <1> DEFINE displayed == [upcoming |-> preparer.upcoming, recent |-> preparer.released, day |-> Launches!Day(preparer.at)]
  <1>1. /\ preparer.pc = "publish" /\ preparer \in Launching /\ preparer' = Launches!NoJob
        /\ preview' \in {preview, displayed}
        /\ UNCHANGED <<launched, counts, rounds, moment, store, cached, news>>
    BY DEF Launches!Publish, Launches!At, LaunchTypes, Launches!Outside, Launches!today
  <1>2. /\ displayed \in [upcoming : SUBSET OfLaunches.Game, recent : [OfLaunches.Game -> Launches!Row], day : Launches!Date]
        /\ displayed.recent = preparer.released /\ displayed.day = Launches!Day(preparer.at)
    BY <1>1, DayType DEF Launching
  <1>3. \A g \in OfLaunches.Game : /\ Proven(g, displayed.recent[g], counts)
                                   /\ displayed.recent[g] # Launches!NoRow => Launches!Recent(displayed.recent[g], displayed.day)
    BY <1>1, <1>2 DEF JobSound, GameSound
  <1> HIDE DEF displayed
  <1>4. CommittedSound'
    BY <1>1, <1>3 DEF CommittedSound
  <1>5. LaunchTypes'
    BY <1>1, <1>2, NoPreparer DEF LaunchTypes, Launches!TypeOK, Launching
  <1>6. JobSound(preparer, launched.released, counts)'
    BY <1>1, NoPreparer DEF JobSound
  <1> QED BY <1>4, <1>5, <1>6

LEMMA LaunchesKeep == LaunchInv /\ [Launches!Next]_(Launches!vars) => LaunchInv'
  <1> SUFFICES ASSUME LaunchInv, [Launches!Next]_(Launches!vars) PROVE LaunchInv'
    OBVIOUS
  <1>1. CASE UNCHANGED Launches!vars
    BY <1>1 DEF Launches!vars, LaunchInv, LaunchTypes, Launches!TypeOK, CommittedSound, JobSound
  <1> QED BY <1>1, LaunchWorldKeeps, LaunchRunStarts, TrackedKeeps, SearchKeeps, CandidateKeeps,
             ReuseKeeps, AskKeeps, AdmitKeeps, ScanEndsKeeps, FinishKeeps, SaveKeeps,
             PublishKeeps DEF Launches!Next

LEMMA LaunchInvAlways == Launches!Spec => []LaunchInv
  BY LaunchesStart, LaunchesKeep, PTL DEF Launches!Spec

(* Types. *)
THEOREM LaunchTypeCorrect == Launches!Spec => []Launches!TypeOK
  <1>1. LaunchInv => Launches!TypeOK
    BY DEF LaunchInv, LaunchTypes
  <1> QED BY <1>1, LaunchInvAlways, PTL

THEOREM RecentAlways == Launches!Spec => []Launches!RecentIsProven
  <1>1. LaunchInv => Launches!RecentIsProven
    <2> SUFFICES ASSUME LaunchInv, NEW g \in OfLaunches.Game, preview.recent[g] # Launches!NoRow
                 PROVE  LET row == preview.recent[g]
                        IN /\ Launches!InMonth(row.start, preview.day)
                           /\ \E c \in counts :
                                /\ c.game = g
                                /\ IF row.source = "direct"
                                   THEN c.count > Launches!Few /\ Launches!InFirstWeek(row.start, c.day)
                                   ELSE c.count = Launches!Many
      BY DEF Launches!RecentIsProven
    <2>1. /\ Proven(g, preview.recent[g], counts) /\ Launches!Recent(preview.recent[g], preview.day)
      BY DEF LaunchInv, CommittedSound
    <2> QED BY <2>1 DEF Proven, Launches!Recent, Followed
  <1> QED BY <1>1, LaunchInvAlways, PTL

LEMMA LaunchesStay == LaunchInv /\ [Launches!Next]_(Launches!vars) => Launches!KeepsLaunches
  <1> SUFFICES ASSUME LaunchInv, [Launches!Next]_(Launches!vars), NEW g \in OfLaunches.Game,
                      launched.released[g] # Launches!NoRow, launched'.released[g] = Launches!NoRow
               PROVE  \/ ~Launches!InMonth(launched.released[g].start, Launches!today)
                      \/ preparer.checks[g].count = Launches!Few /\ preparer.checks[g].at # 0
                      \/ preparer.cached[g].count = Launches!Few /\ preparer.cached[g].at # 0
                      \/ g \in preparer.processed
    BY DEF Launches!KeepsLaunches
  <1>1. launched' # launched
    OBVIOUS
  <1>2. Launches!Save
    BY <1>1 DEF Launches!Next, Launches!vars, Launches!Tick, Launches!StoreChanges,
       Launches!CheckpointChanges, Launches!News, Launches!Start, Launches!Tracked, Launches!Search,
                Launches!Candidate, Launches!Reuse, Launches!Ask, Launches!Admit, Launches!ScanEnds, Launches!Finish, Launches!Publish, Launches!Quiet, Launches!Outside
  <1>3. launched'.released = preparer.released /\ preparer.pc = "save"
    BY <1>1, <1>2 DEF Launches!Save, Launches!At
  <1>4. GameSound(preparer, g, launched.released[g], counts)
    BY <1>3 DEF LaunchInv, JobSound
  <1> QED BY <1>3, <1>4 DEF GameSound, SameLaunch, Excused, Launches!today

THEOREM LaunchesAlways == Launches!Spec => [][Launches!KeepsLaunches]_(Launches!vars)
  BY LaunchesStay, LaunchInvAlways, PTL DEF Launches!Spec

--------------------------------------------------------------------------------
(* OwnedPublication *)

(***************************************************************************)
(* The shared branch for any publishers, files, scopes and bounds.          *)
(*                                                                         *)
(* The argument: what a publisher pushes, now or late, is its batch merged  *)
(* into the tree it was fetched with, because staging refuses everything    *)
(* else (Staging); and the branch accepts only a push whose base still is   *)
(* the newest commit (Receiving).  So no commit takes a batch out again     *)
(* (GoodLog), and a receipt stays true.                                     *)
(***************************************************************************)

Commit == [by : Files!Batch, tree : Files!Tree]
Checkout ==
  [pc : {"idle", "refresh", "apply", "stage", "push", "done", "failed"},
   attempt : 0..OfOwned.MaxAttempts, base : Nat, refreshed : Files!Tree, head : Files!Tree, index : Files!Tree,
   work : Files!Tree, baseline : Files!Tree]

(* A checkout of p, a push and a receipt of p, and the branch, as far as the
   properties rest on them; l is the branch. *)
GoodCheckout(p, c, l) ==
  /\ c \in Checkout /\ c.base \in 1..Len(l)
  /\ c.pc \in {"apply", "stage", "push"} => c.refreshed = l[c.base].tree
  /\ c.pc = "apply" => \A x \in OfOwned.Scope[p] : c.work[x] = c.refreshed[x]
  /\ c.pc = "stage" => \A x \in OfOwned.Scope[p] : c.work[x] = c.refreshed[x] \cup {p}
  /\ c.pc = "push" => c.head = Files!Merged(p, c.refreshed)

GoodPush(push, l) ==
  /\ push \in [by : OfOwned.Publisher, base : 1..Len(l), tree : Files!Tree]
  /\ push.tree = Files!Merged(push.by, l[push.base].tree)

GoodReceipt(p, r, l) ==
  /\ r.revision \in 0..Len(l)
  /\ r # Files!NoReceipt =>
       /\ r.revision >= 1 /\ r.tree = Files!Restrict(l[r.revision].tree, OfOwned.Scope[p])
       /\ \A i \in r.revision..Len(l), x \in OfOwned.Scope[p] : p \in l[i].tree[x]

GoodLog(l) ==
  /\ l \in Seq(Commit) /\ Len(l) >= 1
  /\ \A i \in 2..Len(l) : l[i].by \in OfOwned.Publisher => l[i].tree = Files!Merged(l[i].by, l[i - 1].tree)

Types ==
  /\ trees \in [OfOwned.Publisher -> Checkout]
  /\ vouchers = [p \in OfOwned.Publisher |-> vouchers[p]]
  /\ neighbours \in 0..OfOwned.MaxOther /\ accidents \in 0..OfOwned.MaxTrouble

IInv ==
  /\ Types /\ GoodLog(mainline)
  /\ \A p \in OfOwned.Publisher : GoodCheckout(p, trees[p], mainline) /\ GoodReceipt(p, vouchers[p], mainline)
  /\ \A push \in late : GoodPush(push, mainline)
--------------------------------------------------------------------------------
(* Trees *)

LEMMA MergedIs ==
  ASSUME Files!PublicationAssumption, NEW p \in OfOwned.Publisher, NEW tree \in Files!Tree
  PROVE  /\ Files!Merged(p, tree) \in Files!Tree /\ Files!Differ(tree, Files!Merged(p, tree)) \subseteq OfOwned.Scope[p]
         /\ \A x \in OfOwned.Path : tree[x] \subseteq Files!Merged(p, tree)[x]
         /\ \A x \in OfOwned.Scope[p] : p \in Files!Merged(p, tree)[x]
  BY DEF Files!Merged, Files!Tree, Files!Batch, Files!Differ, Files!PublicationAssumption

LEMMA FileChanged ==
  ASSUME NEW tree \in Files!Tree, NEW x \in OfOwned.Path, NEW file \in SUBSET Files!Batch
  PROVE  /\ [tree EXCEPT ![x] = file] \in Files!Tree
         /\ \A y \in OfOwned.Path : y # x => [tree EXCEPT ![x] = file][y] = tree[y]
         /\ [tree EXCEPT ![x] = file][x] = file
  BY DEF Files!Tree

(* What staging lets through is the batch, merged into the tree of the refresh. *)
LEMMA Staging ==
  ASSUME Files!PublicationAssumption, NEW p \in OfOwned.Publisher, NEW c \in Checkout, Files!InScope(p, c),
         \A x \in OfOwned.Scope[p] : c.work[x] = c.refreshed[x] \cup {p}
  PROVE  Files!Staged(p, c) \in Files!Tree /\ Files!Staged(p, c) = Files!Merged(p, c.refreshed)
  <1>1. /\ c.head \in Files!Tree /\ c.refreshed \in Files!Tree /\ c.index \in Files!Tree /\ c.work \in Files!Tree
        /\ OfOwned.Scope[p] \subseteq OfOwned.Path
    BY DEF Checkout, Files!PublicationAssumption
  <1>2. \A x \in OfOwned.Path \ OfOwned.Scope[p] : c.index[x] = c.refreshed[x]
    BY DEF Files!InScope, Files!Differ, Files!Changed
  <1>3. \A x \in OfOwned.Path : (IF x \in OfOwned.Scope[p] THEN c.work[x] ELSE c.index[x])
                          = (IF x \in OfOwned.Scope[p] THEN c.refreshed[x] \cup {p} ELSE c.refreshed[x])
    BY <1>2
  <1>4. Files!Staged(p, c) = Files!Merged(p, c.refreshed)
    BY <1>3 DEF Files!Staged, Files!Merged
  <1> QED BY <1>1, <1>4, MergedIs
--------------------------------------------------------------------------------
(* The branch grows *)

LEMMA Appending ==
  ASSUME Files!PublicationAssumption, NEW l, GoodLog(l), NEW n \in Commit,
         n.by \in OfOwned.Publisher => n.tree = Files!Merged(n.by, l[Len(l)].tree),
         \A x \in OfOwned.Path : l[Len(l)].tree[x] \subseteq n.tree[x]
  PROVE  LET k == Append(l, n) IN
         /\ GoodLog(k) /\ Len(k) = Len(l) + 1 /\ k[Len(k)] = n
         /\ \A p \in OfOwned.Publisher : \A c : GoodCheckout(p, c, l) => GoodCheckout(p, c, k)
         /\ \A p \in OfOwned.Publisher : \A r : GoodReceipt(p, r, l) => GoodReceipt(p, r, k)
         /\ \A push : GoodPush(push, l) => GoodPush(push, k)
  <1> DEFINE k == Append(l, n)
  <1>1. /\ k \in Seq(Commit) /\ Len(k) = Len(l) + 1 /\ k[Len(k)] = n /\ Len(l) \in Nat \ {0}
        /\ \A i \in 1..Len(l) : k[i] = l[i]
    BY DEF GoodLog
  <1> HIDE DEF k
  <1>2. GoodLog(k)
    <2> SUFFICES ASSUME NEW i \in 2..Len(k), k[i].by \in OfOwned.Publisher
                 PROVE  k[i].tree = Files!Merged(k[i].by, k[i - 1].tree)
      BY <1>1 DEF GoodLog
    <2>1. CASE i = Len(k)
      BY <1>1, <2>1
    <2>2. CASE i # Len(k)
      <3>1. i \in 2..Len(l) /\ i - 1 \in 1..Len(l)
        BY <1>1, <2>2
      <3> QED BY <1>1, <3>1 DEF GoodLog
    <2> QED BY <2>1, <2>2
  <1>3. ASSUME NEW p \in OfOwned.Publisher, NEW c, GoodCheckout(p, c, l) PROVE GoodCheckout(p, c, k)
    BY <1>1, <1>3 DEF GoodCheckout
  <1>4. ASSUME NEW p \in OfOwned.Publisher, NEW r, GoodReceipt(p, r, l) PROVE GoodReceipt(p, r, k)
    <2> SUFFICES ASSUME r # Files!NoReceipt, NEW i \in r.revision..Len(k), NEW x \in OfOwned.Scope[p]
                 PROVE  p \in k[i].tree[x]
      BY <1>1, <1>4 DEF GoodReceipt
    <2>1. r.revision \in 1..Len(l) /\ \A j \in r.revision..Len(l) : p \in l[j].tree[x]
      BY <1>1, <1>4 DEF GoodReceipt
    <2>2. CASE i = Len(k)
      <3>1. p \in l[Len(l)].tree[x] /\ x \in OfOwned.Path
        BY <1>1, <2>1 DEF Files!PublicationAssumption
      <3> QED BY <1>1, <2>2, <3>1
    <2>3. CASE i # Len(k)
      <3>1. i \in r.revision..Len(l) /\ i \in 1..Len(l)
        BY <1>1, <2>1, <2>3
      <3> QED BY <1>1, <2>1, <3>1
    <2> QED BY <2>2, <2>3
  <1>5. ASSUME NEW push, GoodPush(push, l) PROVE GoodPush(push, k)
    BY <1>1, <1>5 DEF GoodPush
  <1> QED BY <1>1, <1>2, <1>3, <1>4, <1>5 DEF k

(* A push whose base is the newest commit is received, if it changes anything. *)
LEMMA Receiving ==
  ASSUME Files!PublicationAssumption, IInv, NEW push, GoodPush(push, mainline), push.base = Files!Newest
  PROVE  LET k == Files!Received(push) IN
         /\ GoodLog(k) /\ Len(k) \in Nat \ {0} /\ k[Len(k)].tree = push.tree
         /\ \A p \in OfOwned.Publisher : \A c : GoodCheckout(p, c, mainline) => GoodCheckout(p, c, k)
         /\ \A p \in OfOwned.Publisher : \A r : GoodReceipt(p, r, mainline) => GoodReceipt(p, r, k)
         /\ \A q : GoodPush(q, mainline) => GoodPush(q, k)
  <1>1. GoodLog(mainline) /\ mainline \in Seq(Commit) /\ Len(mainline) \in Nat \ {0} /\ mainline[Files!Newest].tree \in Files!Tree
    <2>1. GoodLog(mainline) /\ mainline \in Seq(Commit) /\ Len(mainline) \in Nat \ {0}
      BY DEF IInv, GoodLog
    <2>2. mainline[Files!Newest] \in Commit
      BY <2>1 DEF Files!Newest
    <2> QED BY <2>1, <2>2 DEF Commit
  <1>2. CASE push.tree = mainline[push.base].tree
    BY <1>1, <1>2 DEF Files!Received, Files!Newest
  <1>3. CASE push.tree # mainline[push.base].tree
    <2> DEFINE n == [by |-> push.by, tree |-> push.tree]
    <2>1. n \in Commit /\ n.by = push.by /\ n.tree = push.tree /\ n.by \in OfOwned.Publisher
      BY DEF GoodPush, Commit, Files!Batch
    <2>2. n.tree = Files!Merged(n.by, mainline[Len(mainline)].tree)
      BY <2>1 DEF GoodPush, Files!Newest
    <2>3. \A x \in OfOwned.Path : mainline[Len(mainline)].tree[x] \subseteq n.tree[x]
      BY <1>1, <2>1, <2>2, MergedIs DEF Files!Newest
    <2>4. Files!Received(push) = Append(mainline, n)
      BY <1>3 DEF Files!Received
    <2> HIDE DEF n
    <2> QED BY <1>1, <2>1, <2>2, <2>3, <2>4, Appending
  <1> QED BY <1>2, <1>3
--------------------------------------------------------------------------------
(* Steps of one publisher *)

LEMMA CheckoutIs ==
  ASSUME IInv, NEW p \in OfOwned.Publisher
  PROVE  /\ trees \in [OfOwned.Publisher -> Checkout] /\ trees[p] \in Checkout
         /\ GoodCheckout(p, trees[p], mainline) /\ GoodLog(mainline)
         /\ mainline \in Seq(Commit) /\ Files!Newest \in Nat \ {0} /\ mainline[Files!Newest] \in Commit
         /\ mainline[Files!Newest].tree \in Files!Tree
  <1>1. mainline \in Seq(Commit) /\ Files!Newest \in Nat \ {0}
    BY DEF IInv, GoodLog, Files!Newest
  <1>2. mainline[Files!Newest] \in Commit
    BY <1>1 DEF Files!Newest
  <1> QED BY <1>1, <1>2 DEF IInv, Types, Commit

(* A step of one publisher in its checkout. *)
LEMMA CheckoutKeeps ==
  ASSUME IInv, NEW p \in OfOwned.Publisher, NEW c, GoodCheckout(p, c, mainline), Files!Becomes(p, c),
         UNCHANGED <<mainline, vouchers, neighbours>>, accidents' \in 0..OfOwned.MaxTrouble,
         \A push \in late' : GoodPush(push, mainline)
  PROVE  IInv'
  <1>1. trees' = [trees EXCEPT ![p] = c] /\ c \in Checkout
    BY DEF Files!Becomes, GoodCheckout
  <1>2. Types'
    BY <1>1 DEF IInv, Types
  <1>3. \A q \in OfOwned.Publisher : GoodCheckout(q, trees'[q], mainline)
    BY <1>1 DEF IInv, Types
  <1> QED BY <1>2, <1>3 DEF IInv

LEMMA TroubleIs ==
  ASSUME Files!PublicationAssumption, IInv, Files!Trouble \/ Files!Calm
  PROVE  accidents' \in 0..OfOwned.MaxTrouble
  BY DEF IInv, Types, Files!Trouble, Files!Calm, Files!PublicationAssumption

LEMMA GoesKeeps ==
  ASSUME Files!PublicationAssumption, IInv, NEW p \in OfOwned.Publisher,
         NEW pc \in {"idle", "refresh", "done", "failed"}, Files!Goes(p, pc), Files!Trouble \/ Files!Calm,
         UNCHANGED <<mainline, vouchers, neighbours>>, \A push \in late' : GoodPush(push, mainline)
  PROVE  IInv'
  <1> DEFINE c == [trees[p] EXCEPT !.pc = pc]
  <1>1. GoodCheckout(p, c, mainline)
    BY CheckoutIs DEF GoodCheckout, Checkout
  <1>2. Files!Becomes(p, c) /\ accidents' \in 0..OfOwned.MaxTrouble
    BY TroubleIs DEF Files!Goes
  <1> HIDE DEF c
  <1> QED BY <1>1, <1>2, CheckoutKeeps

LEMMA LeftKeeps ==
  ASSUME Files!PublicationAssumption, IInv, NEW p \in OfOwned.Publisher, NEW x \in OfOwned.Path, Files!Left(p, x)
  PROVE  IInv'
  <1> DEFINE work == [trees[p].work EXCEPT ![x] = @ \cup {"mistake"}]
             c == [trees[p] EXCEPT !.work = work]
  <1>1. trees[p] \in Checkout /\ trees[p].pc = "idle" /\ trees[p].work \in Files!Tree
    BY CheckoutIs DEF Files!Left, Files!At, Checkout
  <1>2. work \in Files!Tree
    BY <1>1 DEF Files!Tree, Files!Batch
  <1>3. Files!Becomes(p, c)
    BY DEF Files!Left
  <1> HIDE DEF work
  <1>4. GoodCheckout(p, c, mainline)
    BY <1>1, <1>2, CheckoutIs DEF GoodCheckout, Checkout
  <1> HIDE DEF c
  <1> QED BY <1>3, <1>4, TroubleIs, CheckoutKeeps DEF Files!Left, Files!Local, IInv

LEMMA BeginKeeps ==
  ASSUME Files!PublicationAssumption, IInv, NEW p \in OfOwned.Publisher, Files!Begin(p)
  PROVE  IInv'
  <1> DEFINE c == [trees[p] EXCEPT !.pc = "refresh", !.attempt = 1]
  <1>1. GoodCheckout(p, c, mainline)
    <2>1. 1 \in 0..OfOwned.MaxAttempts
      BY DEF Files!PublicationAssumption
    <2>2. c \in Checkout /\ c.pc = "refresh" /\ c.base = trees[p].base
      BY <2>1, CheckoutIs DEF Checkout
    <2> QED BY <2>2, CheckoutIs DEF GoodCheckout
  <1>2. Files!Becomes(p, c)
    BY DEF Files!Begin
  <1> HIDE DEF c
  <1> QED BY <1>1, <1>2, TroubleIs, CheckoutKeeps DEF Files!Begin, Files!Local, IInv

LEMMA RefreshKeeps ==
  ASSUME Files!PublicationAssumption, IInv, NEW p \in OfOwned.Publisher, Files!Refresh(p)
  PROVE  IInv'
  <1> DEFINE old == trees[p]
             tree == mainline[Files!Newest].tree
             held == Files!Untracked(old) \ OfOwned.Scope[p]
             work == [x \in OfOwned.Path |-> IF x \in held THEN old.work[x] ELSE tree[x]]
             baseline == [x \in OfOwned.Path |-> IF x \in held THEN old.work[x] ELSE {}]
             c == [old EXCEPT !.pc = "apply", !.base = Files!Newest, !.refreshed = tree, !.head = tree,
                              !.index = tree, !.work = work, !.baseline = baseline]
  <1>1. /\ old \in Checkout /\ tree \in Files!Tree /\ old.work \in Files!Tree /\ Files!Newest \in 1..Len(mainline) \cap Nat
        /\ OfOwned.Scope[p] \subseteq OfOwned.Path
    BY CheckoutIs DEF Checkout, Files!Newest, Files!PublicationAssumption
  <1>2. /\ work \in Files!Tree /\ baseline \in Files!Tree
        /\ \A x \in OfOwned.Scope[p] : work[x] = tree[x]
    BY <1>1 DEF Files!Tree
  <1>3. Files!Becomes(p, c) \/ Files!Goes(p, "failed")
    BY DEF Files!Refresh
  <1>4. tree = mainline[Files!Newest].tree
    OBVIOUS
  <1> HIDE DEF work, baseline, tree
  <1>5. /\ c \in Checkout /\ c.pc = "apply" /\ c.base = Files!Newest /\ c.refreshed = tree
        /\ c.work = work
    BY <1>1, <1>2 DEF Checkout
  <1> HIDE DEF c
  <1>6. GoodCheckout(p, c, mainline)
    BY <1>1, <1>2, <1>4, <1>5 DEF GoodCheckout
  <1> QED BY <1>3, <1>6, TroubleIs, CheckoutKeeps, GoesKeeps DEF Files!Refresh, Files!Local, IInv

(* One file of the work tree or of the index, or the same file everywhere. *)
Same(c, d) == d.pc = c.pc /\ d.base = c.base /\ d.refreshed = c.refreshed

LEMMA MistakeIs ==
  /\ {} \in SUBSET Files!Batch /\ {"mistake"} \in SUBSET Files!Batch
  BY DEF Files!Batch

LEMMA WorkChanged ==
  ASSUME NEW c \in Checkout, NEW x \in OfOwned.Path, NEW file \in SUBSET Files!Batch
  PROVE  LET d == [c EXCEPT !.work[x] = file] IN
         d \in Checkout /\ Same(c, d) /\ d.work = [c.work EXCEPT ![x] = file]
  <1> DEFINE w == [c.work EXCEPT ![x] = file]
  <1>1. w \in Files!Tree
    BY FileChanged DEF Checkout
  <1>2. [c EXCEPT !.work[x] = file] = [c EXCEPT !.work = w]
    OBVIOUS
  <1> HIDE DEF w
  <1>3. /\ [c EXCEPT !.work = w] \in Checkout /\ Same(c, [c EXCEPT !.work = w])
        /\ [c EXCEPT !.work = w].work = w
    BY <1>1 DEF Checkout, Same
  <1> QED BY <1>2, <1>3 DEF w

LEMMA IndexChanged ==
  ASSUME NEW c \in Checkout, NEW x \in OfOwned.Path, NEW file \in SUBSET Files!Batch
  PROVE  LET d == [c EXCEPT !.index[x] = file] IN
         d \in Checkout /\ Same(c, d) /\ d.work = c.work
  <1> DEFINE w == [c.index EXCEPT ![x] = file]
  <1>1. w \in Files!Tree
    BY FileChanged DEF Checkout
  <1>2. [c EXCEPT !.index[x] = file] = [c EXCEPT !.index = w]
    OBVIOUS
  <1> HIDE DEF w
  <1>3. /\ [c EXCEPT !.index = w] \in Checkout /\ Same(c, [c EXCEPT !.index = w])
        /\ [c EXCEPT !.index = w].work = c.work
    BY <1>1 DEF Checkout, Same
  <1> QED BY <1>2, <1>3

Everywhere(c, x, file) == [c EXCEPT !.head[x] = file, !.index[x] = file, !.work[x] = file]
LEMMA HeadChanged ==
  ASSUME NEW c \in Checkout, NEW x \in OfOwned.Path, NEW file \in SUBSET Files!Batch
  PROVE  LET d == Everywhere(c, x, file) IN
         d \in Checkout /\ Same(c, d) /\ d.work = [c.work EXCEPT ![x] = file]
  <1> DEFINE h == [c.head EXCEPT ![x] = file]
             i == [c.index EXCEPT ![x] = file]
             w == [c.work EXCEPT ![x] = file]
  <1>1. h \in Files!Tree /\ i \in Files!Tree /\ w \in Files!Tree
    BY FileChanged DEF Checkout
  <1>2. Everywhere(c, x, file) = [c EXCEPT !.head = h, !.index = i, !.work = w]
    BY DEF Checkout, Everywhere
  <1> HIDE DEF h, i, w
  <1>3. LET d == [c EXCEPT !.head = h, !.index = i, !.work = w] IN
        d \in Checkout /\ Same(c, d) /\ d.work = w
    BY <1>1 DEF Checkout, Same
  <1> QED BY <1>2, <1>3 DEF w

LEMMA ApplyKeeps ==
  ASSUME Files!PublicationAssumption, IInv, NEW p \in OfOwned.Publisher, Files!Apply(p)
  PROVE  IInv'
  <1> DEFINE old == trees[p]
             work == Files!Merged(p, old.work)
             c == [old EXCEPT !.pc = "stage", !.work = work]
  <1>1. /\ old \in Checkout /\ old.pc = "apply" /\ old.work \in Files!Tree
        /\ OfOwned.Scope[p] \subseteq OfOwned.Path
        /\ old.base \in 1..Len(mainline) /\ old.refreshed = mainline[old.base].tree
        /\ \A x \in OfOwned.Scope[p] : old.work[x] = old.refreshed[x]
    BY CheckoutIs DEF Files!Apply, Files!At, GoodCheckout, Checkout, Files!PublicationAssumption
  <1>2. work \in Files!Tree /\ \A x \in OfOwned.Scope[p] : work[x] = old.refreshed[x] \cup {p}
    BY <1>1, MergedIs DEF Files!Merged
  <1>3. \/ Files!Becomes(p, c)
        \/ \E x \in OfOwned.Path \ OfOwned.Scope[p], file \in {{}, {"mistake"}} :
             Files!Becomes(p, [c EXCEPT !.work[x] = file])
        \/ \E x \in OfOwned.Path \ OfOwned.Scope[p] : Files!Becomes(p, [c EXCEPT !.index[x] = {"mistake"}])
        \/ \E x \in OfOwned.Path \ OfOwned.Scope[p] :
             Files!Becomes(p, Everywhere(c, x, {"mistake"}))
    BY DEF Files!Apply, Everywhere
  <1> HIDE DEF work
  <1>4. /\ c \in Checkout /\ c.pc = "stage" /\ c.base = old.base
        /\ c.refreshed = old.refreshed /\ c.work = work
    BY <1>1, <1>2 DEF Checkout
  <1> HIDE DEF c
  <1>5. ASSUME NEW d \in Checkout, Same(c, d), \A x \in OfOwned.Scope[p] : d.work[x] = work[x]
        PROVE  GoodCheckout(p, d, mainline)
    BY <1>1, <1>2, <1>4, <1>5 DEF GoodCheckout, Same
  <1>6. \A x \in OfOwned.Path \ OfOwned.Scope[p] : \A file : \A y \in OfOwned.Scope[p] : [work EXCEPT ![x] = file][y] = work[y]
    BY <1>1, <1>2 DEF Files!Tree
  <1>7. \E d : Files!Becomes(p, d) /\ GoodCheckout(p, d, mainline)
    <2>1. CASE Files!Becomes(p, c)
      BY <1>4, <1>5, <2>1 DEF Same
    <2>2. ASSUME NEW x \in OfOwned.Path \ OfOwned.Scope[p], NEW file \in {{}, {"mistake"}},
                 Files!Becomes(p, [c EXCEPT !.work[x] = file])
          PROVE  \E d : Files!Becomes(p, d) /\ GoodCheckout(p, d, mainline)
      <3> DEFINE d == [c EXCEPT !.work[x] = file]
      <3>1. d \in Checkout /\ Same(c, d) /\ d.work = [work EXCEPT ![x] = file]
        BY <1>4, WorkChanged, MistakeIs
      <3> HIDE DEF d
      <3>2. \A y \in OfOwned.Scope[p] : d.work[y] = work[y]
        BY <1>6, <3>1
      <3>3. GoodCheckout(p, d, mainline)
        BY <1>5, <3>1, <3>2
      <3> QED BY <2>2, <3>3 DEF d
    <2>3. ASSUME NEW x \in OfOwned.Path \ OfOwned.Scope[p], Files!Becomes(p, [c EXCEPT !.index[x] = {"mistake"}])
          PROVE  \E d : Files!Becomes(p, d) /\ GoodCheckout(p, d, mainline)
      <3> DEFINE d == [c EXCEPT !.index[x] = {"mistake"}]
      <3>1. d \in Checkout /\ Same(c, d) /\ d.work = work
        BY <1>4, IndexChanged, MistakeIs
      <3> HIDE DEF d
      <3>2. GoodCheckout(p, d, mainline)
        BY <1>5, <3>1
      <3> QED BY <2>3, <3>2 DEF d
    <2>4. ASSUME NEW x \in OfOwned.Path \ OfOwned.Scope[p], Files!Becomes(p, Everywhere(c, x, {"mistake"}))
          PROVE  \E d : Files!Becomes(p, d) /\ GoodCheckout(p, d, mainline)
      <3> DEFINE d == Everywhere(c, x, {"mistake"})
      <3>1. d \in Checkout /\ Same(c, d) /\ d.work = [work EXCEPT ![x] = {"mistake"}]
        BY <1>4, HeadChanged, MistakeIs
      <3> HIDE DEF d
      <3>2. \A y \in OfOwned.Scope[p] : d.work[y] = work[y]
        BY <1>6, <3>1
      <3>3. GoodCheckout(p, d, mainline)
        BY <1>5, <3>1, <3>2
      <3> QED BY <2>4, <3>3 DEF d
    <2> QED BY <1>3, <2>1, <2>2, <2>3, <2>4
  <1>8. (Files!Trouble \/ Files!Calm) /\ Files!Local
    BY DEF Files!Apply
  <1> QED BY <1>7, <1>8, TroubleIs, CheckoutKeeps DEF Files!Local, IInv

LEMMA StageCommitKeeps ==
  ASSUME Files!PublicationAssumption, IInv, NEW p \in OfOwned.Publisher, Files!StageCommit(p)
  PROVE  IInv'
  <1> DEFINE old == trees[p]
             staged == Files!Staged(p, old)
             c == [old EXCEPT !.pc = "push", !.index = staged, !.head = staged]
  <1>1. /\ old \in Checkout /\ old.base \in 1..Len(mainline) /\ old.refreshed = mainline[old.base].tree
        /\ \A x \in OfOwned.Scope[p] : old.work[x] = old.refreshed[x] \cup {p}
    BY CheckoutIs DEF Files!StageCommit, Files!At, GoodCheckout
  <1>2. \/ Files!InScope(p, old) /\ Files!Becomes(p, c)
        \/ Files!Goes(p, "failed")
    BY DEF Files!StageCommit
  <1>3. Files!Calm /\ Files!Local /\ UNCHANGED <<mainline, vouchers, neighbours>> /\ \A push \in late' : GoodPush(push, mainline)
    BY DEF Files!StageCommit, Files!Local, IInv
  <1>4. ASSUME Files!InScope(p, old) PROVE GoodCheckout(p, c, mainline)
    <2>1. staged \in Files!Tree /\ staged = Files!Merged(p, old.refreshed)
      BY <1>1, <1>4, Staging
    <2> HIDE DEF staged
    <2>2. /\ c \in Checkout /\ c.pc = "push" /\ c.base = old.base /\ c.refreshed = old.refreshed
          /\ c.head = staged
      BY <1>1, <2>1 DEF Checkout
    <2> HIDE DEF c
    <2> QED BY <1>1, <2>1, <2>2 DEF GoodCheckout
  <1> HIDE DEF c
  <1> QED BY <1>2, <1>3, <1>4, TroubleIs, CheckoutKeeps, GoesKeeps
--------------------------------------------------------------------------------
(* Pushes *)

LEMMA SentIs ==
  ASSUME Files!PublicationAssumption, IInv, NEW p \in OfOwned.Publisher, Files!At(p, "push")
  PROVE  /\ GoodPush(Files!Sent(p), mainline)
         /\ Files!Sent(p).base = trees[p].base /\ Files!Sent(p).tree = trees[p].head
         /\ \A x \in OfOwned.Scope[p] : p \in trees[p].head[x]
  <1>1. /\ trees[p] \in Checkout /\ trees[p].base \in 1..Len(mainline)
        /\ trees[p].head = Files!Merged(p, mainline[trees[p].base].tree)
        /\ trees[p].refreshed \in Files!Tree /\ trees[p].head \in Files!Tree
        /\ trees[p].head = Files!Merged(p, trees[p].refreshed)
    BY CheckoutIs DEF GoodCheckout, Files!At, Checkout
  <1>2. GoodPush(Files!Sent(p), mainline)
    BY <1>1 DEF GoodPush, Files!Sent
  <1> QED BY <1>1, <1>2, MergedIs DEF Files!Sent

LEMMA RetryIs ==
  ASSUME Files!PublicationAssumption, IInv, NEW p \in OfOwned.Publisher, Files!Retry(p)
  PROVE  \E c : Files!Becomes(p, c) /\ GoodCheckout(p, c, mainline)
  <1> DEFINE c == IF trees[p].attempt < OfOwned.MaxAttempts
                  THEN [trees[p] EXCEPT !.pc = "refresh", !.attempt = @ + 1]
                  ELSE [trees[p] EXCEPT !.pc = "failed"]
  <1>1. trees[p] \in Checkout /\ trees[p].base \in 1..Len(mainline)
    BY CheckoutIs DEF GoodCheckout
  <1>2. trees[p].attempt < OfOwned.MaxAttempts => trees[p].attempt + 1 \in 0..OfOwned.MaxAttempts
    BY <1>1 DEF Checkout, Files!PublicationAssumption
  <1>3. c \in Checkout /\ c.base = trees[p].base /\ c.pc \in {"refresh", "failed"}
    BY <1>1, <1>2 DEF Checkout
  <1>4. GoodCheckout(p, c, mainline)
    BY <1>1, <1>3 DEF GoodCheckout
  <1>5. Files!Becomes(p, c)
    BY DEF Files!Retry
  <1> QED BY <1>4, <1>5

(* The branch has grown, or stands; one publisher has moved, perhaps with a receipt. *)
LEMMA BranchKeeps ==
  ASSUME Files!PublicationAssumption, IInv, NEW p \in OfOwned.Publisher, NEW c, GoodCheckout(p, c, mainline),
         Files!Becomes(p, c), accidents' \in 0..OfOwned.MaxTrouble, UNCHANGED <<late, neighbours>>, GoodLog(mainline'),
         \A q \in OfOwned.Publisher : \A d : GoodCheckout(q, d, mainline) => GoodCheckout(q, d, mainline'),
         \A q \in OfOwned.Publisher : \A r : GoodReceipt(q, r, mainline) => GoodReceipt(q, r, mainline'),
         \A push : GoodPush(push, mainline) => GoodPush(push, mainline'),
         NEW r, vouchers' = [vouchers EXCEPT ![p] = r], GoodReceipt(p, r, mainline')
  PROVE  IInv'
  <1>1. /\ trees \in [OfOwned.Publisher -> Checkout] /\ c \in Checkout
        /\ trees' = [trees EXCEPT ![p] = c] /\ vouchers = [q \in OfOwned.Publisher |-> vouchers[q]]
    BY DEF IInv, Types, Files!Becomes, GoodCheckout
  <1>2. /\ trees' \in [OfOwned.Publisher -> Checkout]
        /\ \A q \in OfOwned.Publisher : trees'[q] = IF q = p THEN c ELSE trees[q]
    BY <1>1
  <1>3. /\ vouchers' = [q \in OfOwned.Publisher |-> IF q = p THEN r ELSE vouchers[q]]
        /\ \A q \in OfOwned.Publisher : vouchers'[q] = IF q = p THEN r ELSE vouchers[q]
    BY <1>1
  <1>4. vouchers' = [q \in OfOwned.Publisher |-> vouchers'[q]]
    BY <1>3
  <1>5. Types'
    BY <1>2, <1>4 DEF IInv, Types
  <1>6. \A q \in OfOwned.Publisher : GoodCheckout(q, trees'[q], mainline') /\ GoodReceipt(q, vouchers'[q], mainline')
    BY <1>2, <1>3 DEF IInv
  <1>7. \A push \in late' : GoodPush(push, mainline')
    BY DEF IInv
  <1> QED BY <1>5, <1>6, <1>7 DEF IInv

LEMMA PushKeeps ==
  ASSUME Files!PublicationAssumption, IInv, NEW p \in OfOwned.Publisher, Files!Push(p)
  PROVE  IInv'
  <1> DEFINE s == Files!Sent(p)
             tree == Files!Restrict(trees[p].head, OfOwned.Scope[p])
             receipt == [revision |-> Len(mainline'), tree |-> tree]
             done == [trees[p] EXCEPT !.pc = "done"]
  <1>1. /\ GoodPush(s, mainline) /\ s.base = trees[p].base /\ s.tree = trees[p].head
        /\ \A x \in OfOwned.Scope[p] : p \in trees[p].head[x]
    BY SentIs DEF Files!Push
  <1>2. /\ UNCHANGED <<late, neighbours>>
        /\ Files!Trouble \/ Files!Calm
        /\ vouchers = [q \in OfOwned.Publisher |-> vouchers[q]] /\ GoodReceipt(p, vouchers[p], mainline)
        /\ GoodLog(mainline)
    BY DEF Files!Push, IInv, Types
  <1>3. accidents' \in 0..OfOwned.MaxTrouble
    BY <1>2, TroubleIs
  <1>4. vouchers' = vouchers => vouchers' = [vouchers EXCEPT ![p] = vouchers[p]]
    BY <1>2
  <1>5. CASE trees[p].base = Files!Newest
    <2>1. mainline' = Files!Received(s)
      BY <1>5 DEF Files!Push
    <2>2. /\ GoodLog(mainline') /\ Len(mainline') \in Nat \ {0} /\ mainline'[Len(mainline')].tree = trees[p].head
          /\ \A q \in OfOwned.Publisher : \A d : GoodCheckout(q, d, mainline) => GoodCheckout(q, d, mainline')
          /\ \A q \in OfOwned.Publisher : \A r : GoodReceipt(q, r, mainline) => GoodReceipt(q, r, mainline')
          /\ \A push : GoodPush(push, mainline) => GoodPush(push, mainline')
      BY <1>1, <1>5, <2>1, Receiving
    <2>3. \/ Files!Goes(p, "done") /\ vouchers' = [vouchers EXCEPT ![p] = receipt]
          \/ Files!Retry(p) /\ vouchers' = vouchers
      BY <1>5 DEF Files!Push
    <2>4. CASE Files!Goes(p, "done") /\ vouchers' = [vouchers EXCEPT ![p] = receipt]
      <3>1. GoodReceipt(p, receipt, mainline')
        <4>1. /\ receipt.revision = Len(mainline') /\ receipt.tree = tree
              /\ \A i \in Len(mainline')..Len(mainline') : i = Len(mainline')
          BY <2>2
        <4> HIDE DEF receipt
        <4> QED BY <1>1, <2>2, <4>1 DEF GoodReceipt
      <3>2. GoodCheckout(p, done, mainline)
        BY CheckoutIs DEF GoodCheckout, Checkout
      <3>3. Files!Becomes(p, done)
        BY <2>4 DEF Files!Goes
      <3> HIDE DEF receipt, done
      <3> QED BY <1>2, <1>3, <2>2, <2>4, <3>1, <3>2, <3>3, BranchKeeps
    <2>5. CASE Files!Retry(p) /\ vouchers' = vouchers
      <3>1. PICK c : Files!Becomes(p, c) /\ GoodCheckout(p, c, mainline)
        BY <2>5, RetryIs
      <3>2. GoodReceipt(p, vouchers[p], mainline')
        BY <1>2, <2>2
      <3> QED BY <1>2, <1>3, <1>4, <2>2, <2>5, <3>1, <3>2, BranchKeeps
    <2> QED BY <2>3, <2>4, <2>5
  <1>6. CASE trees[p].base # Files!Newest
    <2>1. PICK c : Files!Becomes(p, c) /\ GoodCheckout(p, c, mainline)
      BY <1>6, RetryIs DEF Files!Push
    <2>2. UNCHANGED <<mainline, vouchers, neighbours>> /\ \A push \in late' : GoodPush(push, mainline)
      BY <1>2, <1>6 DEF Files!Push, IInv
    <2> QED BY <1>3, <2>1, <2>2, CheckoutKeeps
  <1> QED BY <1>5, <1>6

LEMMA PushTimesOutKeeps ==
  ASSUME Files!PublicationAssumption, IInv, NEW p \in OfOwned.Publisher, Files!PushTimesOut(p)
  PROVE  IInv'
  <1>1. PICK c : Files!Becomes(p, c) /\ GoodCheckout(p, c, mainline)
    BY RetryIs DEF Files!PushTimesOut
  <1>2. \A push \in late' : GoodPush(push, mainline)
    BY SentIs DEF Files!PushTimesOut, IInv
  <1> QED BY <1>1, <1>2, TroubleIs, CheckoutKeeps DEF Files!PushTimesOut

(* The branch alone has grown. *)
LEMMA LogKeeps ==
  ASSUME Files!PublicationAssumption, IInv, UNCHANGED <<trees, vouchers, accidents>>,
         neighbours' \in 0..OfOwned.MaxOther, late' \subseteq late, GoodLog(mainline'),
         \A q \in OfOwned.Publisher : \A d : GoodCheckout(q, d, mainline) => GoodCheckout(q, d, mainline'),
         \A q \in OfOwned.Publisher : \A r : GoodReceipt(q, r, mainline) => GoodReceipt(q, r, mainline'),
         \A push : GoodPush(push, mainline) => GoodPush(push, mainline')
  PROVE  IInv'
  <1>1. Types'
    BY DEF IInv, Types
  <1>2. \A push \in late' : GoodPush(push, mainline')
    BY DEF IInv
  <1> QED BY <1>1, <1>2 DEF IInv

LEMMA LateKeeps ==
  ASSUME Files!PublicationAssumption, IInv, NEW push, Files!Late(push)
  PROVE  IInv'
  <1>1. /\ GoodPush(push, mainline) /\ mainline' = IF push.base = Files!Newest THEN Files!Received(push) ELSE mainline
        /\ late' \subseteq late /\ neighbours' \in 0..OfOwned.MaxOther /\ GoodLog(mainline)
        /\ UNCHANGED <<trees, vouchers, accidents>>
    BY DEF Files!Late, IInv, Types
  <1>2. CASE push.base = Files!Newest
    <2>1. mainline' = Files!Received(push)
      BY <1>1, <1>2
    <2> QED BY <1>1, <1>2, <2>1, Receiving, LogKeeps
  <1>3. CASE push.base # Files!Newest
    BY <1>1, <1>3, LogKeeps
  <1> QED BY <1>2, <1>3

LEMMA OtherCommitKeeps ==
  ASSUME Files!PublicationAssumption, IInv, Files!OtherCommit
  PROVE  IInv'
  <1>1. PICK x \in OfOwned.Path :
          mainline' = Append(mainline, [by |-> "other", tree |-> [mainline[Files!Newest].tree EXCEPT ![x] = @ \cup {"other"}]])
    BY DEF Files!OtherCommit
  <1> DEFINE tree == [mainline[Files!Newest].tree EXCEPT ![x] = @ \cup {"other"}]
             n == [by |-> "other", tree |-> tree]
  <1>2. mainline \in Seq(Commit) /\ Files!Newest \in Nat \ {0} /\ GoodLog(mainline)
    BY DEF IInv, GoodLog, Files!Newest
  <1>3. mainline[Files!Newest] \in Commit /\ mainline[Files!Newest].tree \in Files!Tree
    <2>1. mainline[Files!Newest] \in Commit
      BY <1>2 DEF Files!Newest
    <2> QED BY <2>1 DEF Commit
  <1>4. tree \in Files!Tree /\ \A y \in OfOwned.Path : mainline[Len(mainline)].tree[y] \subseteq tree[y]
    BY <1>3 DEF Files!Tree, Files!Batch, Files!Newest
  <1> HIDE DEF tree
  <1>5. n \in Commit /\ n.by \notin OfOwned.Publisher /\ n.tree = tree
    BY <1>4 DEF Commit, Files!Batch, Files!PublicationAssumption
  <1>6. mainline' = Append(mainline, n)
    BY <1>1 DEF tree
  <1> HIDE DEF n
  <1>7. /\ GoodLog(mainline')
        /\ \A q \in OfOwned.Publisher : \A d : GoodCheckout(q, d, mainline) => GoodCheckout(q, d, mainline')
        /\ \A q \in OfOwned.Publisher : \A r : GoodReceipt(q, r, mainline) => GoodReceipt(q, r, mainline')
        /\ \A push : GoodPush(push, mainline) => GoodPush(push, mainline')
    BY <1>2, <1>4, <1>5, <1>6, Appending
  <1>8. /\ neighbours' \in 0..OfOwned.MaxOther /\ late' \subseteq late /\ UNCHANGED <<trees, vouchers, accidents>>
    BY DEF Files!OtherCommit, IInv, Types, Files!PublicationAssumption
  <1> QED BY <1>7, <1>8, LogKeeps

LEMMA FailKeeps ==
  ASSUME Files!PublicationAssumption, IInv, NEW p \in OfOwned.Publisher, Files!Fail(p)
  PROVE  IInv'
  BY GoesKeeps DEF Files!Fail, Files!Local, IInv
--------------------------------------------------------------------------------
(* Every step *)

LEMMA InvInit ==
  ASSUME Files!PublicationAssumption, Files!Init
  PROVE  IInv
  <1>1. PICK tree \in [OfOwned.Path -> {{}, {"other"}}] :
          /\ mainline = <<[by |-> "other", tree |-> tree]>>
          /\ trees = [p \in OfOwned.Publisher |->
               [pc |-> "idle", attempt |-> 0, base |-> 1, refreshed |-> tree,
                head |-> tree, index |-> tree, work |-> tree, baseline |-> tree]]
    BY DEF Files!Init
  <1>2. tree \in Files!Tree
    BY DEF Files!Tree, Files!Batch
  <1>3. GoodLog(mainline) /\ Len(mainline) = 1 /\ 1 \in 1..Len(mainline)
    BY <1>1, <1>2 DEF GoodLog, Commit, Files!Batch
  <1>4. ASSUME NEW p \in OfOwned.Publisher PROVE GoodCheckout(p, trees[p], mainline) /\ trees[p] \in Checkout
    BY <1>1, <1>2, <1>3 DEF GoodCheckout, Checkout, Files!PublicationAssumption
  <1>5. /\ late = {} /\ vouchers = [p \in OfOwned.Publisher |-> Files!NoReceipt] /\ neighbours = 0 /\ accidents = 0
    BY DEF Files!Init
  <1>6. \A p \in OfOwned.Publisher : GoodReceipt(p, vouchers[p], mainline)
    BY <1>3, <1>5 DEF GoodReceipt, Files!NoReceipt
  <1>7. trees \in [OfOwned.Publisher -> Checkout]
    BY <1>1, <1>4
  <1>8. Types
    BY <1>5, <1>7 DEF Types, Files!PublicationAssumption
  <1> QED BY <1>3, <1>4, <1>5, <1>6, <1>8 DEF IInv

LEMMA InvNext ==
  ASSUME Files!PublicationAssumption, IInv, [Files!Next]_(Files!vars)
  PROVE  IInv'
  <1>1. CASE Files!OtherCommit
    BY <1>1, OtherCommitKeeps
  <1>2. ASSUME NEW p \in OfOwned.Publisher,
               \/ \E x \in OfOwned.Path : Files!Left(p, x)
               \/ Files!Begin(p) \/ Files!Refresh(p) \/ Files!Apply(p) \/ Files!StageCommit(p)
               \/ Files!Push(p) \/ Files!PushTimesOut(p) \/ Files!Fail(p)
        PROVE  IInv'
    BY <1>2, LeftKeeps, BeginKeeps, RefreshKeeps, ApplyKeeps, StageCommitKeeps, PushKeeps,
       PushTimesOutKeeps, FailKeeps
  <1>3. CASE \E push \in late : Files!Late(push)
    BY <1>3, LateKeeps
  <1>4. CASE UNCHANGED Files!vars
    BY <1>4 DEF Files!vars, IInv, Types
  <1> QED BY <1>1, <1>2, <1>3, <1>4 DEF Files!Next

LEMMA InvAlways ==
  ASSUME Files!PublicationAssumption
  PROVE  Files!Spec => []IInv
  <1>1. Files!Init => IInv
    BY InvInit
  <1>2. IInv /\ [Files!Next]_(Files!vars) => IInv'
    BY InvNext
  <1> QED BY <1>1, <1>2, PTL DEF Files!Spec

LEMMA CommitsAre ==
  ASSUME IInv, NEW i \in 1..Files!Newest
  PROVE  mainline[i] \in Commit /\ mainline[i].by \in Files!Batch /\ mainline[i].tree \in Files!Tree
  <1>1. mainline \in Seq(Commit)
    BY DEF IInv, GoodLog
  <1>2. mainline[i] \in Commit
    BY <1>1 DEF Files!Newest
  <1> QED BY <1>2 DEF Commit

(* The branch, the pushes and the checkouts hold values of their types. *)
THEOREM FilesTypeCorrect ==
  ASSUME Files!PublicationAssumption
  PROVE  Files!Spec => []Files!TypeOK
  <1>1. ASSUME IInv PROVE Files!TypeOK
    <2>1. \A push \in late : push.by \in OfOwned.Publisher /\ push.base \in 1..Files!Newest /\ push.tree \in Files!Tree
      BY <1>1 DEF IInv, GoodPush, Files!Newest
    <2>2. ASSUME NEW p \in OfOwned.Publisher
          PROVE  /\ trees[p].pc \in {"idle", "refresh", "apply", "stage", "push", "done", "failed"}
                 /\ trees[p].attempt \in 0..OfOwned.MaxAttempts /\ trees[p].base \in 1..Files!Newest
                 /\ {trees[p].refreshed, trees[p].head, trees[p].index,
                     trees[p].work, trees[p].baseline} \subseteq Files!Tree
                 /\ vouchers[p].revision \in 0..Files!Newest
      <3>1. /\ trees[p] \in Checkout /\ trees[p].base \in 1..Files!Newest
            /\ vouchers[p].revision \in 0..Files!Newest
        BY <1>1 DEF IInv, GoodCheckout, GoodReceipt, Files!Newest
      <3> QED BY <3>1 DEF Checkout
    <2> QED BY <1>1, <2>1, <2>2, CommitsAre DEF IInv, Types, Files!TypeOK
  <1> QED BY <1>1, InvAlways, PTL

(* What a receipt names is public, whole, and stays so: also when answers were
   lost, or pushes arrive after they were given up (publish_with_retry). *)
THEOREM PushedAlways ==
  ASSUME Files!PublicationAssumption
  PROVE  Files!Spec => []Files!AcknowledgedIsPublic
  <1>1. IInv => Files!AcknowledgedIsPublic
    BY DEF IInv, GoodReceipt, Files!AcknowledgedIsPublic, Files!Newest
  <1> QED BY <1>1, InvAlways, PTL

(* A publisher changes its own files only, and publishes what its batch made of
   them, whatever was left in its checkout (stage_commit). *)
THEOREM ScopeAlways ==
  ASSUME Files!PublicationAssumption
  PROVE  Files!Spec => []Files!StaysInScope
  <1>1. ASSUME IInv PROVE Files!StaysInScope
    <2> SUFFICES ASSUME NEW i \in 2..Files!Newest, mainline[i].by \in OfOwned.Publisher
                 PROVE  /\ Files!Differ(mainline[i - 1].tree, mainline[i].tree) \subseteq OfOwned.Scope[mainline[i].by]
                        /\ mainline[i].tree = Files!Merged(mainline[i].by, mainline[i - 1].tree)
      BY DEF Files!StaysInScope
    <2>1. mainline[i].tree = Files!Merged(mainline[i].by, mainline[i - 1].tree)
      BY <1>1 DEF IInv, GoodLog, Files!Newest
    <2>2. i - 1 \in 1..Files!Newest
      BY <1>1 DEF IInv, GoodLog, Files!Newest
    <2>3. mainline[i - 1].tree \in Files!Tree
      BY <1>1, <2>2, CommitsAre
    <2> QED BY <2>1, <2>3, MergedIs
  <1> QED BY <1>1, InvAlways, PTL
--------------------------------------------------------------------------------
(* PublicCatalog *)

LEMMA CatalogGiven == Catalog!CatalogAssumption
  BY JobsAssumption

Rows == [OfCatalog.Game -> Catalog!Row]
IsFiles(f) ==
  f = [version |-> f.version, by |-> f.by, day |-> f.day, games |-> f.games,
       catalog |-> f.catalog, upcoming |-> f.upcoming, released |-> f.released,
       unconfirmed |-> f.unconfirmed, origins |-> f.origins]

(* The files of one commit agree. *)
Agree(f) ==
  /\ f.games = f.catalog
  /\ f.upcoming = Catalog!Upcoming(f.catalog, f.day)
       \ (IF f.by = "audit" THEN {g \in OfCatalog.Game : f.catalog[g].twitch} ELSE {})
  /\ f.released \subseteq Catalog!Released(f.catalog, f.day)
  /\ \A g \in f.upcoming : f.catalog[g].full

CommitOK(f) == IsFiles(f) /\ f.version \in Nat /\ f.games \in Rows /\ Agree(f)

(* Only a full date is verified, and none after now. *)
Verified(rows, now) ==
  \A g \in OfCatalog.Game : rows[g].verified <= now /\ (rows[g].verified > 0 => rows[g].full)

(* A game without a full date is of the days before. *)
Past(rows, day) ==
  \A g \in OfCatalog.Game : rows[g] # Catalog!NoRow /\ ~rows[g].full => rows[g].start < day

NotOlder(rows, next) ==
  \A g \in OfCatalog.Game : rows[g] # Catalog!NoRow /\ next[g] # Catalog!NoRow =>
    next[g].verified >= rows[g].verified /\ next[g].checked >= rows[g].checked

(* What a publication carries, and what it has built when it still fits. *)
PublisherOK ==
  /\ publisher = [pc |-> publisher.pc, source |-> publisher.source, day |-> publisher.day,
                  tries |-> publisher.tries, built |-> publisher.built]
  /\ publisher.source \in Rows /\ Verified(publisher.source, ticks)
  /\ publisher.day \in 1..today
  /\ publisher.pc # "idle" => Past(public.games, publisher.day)
  /\ publisher.pc = "push" =>
       /\ CommitOK(publisher.built) /\ publisher.built.version <= public.version + 1
       /\ publisher.built.version = public.version + 1 =>
            /\ Verified(publisher.built.games, ticks)
            /\ Past(publisher.built.games, publisher.day)
            /\ NotOlder(public.catalog, publisher.built.catalog)

(* An audit that sees the newest commit has seen every date. *)
AuditorOK ==
  /\ auditor = [busy |-> auditor.busy, base |-> auditor.base, at |-> auditor.at]
  /\ auditor.at \in 0..ticks /\ auditor.base \in Nat
  /\ auditor.busy =>
       /\ auditor.base <= public.version
       /\ auditor.base = public.version =>
            \A g \in OfCatalog.Game : public.catalog[g].verified <= auditor.at

CatalogInv ==
  /\ private \in Rows /\ Verified(private, ticks)
  /\ CommitOK(public) /\ Verified(public.games, ticks) /\ Past(public.games, today)
  /\ today \in 1..OfCatalog.MaxToday /\ ticks \in 0..OfCatalog.MaxTime
  /\ PublisherOK /\ AuditorOK

PriorOf(g, source, day) ==
  LET row == public.games[g]
      lapsed == g \in blocked \/ (g \in public.unconfirmed /\ ~row.full)
                  \/ Catalog!StaleFuture(g, row, source, day)
  IN IF Catalog!Publishable(g, row, day, public.unconfirmed) /\ ~lapsed THEN row ELSE Catalog!NoRow

LEMMA NoRowType ==
  /\ Catalog!NoRow \in Catalog!Row /\ Catalog!NoRow.verified = 0
  /\ Catalog!NoRow.checked = 0 /\ Catalog!NoRow.full = FALSE
  /\ Catalog!Empty \in Rows /\ \A g \in OfCatalog.Game : Catalog!Empty[g] = Catalog!NoRow
  BY CatalogGiven DEF Catalog!NoRow, Catalog!Row, Catalog!Empty, Rows, Catalog!CatalogAssumption

(* A merged row has the newer count, and no older date than the one before. *)
LEMMA MergeIs ==
  ASSUME NEW prior \in Catalog!Row, NEW row \in Catalog!Row, NEW now \in Nat,
         prior.verified <= now, prior.verified > 0 => prior.full,
         row.verified <= now, row.verified > 0 => row.full
  PROVE  LET merged == Catalog!Merge(prior, row)
         IN /\ merged \in Catalog!Row /\ merged.checked = row.checked
            /\ merged.verified <= now /\ merged.verified >= prior.verified
            /\ merged.verified > 0 => merged.full
  <1> DEFINE dated == IF Catalog!KeepsNewerDate(prior, row) \/ Catalog!KeepsFullDate(prior, row)
                      THEN prior ELSE row
             merged == Catalog!Merge(prior, row)
  <1>1. dated \in Catalog!Row /\ dated.verified <= now /\ (dated.verified > 0 => dated.full)
    OBVIOUS
  <1>2. dated.verified >= prior.verified
    BY CatalogGiven DEF Catalog!KeepsNewerDate, Catalog!KeepsFullDate, Catalog!Row,
       Catalog!CatalogAssumption
  <1>3. merged = [checked |-> row.checked, start |-> dated.start, full |-> dated.full,
                  verified |-> dated.verified, twitch |-> prior.twitch \/ row.twitch]
    BY DEF Catalog!Merge
  <1> HIDE DEF dated, merged
  <1>4. (prior.twitch \/ row.twitch) \in BOOLEAN
    OBVIOUS
  <1>5. merged \in Catalog!Row
    BY <1>1, <1>3, <1>4 DEF Catalog!Row
  <1>6. merged.checked = row.checked /\ merged.verified = dated.verified /\ merged.full = dated.full
    BY <1>3
  <1> QED BY <1>1, <1>2, <1>5, <1>6 DEF merged

(* What an attempt builds on the files it has fetched. *)
LEMMA BuiltIs ==
  ASSUME CatalogInv, NEW source \in Rows, Verified(source, ticks), NEW day \in 1..today,
         Past(public.games, day), Catalog!CurrentFollowers(source)
  PROVE  LET rows == Catalog!Built(source, day)
         IN /\ rows \in Rows /\ Verified(rows, ticks) /\ Past(rows, day)
            /\ NotOlder(public.catalog, rows) /\ Catalog!Files(rows, source, day) = rows
  <1> DEFINE rows == Catalog!Built(source, day)
  <1>1. /\ public.games \in Rows /\ public.games = public.catalog /\ Verified(public.games, ticks)
        /\ ticks \in Nat
    BY DEF CatalogInv, CommitOK, Agree
  <1>2. ASSUME NEW g \in OfCatalog.Game
        PROVE  /\ rows[g] \in Catalog!Row
               /\ rows[g].verified <= ticks /\ (rows[g].verified > 0 => rows[g].full)
               /\ rows[g] # Catalog!NoRow /\ ~rows[g].full => rows[g].start < day
               /\ public.games[g] # Catalog!NoRow /\ rows[g] # Catalog!NoRow =>
                    /\ rows[g].verified >= public.games[g].verified
                    /\ rows[g].checked >= public.games[g].checked
               /\ Catalog!Files(rows, source, day)[g] = rows[g]
    <2> DEFINE old == public.games[g]
               row == source[g]
               prior == PriorOf(g, source, day)
               merged == Catalog!Merge(prior, row)
               taken == /\ row # Catalog!NoRow /\ g \notin blocked
                        /\ g \in public.unconfirmed => row.full
                        /\ Catalog!Publishable(g, merged, day, public.unconfirmed)
    <2>1. /\ old \in Catalog!Row /\ old.verified <= ticks /\ (old.verified > 0 => old.full)
          /\ row \in Catalog!Row /\ row.verified <= ticks /\ (row.verified > 0 => row.full)
          /\ row # Catalog!NoRow => old.checked <= row.checked
      BY <1>1 DEF Rows, Verified, Catalog!CurrentFollowers, Catalog!Shown
    <2>2. rows[g] = IF taken THEN merged ELSE prior
      BY DEF Catalog!Built, PriorOf
    <2>3. old # Catalog!NoRow /\ ~old.full => old.start < day
      BY DEF Past
    <2>4. prior \in {old, Catalog!NoRow}
      BY DEF PriorOf
    <2>5. /\ merged \in Catalog!Row /\ merged.checked = row.checked
          /\ merged.verified <= ticks /\ merged.verified >= prior.verified
          /\ merged.verified > 0 => merged.full
      BY <1>1, <2>1, <2>4, MergeIs, NoRowType
    <2>6. /\ old.verified \in Nat /\ old.checked \in Nat /\ old.start \in Int
          /\ row.checked \in Nat /\ merged.verified \in Nat /\ merged.start \in Int
          /\ day \in Int /\ old.full \in BOOLEAN /\ merged.full \in BOOLEAN
      BY <2>1, <2>5, CatalogGiven DEF Catalog!Row, Catalog!CatalogAssumption, CatalogInv
    <2>7. prior = Catalog!NoRow /\ taken => old.verified = 0
      <3>1. CASE old = Catalog!NoRow
        BY <3>1, NoRowType
      <3>2. CASE old # Catalog!NoRow /\ old.full
        <4>1. ASSUME taken PROVE prior = old
          <5>1. g \notin blocked /\ source[g] # Catalog!NoRow
            BY <4>1
          <5>2. Catalog!Publishable(g, old, day, public.unconfirmed)
            BY <3>2, <5>1 DEF Catalog!Publishable
          <5>3. ~Catalog!StaleFuture(g, old, source, day)
            BY <5>1 DEF Catalog!StaleFuture
          <5> QED BY <3>2, <5>1, <5>2, <5>3 DEF PriorOf
        <4> QED BY <3>2, <4>1
      <3>3. CASE ~old.full
        <4>1. old.verified \in Nat /\ (old.verified > 0 => old.full)
          BY <2>1, <2>6
        <4> HIDE DEF old
        <4> QED BY <3>3, <4>1
      <3> QED BY <3>1, <3>2, <3>3
    <2>8. taken => (~merged.full => merged.start < day)
      BY <2>6 DEF Catalog!Publishable
    <2> DEFINE gone == \/ g \in blocked \/ (g \in public.unconfirmed /\ ~old.full)
                       \/ Catalog!StaleFuture(g, old, source, day)
    <2>9. Catalog!Files(rows, source, day)[g] =
            IF rows[g] # Catalog!NoRow THEN rows[g] ELSE IF gone THEN Catalog!NoRow ELSE old
      BY DEF Catalog!Files
    <2>10. taken => merged # Catalog!NoRow
      BY DEF Catalog!Publishable
    <2>11. rows[g] = Catalog!NoRow => old = Catalog!NoRow \/ gone
      <3> SUFFICES ASSUME prior = Catalog!NoRow, old # Catalog!NoRow
                   PROVE  gone
        BY <2>2, <2>10
      <3> QED BY <2>3, <2>6 DEF PriorOf, Catalog!Publishable
    <2> DEFINE file == Catalog!Files(rows, source, day)[g]
               built == rows[g]
    <2> HIDE DEF file, built, gone
    <2>12. file = built
      <3>1. file = IF built # Catalog!NoRow THEN built ELSE IF gone THEN Catalog!NoRow ELSE old
        BY <2>9 DEF file, built
      <3>2. built = Catalog!NoRow => old = Catalog!NoRow \/ gone
        BY <2>11 DEF built
      <3> HIDE DEF old
      <3> QED BY <3>1, <3>2
    <2>13. built = IF taken THEN merged ELSE prior
      BY <2>2 DEF built
    <2> HIDE DEF old, row, merged, prior, taken
    <2>14. CASE taken
      <3>1. built = merged /\ built # Catalog!NoRow /\ row # Catalog!NoRow
        BY <2>10, <2>13, <2>14 DEF taken, row
      <3>2. old.verified <= merged.verified
        <4>1. CASE prior = Catalog!NoRow
          BY <2>6, <2>7, <2>14, <4>1
        <4>2. CASE prior = old
          BY <2>5, <4>2
        <4> QED BY <2>4, <4>1, <4>2
      <3> QED BY <2>1, <2>5, <2>6, <2>8, <2>12, <2>14, <3>1, <3>2 DEF old, file, built
    <2>15. CASE ~taken
      <3>1. built = prior
        BY <2>13, <2>15
      <3>2. CASE prior = Catalog!NoRow
        BY <1>1, <2>12, <3>1, <3>2, NoRowType DEF file, built
      <3>3. CASE prior = old
        BY <2>1, <2>3, <2>6, <2>12, <3>1, <3>3 DEF file, built, old
      <3> QED BY <2>4, <3>2, <3>3
    <2> QED BY <2>14, <2>15
  <1>3. rows = [g \in OfCatalog.Game |-> rows[g]]
    BY DEF Catalog!Built
  <1>4. Catalog!Files(rows, source, day) = [g \in OfCatalog.Game |-> Catalog!Files(rows, source, day)[g]]
    BY DEF Catalog!Files
  <1> HIDE DEF rows
  <1>5. rows \in Rows
    BY <1>2, <1>3 DEF Rows
  <1>6. Catalog!Files(rows, source, day) = rows
    BY <1>2, <1>3, <1>4
  <1>7. Verified(rows, ticks) /\ Past(rows, day) /\ NotOlder(public.games, rows)
    BY <1>2 DEF Verified, Past, NotOlder
  <1> QED BY <1>1, <1>5, <1>6, <1>7 DEF rows

LEMMA AgeMonotone ==
  ASSUME NEW rows \in Rows, NEW now \in Nat, NEW later \in Nat, now <= later,
         NEW day \in Int, NEW next \in Int, day <= next
  PROVE  /\ Verified(rows, now) => Verified(rows, later)
         /\ Past(rows, day) => Past(rows, next)
         /\ NotOlder(rows, rows)
  <1>1. \A g \in OfCatalog.Game :
          rows[g].verified \in Int /\ rows[g].checked \in Int /\ rows[g].start \in Int
    BY CatalogGiven DEF Rows, Catalog!Row, Catalog!CatalogAssumption
  <1> QED BY <1>1 DEF Verified, Past, NotOlder

(* Files that are all made of the rows of one catalogue. *)
LEMMA FilesAgree ==
  ASSUME NEW f, IsFiles(f), f.version \in Nat, f.games \in Rows, f.games = f.catalog,
         f.day \in Nat, Past(f.games, f.day),
         f.upcoming = Catalog!Upcoming(f.catalog, f.day)
           \ (IF f.by = "audit" THEN {g \in OfCatalog.Game : f.catalog[g].twitch} ELSE {}),
         f.released \subseteq Catalog!Released(f.catalog, f.day)
  PROVE  CommitOK(f)
  <1>1. ASSUME NEW g \in f.upcoming
        PROVE  f.catalog[g].full
    <2>1. g \in OfCatalog.Game /\ f.games[g] # Catalog!NoRow /\ f.games[g].start >= f.day
      BY <1>1 DEF Catalog!Upcoming, Catalog!Shown
    <2>2. f.games[g].start \in Int /\ f.games[g].full \in BOOLEAN
      BY <2>1, CatalogGiven DEF Rows, Catalog!Row, Catalog!CatalogAssumption
    <2> QED BY <2>1, <2>2 DEF Past
  <1> QED BY <1>1 DEF CommitOK, Agree

LEMMA RenderedIs ==
  ASSUME CatalogInv, NEW source \in Rows, Verified(source, ticks), NEW day \in 1..today,
         Past(public.games, day), Catalog!CurrentFollowers(source)
  PROVE  LET f == Catalog!Rendered(source, day)
         IN /\ CommitOK(f) /\ f.version <= public.version + 1
            /\ Verified(f.games, ticks) /\ Past(f.games, day)
            /\ NotOlder(public.catalog, f.catalog)
            /\ f.version = public.version + 1 =>
                 /\ f.catalog = Catalog!Built(source, day) /\ f.unconfirmed = public.unconfirmed
                 /\ f.origins = Catalog!Origins(public.catalog, f.catalog, publications)
  <1> DEFINE rows == Catalog!Built(source, day)
             files == Catalog!Files(rows, source, day)
             told == Catalog!Origins(public.catalog, rows, publications)
             new == [public EXCEPT !.by = "catalog", !.day = day,
                       !.games = files, !.catalog = rows,
                       !.upcoming = Catalog!Upcoming(rows, day),
                       !.released = Catalog!Released(rows, day),
                       !.origins = told]
             f == Catalog!Rendered(source, day)
  <1>1. /\ rows \in Rows /\ Verified(rows, ticks) /\ Past(rows, day)
        /\ NotOlder(public.catalog, rows) /\ files = rows
    BY BuiltIs
  <1>2. f = IF new = public THEN public ELSE [new EXCEPT !.version = @ + 1]
    BY DEF Catalog!Rendered
  <1>3. /\ IsFiles(public) /\ public.version \in Nat /\ public.games = public.catalog
        /\ public.games \in Rows /\ CommitOK(public) /\ Verified(public.games, ticks)
        /\ day \in Nat /\ today \in Nat /\ ticks \in Nat
    BY DEF CatalogInv, CommitOK, Agree
  <1> HIDE DEF rows, files, told
  <1>4. [new EXCEPT !.version = @ + 1] =
          [version |-> public.version + 1, by |-> "catalog", day |-> day, games |-> rows,
           catalog |-> rows, upcoming |-> Catalog!Upcoming(rows, day),
           released |-> Catalog!Released(rows, day),
           unconfirmed |-> public.unconfirmed, origins |-> told]
    <2> DEFINE up == Catalog!Upcoming(rows, day)
               out == Catalog!Released(rows, day)
    <2> HIDE DEF up, out
    <2>1. PICK v, b, d, gs, c, u, r, n, o :
            public = [version |-> v, by |-> b, day |-> d, games |-> gs, catalog |-> c,
                      upcoming |-> u, released |-> r, unconfirmed |-> n, origins |-> o]
      BY <1>3, Zenon DEF IsFiles
    <2>2. new = [version |-> v, by |-> "catalog", day |-> day, games |-> files, catalog |-> rows,
                 upcoming |-> up, released |-> out, unconfirmed |-> n, origins |-> told]
      <3>1. new = [public EXCEPT !.by = "catalog", !.day = day,
                     !.games = files, !.catalog = rows, !.upcoming = up, !.released = out,
                     !.origins = told]
        BY DEF up, out
      <3> HIDE DEF new
      <3> QED BY <2>1, <3>1
    <2>3. public.version = v /\ public.unconfirmed = n /\ files = rows
      BY <1>1, <2>1
    <2> HIDE DEF new
    <2>4. [new EXCEPT !.version = @ + 1] =
            [version |-> v + 1, by |-> "catalog", day |-> day, games |-> files,
             catalog |-> rows, upcoming |-> up, released |-> out,
             unconfirmed |-> n, origins |-> told]
      BY <2>2
    <2> QED BY <2>3, <2>4 DEF up, out
  <1> HIDE DEF new, f
  <1>5. CASE f = public
    <2>1. NotOlder(public.catalog, public.catalog)
      BY <1>3, AgeMonotone
    <2>2. f.version # public.version + 1
      BY <1>3, <1>5
    <2> QED BY <1>3, <1>5, <2>1, <2>2 DEF f
  <1>6. CASE f # public
    <2>1. f = [version |-> public.version + 1, by |-> "catalog", day |-> day, games |-> rows,
               catalog |-> rows, upcoming |-> Catalog!Upcoming(rows, day),
               released |-> Catalog!Released(rows, day),
               unconfirmed |-> public.unconfirmed, origins |-> told]
      BY <1>2, <1>4, <1>6
    <2>2. /\ IsFiles(f) /\ f.version = public.version + 1 /\ f.games = rows /\ f.catalog = rows
          /\ f.day = day /\ f.by = "catalog" /\ f.upcoming = Catalog!Upcoming(rows, day)
          /\ f.released = Catalog!Released(rows, day)
          /\ f.unconfirmed = public.unconfirmed /\ f.origins = told
      BY <2>1 DEF IsFiles
    <2>3. CommitOK(f)
      <3>1. f.version \in Nat
        BY <1>3, <2>2
      <3> QED BY <1>1, <1>3, <2>2, <3>1, FilesAgree
    <2> QED BY <1>1, <1>3, <2>2, <2>3 DEF f, rows, told
  <1> QED BY <1>5, <1>6

--------------------------------------------------------------------------------
(* What the master, the day and the clock do does not touch what is public. *)
LEMMA MasterKeeps ==
  ASSUME CatalogInv, Catalog!World, ticks' \in {ticks, ticks + 1}, ticks' \in 0..OfCatalog.MaxTime,
         today' \in {today, today + 1}, today' \in 1..OfCatalog.MaxToday,
         private' \in Rows, Verified(private', ticks')
  PROVE  CatalogInv'
  <1>1. /\ ticks \in Nat /\ today \in Nat /\ ticks' \in Nat /\ ticks <= ticks'
        /\ today' \in Nat /\ today <= today'
    BY DEF CatalogInv
  <1>2. Verified(public.games, ticks') /\ Past(public.games, today')
    BY <1>1, AgeMonotone DEF CatalogInv, CommitOK
  <1>3. PublisherOK'
    <2>1. publisher' = publisher /\ public' = public
      BY DEF Catalog!World
    <2>2. publisher.day \in 1..today'
      BY <1>1 DEF CatalogInv, PublisherOK
    <2>3. Verified(publisher.source, ticks')
      BY <1>1, AgeMonotone DEF CatalogInv, PublisherOK
    <2>4. ASSUME publisher.pc = "push", publisher.built.version = public.version + 1
          PROVE  Verified(publisher.built.games, ticks')
      BY <1>1, <2>4, AgeMonotone DEF CatalogInv, PublisherOK, CommitOK
    <2> QED BY <2>1, <2>2, <2>3, <2>4 DEF CatalogInv, PublisherOK
  <1>4. AuditorOK'
    BY <1>1 DEF Catalog!World, CatalogInv, AuditorOK
  <1> QED BY <1>2, <1>3, <1>4 DEF CatalogInv, Catalog!World

LEMMA ObservesKeeps ==
  ASSUME CatalogInv, NEW g \in OfCatalog.Game, NEW row \in Catalog!Row, Catalog!Observes(row, g),
         row.verified <= ticks + 1, row.verified > 0 => row.full
  PROVE  CatalogInv'
  <1>1. /\ Catalog!World /\ ticks' = ticks + 1 /\ ticks' \in 0..OfCatalog.MaxTime /\ today' = today
        /\ private' = [private EXCEPT ![g] = row] /\ ticks \in Nat /\ today \in 1..OfCatalog.MaxToday
    BY CatalogGiven DEF Catalog!Observes, CatalogInv, Catalog!CatalogAssumption
  <1>2. private' \in Rows
    BY <1>1 DEF CatalogInv, Rows
  <1>3. Verified(private, ticks')
    BY <1>1, AgeMonotone DEF CatalogInv
  <1>4. Verified(private', ticks')
    BY <1>1, <1>3 DEF Verified, CatalogInv, Rows
  <1> QED BY <1>1, <1>2, <1>4, MasterKeeps

LEMMA CountKeeps ==
  ASSUME CatalogInv, NEW g \in OfCatalog.Game, Catalog!Count(g)
  PROVE  CatalogInv'
  <1>1. PICK s \in Catalog!Date, full \in BOOLEAN, twitch \in BOOLEAN :
          Catalog!Observes(IF private[g] # Catalog!NoRow THEN [private[g] EXCEPT !.checked = ticks + 1]
                   ELSE [checked |-> ticks + 1, start |-> s, full |-> full,
                         verified |-> IF full THEN ticks + 1 ELSE 0, twitch |-> twitch], g)
    BY DEF Catalog!Count
  <1>2. /\ private[g] \in Catalog!Row /\ private[g].verified <= ticks
        /\ private[g].verified > 0 => private[g].full
    BY DEF CatalogInv, Rows, Verified
  <1>3. ticks \in Nat /\ ticks + 1 \in 0..OfCatalog.MaxTime /\ s \in 0..OfCatalog.MaxToday + 1
    BY <1>1, CatalogGiven DEF Catalog!Observes, CatalogInv, Catalog!Date, Catalog!CatalogAssumption
  <1>4. CASE private[g] # Catalog!NoRow
    <2> DEFINE row == [private[g] EXCEPT !.checked = ticks + 1]
    <2>1. row \in Catalog!Row /\ row.verified = private[g].verified /\ row.full = private[g].full
      BY <1>2, <1>3 DEF Catalog!Row
    <2>2. Catalog!Observes(row, g)
      BY <1>1, <1>4
    <2>3. row.verified <= ticks + 1
      BY <1>2, <1>3, <2>1, CatalogGiven DEF Catalog!Row, Catalog!CatalogAssumption
    <2> HIDE DEF row
    <2> QED BY <1>2, <2>1, <2>2, <2>3, ObservesKeeps
  <1>5. CASE private[g] = Catalog!NoRow
    <2> DEFINE when == IF full THEN ticks + 1 ELSE 0
               row == [checked |-> ticks + 1, start |-> s, full |-> full,
                       verified |-> when, twitch |-> twitch]
    <2>1. when \in 0..OfCatalog.MaxTime /\ when <= ticks + 1 /\ (when > 0 => full)
      BY <1>3, CatalogGiven DEF Catalog!CatalogAssumption
    <2>2. Catalog!Observes(row, g)
      BY <1>1, <1>5
    <2> HIDE DEF when
    <2>3. row \in Catalog!Row /\ row.verified = when /\ row.full = full
      BY <1>3, <2>1 DEF Catalog!Row
    <2> HIDE DEF row
    <2> QED BY <2>1, <2>2, <2>3, ObservesKeeps
  <1> QED BY <1>4, <1>5

LEMMA VerifyKeeps ==
  ASSUME CatalogInv, NEW g \in OfCatalog.Game, Catalog!Verify(g)
  PROVE  CatalogInv'
  <1>1. PICK s \in Catalog!Date :
          Catalog!Observes([private[g] EXCEPT !.start = s, !.full = TRUE, !.verified = ticks + 1], g)
    BY DEF Catalog!Verify
  <1> DEFINE row == [private[g] EXCEPT !.start = s, !.full = TRUE, !.verified = ticks + 1]
  <1>2. ticks \in Nat /\ ticks + 1 \in 0..OfCatalog.MaxTime /\ s \in 0..OfCatalog.MaxToday + 1 /\ private[g] \in Catalog!Row
    BY <1>1, CatalogGiven DEF Catalog!Observes, CatalogInv, Catalog!Date,
       Catalog!CatalogAssumption, Rows
  <1>3. row \in Catalog!Row /\ row.verified = ticks + 1 /\ row.full = TRUE
    BY <1>2 DEF Catalog!Row
  <1>4. Catalog!Observes(row, g)
    BY <1>1
  <1> HIDE DEF row
  <1> QED BY <1>2, <1>3, <1>4, ObservesKeeps

LEMMA LeaveKeeps ==
  ASSUME CatalogInv, NEW g \in OfCatalog.Game, Catalog!Leave(g)
  PROVE  CatalogInv'
  <1>1. Catalog!NoRow.verified <= ticks + 1
    BY NoRowType DEF CatalogInv
  <1> QED BY <1>1, NoRowType, ObservesKeeps DEF Catalog!Leave

LEMMA ExcludeKeeps ==
  ASSUME CatalogInv, NEW g \in OfCatalog.Game, Catalog!Exclude(g)
  PROVE  CatalogInv'
  BY MasterKeeps DEF Catalog!Exclude, CatalogInv

LEMMA MidnightKeeps ==
  ASSUME CatalogInv, Catalog!Midnight
  PROVE  CatalogInv'
  <1>1. today + 1 \in 1..OfCatalog.MaxToday
    BY CatalogGiven DEF Catalog!Midnight, CatalogInv, Catalog!CatalogAssumption
  <1> QED BY <1>1, MasterKeeps DEF Catalog!Midnight, CatalogInv
--------------------------------------------------------------------------------
(* The publication *)

LEMMA FreezeKeeps ==
  ASSUME CatalogInv, Catalog!Freeze
  PROVE  CatalogInv'
  <1>1. /\ publisher' = [pc |-> "fetch", source |-> private, day |-> today, tries |-> 0,
                         built |-> Catalog!NoFiles]
        /\ UNCHANGED <<public, today, ticks, private, auditor>>
    BY DEF Catalog!Freeze, Catalog!Outside, Catalog!Idle
  <1>2. PublisherOK'
    BY <1>1 DEF CatalogInv, PublisherOK
  <1>3. AuditorOK'
    BY <1>1 DEF CatalogInv, AuditorOK
  <1> QED BY <1>1, <1>2, <1>3 DEF CatalogInv

LEMMA IdleIs ==
  ASSUME CatalogInv
  PROVE  /\ Catalog!Idle = [pc |-> Catalog!Idle.pc, source |-> Catalog!Idle.source, day |-> Catalog!Idle.day,
                    tries |-> Catalog!Idle.tries, built |-> Catalog!Idle.built]
         /\ Catalog!Idle.pc = "idle" /\ Catalog!Idle.source \in Rows /\ Verified(Catalog!Idle.source, ticks)
         /\ Catalog!Idle.day \in 1..today
  <1>1. /\ Catalog!Idle.pc = "idle" /\ Catalog!Idle.source = Catalog!Empty /\ Catalog!Idle.day = 1
        /\ Catalog!Idle = [pc |-> Catalog!Idle.pc, source |-> Catalog!Idle.source, day |-> Catalog!Idle.day,
                   tries |-> Catalog!Idle.tries, built |-> Catalog!Idle.built]
    BY DEF Catalog!Idle
  <1>2. Verified(Catalog!Empty, ticks)
    BY NoRowType DEF Verified, CatalogInv
  <1> QED BY <1>1, <1>2, NoRowType DEF CatalogInv

LEMMA FetchKeeps ==
  ASSUME CatalogInv, Catalog!Fetch
  PROVE  CatalogInv'
  <1>1. UNCHANGED <<public, today, ticks, private, auditor>>
    BY DEF Catalog!Fetch, Catalog!Outside
  <1>2. AuditorOK'
    BY <1>1 DEF CatalogInv, AuditorOK
  <1>3. CASE publisher' = Catalog!Idle
    BY <1>1, <1>2, <1>3, IdleIs DEF CatalogInv, PublisherOK
  <1>4. CASE publisher' # Catalog!Idle
    <2> DEFINE f == Catalog!Rendered(publisher.source, publisher.day)
    <2>1. /\ publisher.source \in Rows /\ Verified(publisher.source, ticks)
          /\ publisher.day \in 1..today /\ Past(public.games, publisher.day)
          /\ Catalog!CurrentFollowers(publisher.source)
      BY <1>4 DEF Catalog!Fetch, CatalogInv, PublisherOK
    <2>2. /\ CommitOK(f) /\ f.version <= public.version + 1
          /\ Verified(f.games, ticks) /\ Past(f.games, publisher.day)
          /\ NotOlder(public.catalog, f.catalog)
      BY <2>1, RenderedIs
    <2>3. publisher' = [publisher EXCEPT !.pc = "push", !.tries = @ + 1, !.built = f]
      BY <1>4 DEF Catalog!Fetch
    <2> HIDE DEF f
    <2>4. publisher' = [pc |-> "push", source |-> publisher.source, day |-> publisher.day,
                        tries |-> publisher.tries + 1, built |-> f]
      BY <2>3 DEF CatalogInv, PublisherOK
    <2>5. PublisherOK'
      BY <1>1, <2>1, <2>2, <2>4 DEF PublisherOK
    <2> QED BY <1>1, <1>2, <2>5 DEF CatalogInv
  <1> QED BY <1>3, <1>4

(* A commit of others leaves the publisher behind, who finds that it does not fit. *)
LEMMA Behind ==
  ASSUME CatalogInv, public'.version = public.version + 1, Past(public'.games, publisher.day),
         publisher' = publisher, today' = today, ticks' \in {ticks, ticks + 1}
  PROVE  PublisherOK'
  <1>1. public.version \in Nat /\ ticks \in Nat
    BY DEF CatalogInv, CommitOK
  <1>2. Verified(publisher.source, ticks')
    BY <1>1, AgeMonotone DEF CatalogInv, PublisherOK
  <1>3. publisher.pc = "push" =>
          /\ CommitOK(publisher.built) /\ publisher.built.version <= public'.version + 1
          /\ publisher.built.version # public'.version + 1
    BY <1>1 DEF CatalogInv, PublisherOK, CommitOK
  <1> QED BY <1>2, <1>3 DEF CatalogInv, PublisherOK

LEMMA CommitKeeps ==
  ASSUME CatalogInv, Catalog!Push
  PROVE  CatalogInv' /\ Catalog!KeepsNewer
  <1> DEFINE again == [publisher EXCEPT !.pc = "fetch", !.built = Catalog!NoFiles]
  <1>1. UNCHANGED <<today, ticks, private, auditor>> /\ publisher.pc = "push"
    BY DEF Catalog!Push, Catalog!Outside
  <1>2. again = [pc |-> "fetch", source |-> publisher.source, day |-> publisher.day,
                 tries |-> publisher.tries, built |-> Catalog!NoFiles]
    <2>1. again = [publisher EXCEPT !.pc = "fetch", !.built = Catalog!NoFiles]
      OBVIOUS
    <2> HIDE DEF again
    <2>2. PICK c, s, d, n, f : publisher = [pc |-> c, source |-> s, day |-> d, tries |-> n, built |-> f]
      BY Zenon DEF CatalogInv, PublisherOK
    <2> QED BY <2>1, <2>2
  <1>3. publisher' = Catalog!Idle \/ publisher' = again
    BY DEF Catalog!Push
  <1> HIDE DEF again
  <1>4. ASSUME Past(public'.games, publisher.day)
        PROVE  PublisherOK'
    <2>1. CASE publisher' = Catalog!Idle
      BY <1>1, <2>1, IdleIs DEF PublisherOK
    <2>2. CASE publisher' = again
      BY <1>1, <1>2, <1>4, <2>2 DEF CatalogInv, PublisherOK
    <2> QED BY <1>3, <2>1, <2>2
  <1>5. CASE public' = public
    <2>1. PublisherOK'
      BY <1>1, <1>4, <1>5 DEF CatalogInv, PublisherOK
    <2>2. AuditorOK'
      BY <1>1, <1>5 DEF CatalogInv, AuditorOK
    <2>3. NotOlder(public.catalog, public.catalog)
      BY AgeMonotone DEF CatalogInv, CommitOK, Agree
    <2> QED BY <1>1, <1>5, <2>1, <2>2, <2>3 DEF CatalogInv, Catalog!KeepsNewer, NotOlder
  <1>6. CASE Catalog!Fits /\ public' = publisher.built
    <2>1. /\ CommitOK(publisher.built) /\ publisher.built.version = public.version + 1
          /\ Verified(publisher.built.games, ticks) /\ Past(publisher.built.games, publisher.day)
          /\ NotOlder(public.catalog, publisher.built.catalog)
      BY <1>1, <1>6 DEF CatalogInv, PublisherOK, Catalog!Fits
    <2>2. PublisherOK'
      BY <1>4, <1>6, <2>1
    <2>3. Past(publisher.built.games, today)
      <3>1. publisher.day \in Int /\ today \in Int /\ publisher.day <= today
        BY DEF CatalogInv, PublisherOK
      <3> QED BY <2>1, <3>1, AgeMonotone DEF CommitOK
    <2>4. AuditorOK'
      <3>1. public.version \in Nat
        BY DEF CatalogInv, CommitOK
      <3> QED BY <1>1, <1>6, <2>1, <3>1 DEF CatalogInv, AuditorOK
    <2> QED BY <1>1, <1>6, <2>1, <2>2, <2>3, <2>4 DEF CatalogInv, Catalog!KeepsNewer, NotOlder
  <1> QED BY <1>5, <1>6 DEF Catalog!Push
--------------------------------------------------------------------------------
(* The other publishers: what they push is made of the rows that they leave. *)
LEMMA OthersPush ==
  ASSUME CatalogInv, NEW rows \in Rows, NEW by, NEW lists, NEW out, NEW doubts, NEW told,
         public' = [version |-> public.version + 1, by |-> by, day |-> today,
                    games |-> rows, catalog |-> rows, upcoming |-> lists, released |-> out,
                    unconfirmed |-> doubts, origins |-> told],
         lists = Catalog!Upcoming(rows, today)
           \ (IF by = "audit" THEN {g \in OfCatalog.Game : rows[g].twitch} ELSE {}),
         out \subseteq Catalog!Released(rows, today),
         Verified(rows, ticks'), NotOlder(public.catalog, rows),
         \A g \in OfCatalog.Game : rows[g] = public.catalog[g] \/ rows[g].full \/ rows[g] = Catalog!NoRow,
         UNCHANGED <<private, today, publisher>>,
         ticks' \in {ticks, ticks + 1}, ticks' \in 0..OfCatalog.MaxTime,
         auditor' = auditor \/ (auditor' = [auditor EXCEPT !.busy = FALSE])
  PROVE  CatalogInv' /\ Catalog!KeepsNewer
  <1>1. /\ public.version \in Nat /\ public.games = public.catalog /\ public.games \in Rows
        /\ ticks \in Nat /\ ticks' \in Nat /\ ticks <= ticks' /\ today \in Nat
    BY DEF CatalogInv, CommitOK, Agree
  <1>2. ASSUME NEW day, Past(public.games, day)
        PROVE  Past(rows, day)
    BY <1>1, <1>2 DEF Past
  <1>3. /\ IsFiles(public') /\ public'.version = public.version + 1 /\ public'.by = by
        /\ public'.day = today /\ public'.games = rows /\ public'.catalog = rows
        /\ public'.upcoming = lists /\ public'.released = out
    BY DEF IsFiles
  <1>4. CommitOK(public')
    <2>1. Past(rows, today) /\ public'.version \in Nat
      BY <1>1, <1>2, <1>3 DEF CatalogInv
    <2> QED BY <1>1, <1>3, <2>1, FilesAgree
  <1>5. PublisherOK'
    <2>1. publisher.pc # "idle" => Past(public'.games, publisher.day)
      BY <1>2, <1>3 DEF CatalogInv, PublisherOK
    <2>2. CASE publisher.pc = "idle"
      <3>1. Verified(publisher.source, ticks')
        BY <1>1, AgeMonotone DEF CatalogInv, PublisherOK
      <3> QED BY <2>2, <3>1 DEF CatalogInv, PublisherOK
    <2>3. CASE publisher.pc # "idle"
      BY <1>3, <2>1, <2>3, Behind
    <2> QED BY <2>2, <2>3
  <1>6. AuditorOK'
    <2>1. /\ auditor'.at = auditor.at /\ auditor'.base = auditor.base
          /\ auditor'.busy => auditor.busy
          /\ auditor' = [busy |-> auditor'.busy, base |-> auditor'.base, at |-> auditor'.at]
      <3>1. PICK y, b, a : auditor = [busy |-> y, base |-> b, at |-> a]
        BY Zenon DEF CatalogInv, AuditorOK
      <3> QED BY <3>1
    <2> QED BY <1>1, <1>3, <2>1 DEF CatalogInv, AuditorOK
  <1>7. Verified(public'.games, ticks') /\ Past(public'.games, today)
    BY <1>2, <1>3 DEF CatalogInv
  <1>8. Verified(private, ticks')
    BY <1>1, AgeMonotone DEF CatalogInv
  <1>9. Catalog!KeepsNewer
    BY <1>3 DEF Catalog!KeepsNewer, NotOlder
  <1> QED BY <1>4, <1>5, <1>6, <1>7, <1>8, <1>9 DEF CatalogInv

LEMMA ContentKeeps ==
  ASSUME CatalogInv, NEW g \in OfCatalog.Game, Catalog!Refresh(g)
  PROVE  CatalogInv' /\ Catalog!KeepsNewer
  <1>1. PICK s \in Catalog!Date :
          LET row == [public.catalog[g] EXCEPT !.start = s, !.full = TRUE, !.verified = ticks + 1]
              rows == [public.catalog EXCEPT ![g] = row]
          IN public' = [public EXCEPT !.version = @ + 1, !.by = "content", !.day = today,
                         !.games = [@ EXCEPT ![g] = row], !.catalog = rows,
                         !.upcoming = Catalog!Upcoming(rows, today), !.released = Catalog!Released(rows, today),
                         !.origins = Catalog!Origins(public.catalog, rows, -ticks')]
    BY DEF Catalog!Refresh
  <1> DEFINE old == public.catalog[g]
             row == [old EXCEPT !.start = s, !.full = TRUE, !.verified = ticks + 1]
             rows == [public.catalog EXCEPT ![g] = row]
             up == Catalog!Upcoming(rows, today)
             out == Catalog!Released(rows, today)
             told == Catalog!Origins(public.catalog, rows, -ticks')
  <1>2. /\ public.catalog \in Rows /\ public.games = public.catalog /\ IsFiles(public)
        /\ ticks \in Nat /\ s \in 0..OfCatalog.MaxToday + 1
        /\ ticks' = ticks + 1 /\ ticks' \in 0..OfCatalog.MaxTime
        /\ UNCHANGED <<private, today, publisher, auditor>>
    BY CatalogGiven DEF CatalogInv, CommitOK, Agree, Catalog!Refresh, Catalog!Backend,
       Catalog!Date, Catalog!CatalogAssumption
  <1>3. old \in Catalog!Row /\ old.verified <= ticks
    BY <1>2 DEF Rows, CatalogInv, Verified
  <1>4. row \in Catalog!Row /\ row.full = TRUE /\ row.verified = ticks + 1 /\ row.checked = old.checked
    BY <1>2, <1>3 DEF Catalog!Row
  <1>5. public' = [public EXCEPT !.version = @ + 1, !.by = "content", !.day = today,
                     !.games = rows, !.catalog = rows, !.upcoming = up, !.released = out,
                     !.origins = told]
    BY <1>1, <1>2, Zenon
  <1> HIDE DEF row
  <1>6. rows \in Rows
    BY <1>2, <1>4 DEF Rows
  <1>7. Verified(rows, ticks')
    <2>1. Verified(public.catalog, ticks')
      BY <1>2, AgeMonotone DEF CatalogInv
    <2> QED BY <1>2, <1>4, <2>1 DEF Verified, Rows
  <1>8. NotOlder(public.catalog, rows)
    <2>1. old.verified \in Int /\ old.checked \in Int /\ old.verified <= row.verified
      BY <1>2, <1>3, <1>4, CatalogGiven DEF Catalog!Row, Catalog!CatalogAssumption
    <2>2. NotOlder(public.catalog, public.catalog)
      BY <1>2, AgeMonotone DEF CatalogInv
    <2> HIDE DEF old
    <2>3. rows[g] = row /\ \A h \in OfCatalog.Game \ {g} : rows[h] = public.catalog[h]
      BY <1>2 DEF Rows
    <2> HIDE DEF rows
    <2> QED BY <1>4, <2>1, <2>2, <2>3 DEF NotOlder, old
  <1>9. \A h \in OfCatalog.Game : rows[h] = public.catalog[h] \/ rows[h].full
    BY <1>2, <1>4 DEF Rows
  <1> HIDE DEF rows, told
  <1>10. PICK told2, doubts :
           public' = [version |-> public.version + 1, by |-> "content", day |-> today,
                      games |-> rows, catalog |-> rows, upcoming |-> up, released |-> out,
                      unconfirmed |-> doubts, origins |-> told2]
    <2> HIDE DEF up, out
    <2>1. PICK v, b, d, gs, c, u, r, n, o :
            public = [version |-> v, by |-> b, day |-> d, games |-> gs, catalog |-> c,
                      upcoming |-> u, released |-> r, unconfirmed |-> n, origins |-> o]
      BY <1>2, Zenon DEF IsFiles
    <2>2. public' = [version |-> v + 1, by |-> "content", day |-> today, games |-> rows,
                     catalog |-> rows, upcoming |-> up, released |-> out, unconfirmed |-> n,
                     origins |-> told]
      BY <1>5, <2>1
    <2>3. public.version = v
      BY <2>1
    <2> QED BY <2>2, <2>3
  <1>11. /\ up = Catalog!Upcoming(rows, today) \ (IF "content" = "audit" THEN {h \in OfCatalog.Game : rows[h].twitch} ELSE {})
         /\ out \subseteq Catalog!Released(rows, today)
    OBVIOUS
  <1> HIDE DEF up, out
  <1> QED BY <1>2, <1>6, <1>7, <1>8, <1>9, <1>10, <1>11, OthersPush

LEMMA AuditStartsKeeps ==
  ASSUME CatalogInv, Catalog!AuditStarts
  PROVE  CatalogInv'
  <1>1. /\ UNCHANGED <<public, private, today, publisher>>
        /\ auditor' = [busy |-> TRUE, base |-> public.version, at |-> ticks + 1]
        /\ ticks' = ticks + 1 /\ ticks' \in 0..OfCatalog.MaxTime /\ ticks \in Nat
    BY CatalogGiven DEF Catalog!AuditStarts, Catalog!Backend, CatalogInv, Catalog!CatalogAssumption
  <1>2. Verified(public.games, ticks') /\ Verified(private, ticks')
    BY <1>1, AgeMonotone DEF CatalogInv, CommitOK
  <1>3. PublisherOK'
    <2>1. Verified(publisher.source, ticks')
      BY <1>1, AgeMonotone DEF CatalogInv, PublisherOK
    <2>2. ASSUME publisher.pc = "push", publisher.built.version = public.version + 1
          PROVE  Verified(publisher.built.games, ticks')
      BY <1>1, <2>2, AgeMonotone DEF CatalogInv, PublisherOK, CommitOK
    <2> QED BY <1>1, <2>1, <2>2 DEF CatalogInv, PublisherOK
  <1>4. AuditorOK'
    <2>1. \A g \in OfCatalog.Game : public.catalog[g].verified <= ticks'
      BY <1>2 DEF CatalogInv, CommitOK, Agree, Verified
    <2>2. public.version \in Nat
      BY DEF CatalogInv, CommitOK
    <2> QED BY <1>1, <2>1, <2>2 DEF AuditorOK
  <1> QED BY <1>1, <1>2, <1>3, <1>4 DEF CatalogInv

LEMMA RedatedIs ==
  ASSUME CatalogInv, NEW row \in Catalog!Row, NEW s \in Catalog!Date, row.verified <= auditor.at
  PROVE  LET dated == Catalog!Redated(row, s)
         IN /\ dated \in Catalog!Row /\ dated.full = TRUE /\ dated.checked = row.checked
            /\ dated.verified >= row.verified /\ dated.verified <= ticks
  <1> DEFINE when == IF row.full /\ row.start = s /\ row.verified # 0 THEN row.verified ELSE auditor.at
             dated == [row EXCEPT !.start = s, !.full = TRUE, !.verified = when]
  <1>1. /\ auditor.at \in 0..OfCatalog.MaxTime /\ auditor.at <= ticks /\ ticks \in Nat
        /\ row.verified \in 0..OfCatalog.MaxTime /\ s \in 0..OfCatalog.MaxToday + 1
    BY CatalogGiven DEF CatalogInv, AuditorOK, Catalog!Row, Catalog!Date, Catalog!CatalogAssumption
  <1>2. when \in 0..OfCatalog.MaxTime /\ when >= row.verified /\ when <= ticks
    BY <1>1, CatalogGiven DEF Catalog!CatalogAssumption
  <1>3. Catalog!Redated(row, s) = dated
    BY DEF Catalog!Redated
  <1> HIDE DEF when
  <1>4. dated \in Catalog!Row /\ dated.full = TRUE /\ dated.checked = row.checked /\ dated.verified = when
    BY <1>1, <1>2 DEF Catalog!Row
  <1> HIDE DEF dated
  <1> QED BY <1>2, <1>3, <1>4

LEMMA AuditPushesKeeps ==
  ASSUME CatalogInv, Catalog!AuditPushes
  PROVE  CatalogInv' /\ Catalog!KeepsNewer
  <1>1. /\ UNCHANGED <<private, today, publisher, ticks>>
        /\ auditor' = [auditor EXCEPT !.busy = FALSE] /\ auditor.busy
        /\ ticks \in Nat /\ ticks \in 0..OfCatalog.MaxTime
    BY DEF Catalog!AuditPushes, Catalog!Backend, CatalogInv
  <1>2. /\ public.catalog \in Rows /\ public.games = public.catalog /\ IsFiles(public)
        /\ Verified(public.catalog, ticks)
    BY DEF CatalogInv, CommitOK, Agree
  <1>3. CASE public' = public
    <2>1. PublisherOK'
      BY <1>1, <1>3 DEF CatalogInv, PublisherOK
    <2>2. AuditorOK'
      <3>1. PICK y, b, a : auditor = [busy |-> y, base |-> b, at |-> a]
        BY Zenon DEF CatalogInv, AuditorOK
      <3>2. auditor' = [busy |-> FALSE, base |-> b, at |-> a]
        BY <1>1, <3>1
      <3> QED BY <1>1, <3>1, <3>2 DEF CatalogInv, AuditorOK
    <2>3. NotOlder(public.catalog, public.catalog)
      BY <1>2, AgeMonotone DEF CatalogInv
    <2> QED BY <1>1, <1>3, <2>1, <2>2, <2>3 DEF CatalogInv, Catalog!KeepsNewer, NotOlder
  <1>4. CASE /\ public.version = auditor.base
             /\ \E seen \in [Catalog!Upcoming(public.catalog, today) -> Catalog!SeenDate] : public' = Catalog!Audited(seen)
    <2>1. PICK seen \in [Catalog!Upcoming(public.catalog, today) -> Catalog!SeenDate] : public' = Catalog!Audited(seen)
      BY <1>4
    <2> DEFINE future == DOMAIN seen
               gone == {g \in future : seen[g] = 0}
               rows == [g \in OfCatalog.Game |->
                 LET row == public.catalog[g]
                 IN IF g \in gone THEN Catalog!NoRow
                    ELSE IF g \in future THEN Catalog!Redated(row, seen[g]) ELSE row]
               listed == {g \in OfCatalog.Game : ~rows[g].twitch}
               up == Catalog!Upcoming(rows, today) \cap listed
               out == Catalog!Released(rows, today) \cap listed
               doubts == (public.unconfirmed \ future) \cup gone
               files == [g \in OfCatalog.Game |-> IF g \in gone THEN Catalog!NoRow
                                        ELSE IF rows[g] # Catalog!NoRow THEN rows[g] ELSE public.games[g]]
    <2>2. public' = [public EXCEPT !.version = @ + 1, !.by = "audit", !.day = today,
                       !.games = files, !.catalog = rows, !.upcoming = up, !.released = out,
                       !.unconfirmed = doubts]
      BY <2>1, Zenon DEF Catalog!Audited
    <2>3. \A g \in OfCatalog.Game : public.catalog[g].verified <= auditor.at
      BY <1>1, <1>4 DEF CatalogInv, AuditorOK
    <2>4. ASSUME NEW g \in OfCatalog.Game
          PROVE  /\ rows[g] \in Catalog!Row /\ rows[g].verified <= ticks
                 /\ rows[g].verified > 0 => rows[g].full
                 /\ rows[g] # Catalog!NoRow => /\ rows[g].verified >= public.catalog[g].verified
                                               /\ rows[g].checked >= public.catalog[g].checked
                 /\ rows[g] = public.catalog[g] \/ rows[g].full \/ rows[g] = Catalog!NoRow
                 /\ files[g] = rows[g]
      <3> DEFINE old == public.catalog[g]
      <3>1. /\ old \in Catalog!Row /\ old.verified <= ticks /\ (old.verified > 0 => old.full)
            /\ old.verified <= auditor.at /\ old.verified \in Int /\ old.checked \in Int
        BY <1>2, <2>3, CatalogGiven DEF Rows, Verified, Catalog!Row, Catalog!CatalogAssumption
      <3>2. CASE g \in gone
        <4>1. rows[g] = Catalog!NoRow /\ files[g] = Catalog!NoRow
          BY <3>2
        <4> HIDE DEF rows, files
        <4> QED BY <1>1, <4>1, NoRowType
      <3>3. CASE g \in future \ gone
        <4>1. seen[g] \in Catalog!Date
          BY <3>3 DEF Catalog!SeenDate
        <4>2. rows[g] = Catalog!Redated(old, seen[g])
          BY <3>3
        <4>3. /\ rows[g] \in Catalog!Row /\ rows[g].full = TRUE /\ rows[g].checked = old.checked
              /\ rows[g].verified >= old.verified /\ rows[g].verified <= ticks
          <5> DEFINE day == seen[g]
                     built == rows[g]
          <5>1. day \in Catalog!Date /\ built = Catalog!Redated(old, day)
            BY <4>1, <4>2
          <5> HIDE DEF old, day, built
          <5>2. /\ built \in Catalog!Row /\ built.full = TRUE /\ built.checked = old.checked
                /\ built.verified >= old.verified /\ built.verified <= ticks
            BY <3>1, <5>1, RedatedIs
          <5> QED BY <5>2 DEF built
        <4>4. rows[g] # Catalog!NoRow
          BY <4>3, NoRowType
        <4>5. files[g] = rows[g]
          BY <3>3, <4>4
        <4> HIDE DEF rows, files
        <4> QED BY <3>1, <4>3, <4>5
      <3>4. CASE g \notin future
        <4>1. g \notin gone /\ rows[g] = old
          BY <3>4
        <4>2. files[g] = rows[g]
          BY <1>2, <4>1
        <4> HIDE DEF rows, files
        <4> QED BY <3>1, <4>1, <4>2
      <3> QED BY <3>2, <3>3, <3>4
    <2>5. rows \in Rows
      <3>1. rows = [g \in OfCatalog.Game |-> rows[g]]
        OBVIOUS
      <3> HIDE DEF rows
      <3> QED BY <2>4, <3>1 DEF Rows
    <2>6. files = rows
      <3>1. rows = [g \in OfCatalog.Game |-> rows[g]] /\ files = [g \in OfCatalog.Game |-> files[g]]
        OBVIOUS
      <3> HIDE DEF rows, files
      <3> QED BY <2>4, <3>1
    <2>7. up = Catalog!Upcoming(rows, today)
            \ (IF "audit" = "audit" THEN {g \in OfCatalog.Game : rows[g].twitch} ELSE {})
      <3>1. \A g \in Catalog!Upcoming(rows, today) : g \in OfCatalog.Game
        BY DEF Catalog!Upcoming, Catalog!Shown
      <3> HIDE DEF rows
      <3> QED BY <3>1
    <2>8. out \subseteq Catalog!Released(rows, today)
      OBVIOUS
    <2> HIDE DEF rows, files
    <2>9. Verified(rows, ticks) /\ NotOlder(public.catalog, rows)
      BY <2>4 DEF Verified, NotOlder
    <2> HIDE DEF up, out, doubts
    <2>10. PICK told :
            public' = [version |-> public.version + 1, by |-> "audit", day |-> today,
                       games |-> rows, catalog |-> rows, upcoming |-> up, released |-> out,
                       unconfirmed |-> doubts, origins |-> told]
      <3>1. PICK v, b, d, gs, c, u, r, n, o :
              public = [version |-> v, by |-> b, day |-> d, games |-> gs, catalog |-> c,
                         upcoming |-> u, released |-> r, unconfirmed |-> n, origins |-> o]
        BY <1>2, Zenon DEF IsFiles
      <3>2. public' = [version |-> v + 1, by |-> "audit", day |-> today, games |-> rows,
                       catalog |-> rows, upcoming |-> up, released |-> out,
                       unconfirmed |-> doubts, origins |-> o]
        BY <2>2, <2>6, <3>1
      <3>3. public.version = v
        BY <3>1
      <3> QED BY <3>2, <3>3
    <2>11. \A g \in OfCatalog.Game : rows[g] = public.catalog[g] \/ rows[g].full \/ rows[g] = Catalog!NoRow
      BY <2>4
    <2> QED BY <1>1, <2>5, <2>7, <2>8, <2>9, <2>10, <2>11, OthersPush
  <1> QED BY <1>3, <1>4 DEF Catalog!AuditPushes

--------------------------------------------------------------------------------
LEMMA CatalogStarts == Catalog!Init => CatalogInv
  <1> SUFFICES ASSUME Catalog!Init PROVE CatalogInv
    OBVIOUS
  <1>1. /\ Catalog!NoFiles = [version |-> 0, by |-> "catalog", day |-> 1, games |-> Catalog!Empty,
                      catalog |-> Catalog!Empty, upcoming |-> {}, released |-> {}, unconfirmed |-> {},
                      origins |-> <<>>]
        /\ public = Catalog!NoFiles /\ publisher = Catalog!Idle /\ private = Catalog!Empty /\ today = 1 /\ ticks = 0
        /\ auditor = [busy |-> FALSE, base |-> 0, at |-> 0]
    BY DEF Catalog!Init, Catalog!NoFiles
  <1>2. Verified(Catalog!Empty, 0) /\ Past(Catalog!Empty, 1) /\ Catalog!Upcoming(Catalog!Empty, 1) = {}
    BY NoRowType DEF Verified, Past, Catalog!Upcoming, Catalog!Shown
  <1>3. /\ IsFiles(public) /\ public.games = Catalog!Empty /\ public.catalog = Catalog!Empty /\ public.version = 0
        /\ public.day = 1 /\ public.upcoming = {} /\ public.released = {} /\ public.by = "catalog"
    BY <1>1 DEF IsFiles
  <1>4. CommitOK(public)
    BY <1>2, <1>3, NoRowType, FilesAgree
  <1>5. PublisherOK /\ AuditorOK
    BY <1>1, <1>2, NoRowType DEF PublisherOK, AuditorOK, Catalog!Idle
  <1> QED BY <1>1, <1>2, <1>3, <1>4, <1>5, NoRowType, CatalogGiven DEF CatalogInv,
             Catalog!CatalogAssumption

LEMMA CatalogSteps ==
  CatalogInv /\ [Catalog!Next]_(Catalog!vars) =>
    CatalogInv' /\ (Catalog!KeepsNewer \/ UNCHANGED Catalog!vars)
  <1> SUFFICES ASSUME CatalogInv, [Catalog!Next]_(Catalog!vars)
               PROVE  CatalogInv' /\ (Catalog!KeepsNewer \/ UNCHANGED Catalog!vars)
    OBVIOUS
  <1>1. ASSUME UNCHANGED public PROVE Catalog!KeepsNewer
    <2>1. NotOlder(public.catalog, public.catalog)
      BY AgeMonotone DEF CatalogInv, CommitOK, Agree
    <2> QED BY <1>1, <2>1 DEF Catalog!KeepsNewer, NotOlder
  <1>2. CASE \E g \in OfCatalog.Game : Catalog!Count(g) \/ Catalog!Verify(g) \/ Catalog!Leave(g) \/ Catalog!Exclude(g)
    <2>1. UNCHANGED public
      BY <1>2 DEF Catalog!Count, Catalog!Verify, Catalog!Leave, Catalog!Exclude, Catalog!Observes,
         Catalog!World
    <2> QED BY <1>1, <1>2, <2>1, CountKeeps, VerifyKeeps, LeaveKeeps, ExcludeKeeps
  <1>3. CASE \E g \in OfCatalog.Game : Catalog!Refresh(g)
    BY <1>3, ContentKeeps
  <1>4. CASE Catalog!Midnight
    BY <1>1, <1>4, MidnightKeeps DEF Catalog!Midnight, Catalog!World
  <1>5. CASE Catalog!Freeze
    BY <1>1, <1>5, FreezeKeeps DEF Catalog!Freeze
  <1>6. CASE Catalog!Fetch
    BY <1>1, <1>6, FetchKeeps DEF Catalog!Fetch
  <1>7. CASE Catalog!Push
    BY <1>7, CommitKeeps
  <1>8. CASE Catalog!AuditStarts
    BY <1>1, <1>8, AuditStartsKeeps DEF Catalog!AuditStarts
  <1>9. CASE Catalog!AuditPushes
    BY <1>9, AuditPushesKeeps
  <1>10. CASE UNCHANGED Catalog!vars
    <2>1. PublisherOK' /\ AuditorOK'
      BY <1>10 DEF Catalog!vars, CatalogInv, PublisherOK, AuditorOK
    <2> QED BY <1>10, <2>1 DEF Catalog!vars, CatalogInv
  <1> QED BY <1>2, <1>3, <1>4, <1>5, <1>6, <1>7, <1>8, <1>9, <1>10 DEF Catalog!Next

(* CatalogAgrees: the files of every commit agree. *)
THEOREM CatalogAlways == Catalog!Spec => []Catalog!CatalogAgrees
  <1>1. CatalogInv => Catalog!CatalogAgrees
    BY DEF CatalogInv, CommitOK, Agree, Catalog!CatalogAgrees
  <1> QED BY <1>1, CatalogStarts, CatalogSteps, PTL DEF Catalog!Spec

(* KeepsNewer *)
THEOREM NewerAlways == Catalog!Spec => [][Catalog!KeepsNewer]_(Catalog!vars)
  BY CatalogStarts, CatalogSteps, PTL DEF Catalog!Spec
--------------------------------------------------------------------------------
(* The activity origins *)

LEMMA CatalogCounts == \A S : Catalog!Cardinality(S) = Cardinality(S)
  BY Zenon DEF Catalog!Cardinality, Cardinality

Event == [game : OfCatalog.Game, previous : 0..OfCatalog.MaxToday + 1, date : Catalog!Date, of : Int]
Dated(rows) ==
  \A g \in OfCatalog.Game : rows[g] # Catalog!NoRow => rows[g].start \in Catalog!Date

Change(before, after, g, name) ==
  [game |-> g, previous |-> before[g].start, date |-> after[g].start, of |-> name]
Changed(before, after) ==
  {g \in Catalog!Shown(after) : before[g] = Catalog!NoRow \/ before[g].start # after[g].start}

(* What a publication adds: each change once, and none that it has told. *)
AddsRow(o, s, before, after, name) ==
  /\ s \in Seq(Event)
  /\ \A k \in 1..Len(s) :
       /\ s[k].game \in Changed(before, after)
       /\ s[k] = Change(before, after, s[k].game, name)
       /\ \A i \in 1..Len(o) : o[i] # s[k]
  /\ \A k, l \in 1..Len(s) : s[k].game = s[l].game => k = l
  /\ \A g \in Changed(before, after) :
       \/ \E k \in 1..Len(s) : s[k].game = g
       \/ \E i \in 1..Len(o) : o[i] = Change(before, after, g, name)

(* A finite set has a sequence of its own. *)
LEMMA SetToSeqIs ==
  ASSUME NEW S, IsFiniteSet(S)
  PROVE  LET s == Catalog!SetToSeq(S)
         IN /\ s \in Seq(S) /\ (\A x \in S : \E k \in 1..Len(s) : s[k] = x)
            /\ \A k, l \in 1..Len(s) : s[k] = s[l] => k = l
  <1> DEFINE n == Cardinality(S)
             s == Catalog!SetToSeq(S)
  <1>1. n \in Nat /\ ExistsBijection(1..n, S)
    BY FS_CardinalityType
  <1>2. PICK f : f \in Bijection(1..n, S)
    BY <1>1 DEF ExistsBijection
  <1>3. f \in [1..n -> S] /\ Catalog!IsInjective(f)
    BY <1>2 DEF Bijection, Injection, IsInjective, Catalog!IsInjective
  <1>4. Catalog!Cardinality(S) = n
    BY CatalogCounts
  <1>5. s \in [1..n -> S] /\ Catalog!IsInjective(s)
    <2>1. s = CHOOSE h \in [1..n -> S] : Catalog!IsInjective(h)
      BY <1>4, Zenon DEF Catalog!SetToSeq
    <2> HIDE DEF s, n
    <2> QED BY <1>3, <2>1
  <1> HIDE DEF s
  <1>6. s \in Seq(S) /\ Len(s) = n
    BY <1>1, <1>5
  <1> DEFINE T == {s[k] : k \in 1..n}
  <1>7. T \subseteq S
    BY <1>5
  <1>8. s \in Bijection(1..n, T)
    <2>1. \A a, b \in 1..n : s[a] = s[b] => a = b
      BY <1>5 DEF Catalog!IsInjective
    <2>2. DOMAIN s = 1..n
      BY <1>5
    <2>3. s \in [1..n -> T]
      BY <1>5
    <2>4. \A t \in T : \E k \in 1..n : s[k] = t
      OBVIOUS
    <2> HIDE DEF T
    <2> QED BY <2>1, <2>2, <2>3, <2>4 DEF Bijection, Injection, Surjection, IsInjective
  <1> HIDE DEF T
  <1>9. ExistsBijection(1..n, T)
    BY <1>8 DEF ExistsBijection
  <1>10. Cardinality(T) = n
    BY <1>1, <1>9, FS_CountingElements
  <1>11. T = S
    BY <1>7, <1>10, FS_Subset
  <1>12. /\ \A x \in S : \E k \in 1..Len(s) : s[k] = x
         /\ \A k, l \in 1..Len(s) : s[k] = s[l] => k = l
    BY <1>5, <1>6, <1>11 DEF T, Catalog!IsInjective
  <1> QED BY <1>6, <1>12 DEF s

(* The events of a commit, and what a publication adds to them. *)
LEMMA OriginsIs ==
  ASSUME public.origins \in Seq(Event), NEW before \in Rows, Dated(before),
         NEW after \in Rows, Dated(after), NEW name \in Int
  PROVE  \E s : /\ Catalog!Origins(before, after, name) = public.origins \o s
                /\ AddsRow(public.origins, s, before, after, name)
  <1> DEFINE o == public.origins
             changed == Changed(before, after)
             events == {Change(before, after, g, name) : g \in changed}
             fresh == events \ Catalog!Range(o)
             s == Catalog!SetToSeq(fresh)
  <1>1. Catalog!Origins(before, after, name) = o \o s
    BY DEF Catalog!Origins, Changed, Change
  <1>2. changed \subseteq OfCatalog.Game /\ IsFiniteSet(changed)
    <2>1. changed \subseteq OfCatalog.Game
      BY DEF Changed, Catalog!Shown
    <2>2. IsFiniteSet(OfCatalog.Game)
      BY CatalogGiven, Zenon DEF Catalog!CatalogAssumption, Catalog!IsFiniteSet, IsFiniteSet
    <2> HIDE DEF changed
    <2> QED BY <2>1, <2>2, FS_Subset
  <1>3. IsFiniteSet(fresh)
    <2>1. IsFiniteSet(events)
      <3> HIDE DEF changed
      <3>1. \A g : Change(before, after, g, name).game = g
        BY DEF Change
      <3> DEFINE f == [g \in changed |-> Change(before, after, g, name)]
      <3>2. f \in Bijection(changed, events)
        BY <3>1 DEF Bijection, Injection, Surjection, IsInjective
      <3> HIDE DEF f, events
      <3>3. ExistsBijection(changed, events)
        BY <3>2 DEF ExistsBijection
      <3> QED BY <1>2, <3>3, FS_Bijection
    <2>2. fresh \subseteq events
      OBVIOUS
    <2> HIDE DEF fresh, events
    <2> QED BY <2>1, <2>2, FS_Subset
  <1>4. /\ s \in Seq(fresh) /\ (\A x \in fresh : \E k \in 1..Len(s) : s[k] = x)
        /\ \A k, l \in 1..Len(s) : s[k] = s[l] => k = l
    BY <1>3, SetToSeqIs
  <1>5. \A x : x \in Catalog!Range(o) <=> \E i \in 1..Len(o) : o[i] = x
    <2>1. DOMAIN o = 1..Len(o)
      OBVIOUS
    <2> QED BY <2>1 DEF Catalog!Range
  <1>6. ASSUME NEW g \in changed
        PROVE  Change(before, after, g, name) \in Event /\ Change(before, after, g, name).game = g
    <2>1. /\ g \in OfCatalog.Game /\ before[g] \in Catalog!Row /\ after[g] \in Catalog!Row
          /\ after[g] # Catalog!NoRow
      BY <1>2 DEF Changed, Catalog!Shown, Rows
    <2>2. before[g].start \in 0..OfCatalog.MaxToday + 1 /\ after[g].start \in Catalog!Date
      BY <2>1 DEF Dated, Catalog!Row
    <2> QED BY <2>1, <2>2 DEF Change, Event
  <1> HIDE DEF s, o, changed
  <1>7. \A x \in fresh : \E g \in changed : x = Change(before, after, g, name)
    OBVIOUS
  <1>8. \A g \in changed : Change(before, after, g, name) \in fresh
           \/ \E i \in 1..Len(o) : o[i] = Change(before, after, g, name)
    BY <1>5
  <1>9. \A x \in fresh : x \in Event /\ x.game \in changed
                        /\ x = Change(before, after, x.game, name)
                        /\ \A i \in 1..Len(o) : o[i] # x
    BY <1>5, <1>6
  <1> HIDE DEF fresh, events
  <1>10. s \in Seq(Event) /\ \A k \in 1..Len(s) : s[k] \in fresh
    BY <1>4, <1>9
  <1>11. \A g \in changed :
           \/ \E k \in 1..Len(s) : s[k].game = g
           \/ \E i \in 1..Len(o) : o[i] = Change(before, after, g, name)
    BY <1>4, <1>6, <1>8
  <1>12. \A k, l \in 1..Len(s) : s[k].game = s[l].game => k = l
    <2> SUFFICES ASSUME NEW k \in 1..Len(s), NEW l \in 1..Len(s), s[k].game = s[l].game
                 PROVE  k = l
      OBVIOUS
    <2>1. s[k] \in fresh /\ s[l] \in fresh
      BY <1>10
    <2>2. /\ s[k] = Change(before, after, s[k].game, name)
          /\ s[l] = Change(before, after, s[l].game, name)
      BY <1>9, <2>1
    <2>3. s[k] = s[l]
      BY <2>2, Zenon
    <2> QED BY <1>4, <2>3
  <1>13. AddsRow(o, s, before, after, name)
    BY <1>9, <1>10, <1>11, <1>12 DEF AddsRow, changed
  <1> QED BY <1>1, <1>13 DEF o

(* What the events tell of each game. *)
EventsOf(o, g) == {i \in 1..Len(o) : o[i].game = g}
Shows(o, rows, without, at) ==
  \A g \in OfCatalog.Game : rows[g] # Catalog!NoRow /\ g \notin without =>
    \E i \in EventsOf(o, g) :
      /\ o[i].date = rows[g].start
      /\ (\A j \in EventsOf(o, g) : j <= i) \/ (at # 0 /\ o[i].previous = 0)
Additions(o, g) == {i \in EventsOf(o, g) : o[i].previous = 0}
Counts(o, n) == \A g \in OfCatalog.Game : n[g] \in Nat /\ Cardinality(Additions(o, g)) <= n[g]
InTurn(o) ==
  \A g \in OfCatalog.Game : \A i, j \in EventsOf(o, g) :
    i < j /\ (\A k \in EventsOf(o, g) : k <= i \/ j <= k) => o[j].previous \in {0, o[i].date}
SentBy(o, first, last) == \A i \in 1..Len(o) : o[i].of \in first..last

(* The events o, and after them the events s. *)
Follows(o, s, p) ==
  /\ o \in Seq(Event) /\ s \in Seq(Event) /\ p \in Seq(Event)
  /\ Len(o) \in Nat /\ Len(s) \in Nat /\ Len(p) = Len(o) + Len(s)
  /\ \A i \in 1..Len(o) : p[i] = o[i] /\ i \in 1..Len(p)
  /\ \A k \in 1..Len(s) : p[Len(o) + k] = s[k] /\ Len(o) + k \in 1..Len(p)
  /\ \A i \in 1..Len(p) : i \in 1..Len(o) \/ \E k \in 1..Len(s) : i = Len(o) + k

LEMMA AppendedIs ==
  ASSUME NEW o \in Seq(Event), NEW s \in Seq(Event)
  PROVE  Follows(o, s, o \o s)
  <1> DEFINE p == o \o s
  <1>1. /\ p \in Seq(Event) /\ Len(o) \in Nat /\ Len(s) \in Nat /\ Len(p) = Len(o) + Len(s)
        /\ \A i \in 1..Len(o) : p[i] = o[i] /\ i \in 1..Len(p)
    OBVIOUS
  <1>2. ASSUME NEW k \in 1..Len(s)
        PROVE  p[Len(o) + k] = s[k] /\ Len(o) + k \in 1..Len(p)
    BY <1>1
  <1> HIDE DEF p
  <1>3. ASSUME NEW i \in 1..Len(p)
        PROVE  i \in 1..Len(o) \/ \E k \in 1..Len(s) : i = Len(o) + k
    <2>1. CASE i <= Len(o)
      BY <1>1, <2>1
    <2>2. CASE i > Len(o)
      <3>1. i - Len(o) \in 1..Len(s) /\ i = Len(o) + (i - Len(o))
        BY <1>1, <2>2
      <3> QED BY <3>1
    <2> QED BY <1>1, <2>1, <2>2
  <1>4. Follows(o, s, p)
    BY <1>1, <1>2, <1>3 DEF Follows
  <1> QED BY <1>4 DEF p

(* Each event that is added tells of the game's change. *)
LEMMA AddedIs ==
  ASSUME NEW o, NEW s, NEW before, NEW after, NEW name, AddsRow(o, s, before, after, name)
  PROVE  /\ \A k \in 1..Len(s) :
              /\ s[k].game \in OfCatalog.Game /\ s[k].of = name
              /\ s[k].previous = before[s[k].game].start /\ s[k].date = after[s[k].game].start
              /\ after[s[k].game] # Catalog!NoRow
              /\ \A i \in 1..Len(o) : o[i] # s[k]
         /\ \A k, l \in 1..Len(s) : s[k].game = s[l].game => k = l
  <1>1. ASSUME NEW k \in 1..Len(s)
        PROVE  /\ s[k].game \in OfCatalog.Game /\ s[k].of = name
               /\ s[k].previous = before[s[k].game].start /\ s[k].date = after[s[k].game].start
               /\ after[s[k].game] # Catalog!NoRow
               /\ \A i \in 1..Len(o) : o[i] # s[k]
    <2>1. /\ s[k].game \in Changed(before, after)
          /\ s[k] = Change(before, after, s[k].game, name)
          /\ \A i \in 1..Len(o) : o[i] # s[k]
      BY DEF AddsRow
    <2>2. s[k].game \in OfCatalog.Game /\ after[s[k].game] # Catalog!NoRow
      BY <2>1 DEF Changed, Catalog!Shown
    <2> DEFINE g == s[k].game
               e == s[k]
    <2>3. e = Change(before, after, g, name)
      BY <2>1
    <2> HIDE DEF g, e
    <2>4. e.of = name /\ e.previous = before[g].start /\ e.date = after[g].start
      BY <2>3 DEF Change
    <2> QED BY <2>1, <2>2, <2>4 DEF g, e
  <1>2. \A k, l \in 1..Len(s) : s[k].game = s[l].game => k = l
    BY DEF AddsRow
  <1> QED BY <1>1, <1>2

LEMMA EventsStay ==
  ASSUME NEW o, NEW s, NEW p, Follows(o, s, p), NEW g, \A k \in 1..Len(s) : s[k].game # g
  PROVE  EventsOf(p, g) = EventsOf(o, g)
  <1>1. ASSUME NEW i \in EventsOf(p, g)
        PROVE  i \in EventsOf(o, g)
    <2>1. i \in 1..Len(p) /\ p[i].game = g
      BY DEF EventsOf
    <2>2. i \in 1..Len(o)
      BY <2>1 DEF Follows
    <2>3. p[i] = o[i]
      BY <2>2 DEF Follows
    <2> QED BY <2>1, <2>2, <2>3 DEF EventsOf
  <1>2. ASSUME NEW i \in EventsOf(o, g)
        PROVE  i \in EventsOf(p, g)
    <2>1. i \in 1..Len(o) /\ o[i].game = g
      BY DEF EventsOf
    <2>2. p[i] = o[i] /\ i \in 1..Len(p)
      BY <2>1 DEF Follows
    <2> QED BY <2>1, <2>2 DEF EventsOf
  <1> QED BY <1>1, <1>2

LEMMA EventsGrow ==
  ASSUME NEW o, NEW s, NEW p, Follows(o, s, p),
         NEW before, NEW after, NEW name, AddsRow(o, s, before, after, name),
         NEW k \in 1..Len(s)
  PROVE  EventsOf(p, s[k].game) = EventsOf(o, s[k].game) \cup {Len(o) + k}
  <1>1. \A l \in 1..Len(s) : s[l].game = s[k].game => l = k
    BY AddedIs
  <1> DEFINE g == s[k].game
  <1>2. \A l \in 1..Len(s) : s[l].game = g => l = k
    BY <1>1
  <1>3. s[k].game = g
    OBVIOUS
  <1> HIDE DEF g
  <1>4. ASSUME NEW i \in EventsOf(p, g)
        PROVE  i \in EventsOf(o, g) \cup {Len(o) + k}
    <2>1. i \in 1..Len(p) /\ p[i].game = g
      BY DEF EventsOf
    <2>2. CASE i \in 1..Len(o)
      <3>1. p[i] = o[i]
        BY <2>2 DEF Follows
      <3> QED BY <2>1, <2>2, <3>1 DEF EventsOf
    <2>3. CASE i \notin 1..Len(o)
      <3>1. PICK l \in 1..Len(s) : i = Len(o) + l
        BY <2>1, <2>3 DEF Follows
      <3>2. s[l].game = g
        BY <2>1, <3>1 DEF Follows
      <3> QED BY <1>2, <3>1, <3>2
    <2> QED BY <2>2, <2>3
  <1>5. ASSUME NEW i \in EventsOf(o, g) \cup {Len(o) + k}
        PROVE  i \in EventsOf(p, g)
    <2>1. CASE i \in EventsOf(o, g)
      <3>1. i \in 1..Len(o) /\ o[i].game = g
        BY <2>1 DEF EventsOf
      <3>2. p[i] = o[i] /\ i \in 1..Len(p)
        BY <3>1 DEF Follows
      <3> QED BY <3>1, <3>2 DEF EventsOf
    <2>2. CASE i = Len(o) + k
      <3>1. p[i] = s[k] /\ i \in 1..Len(p)
        BY <2>2 DEF Follows
      <3> QED BY <1>3, <3>1 DEF EventsOf
    <2> QED BY <2>1, <2>2
  <1>6. EventsOf(p, g) = EventsOf(o, g) \cup {Len(o) + k}
    BY <1>4, <1>5
  <1> QED BY <1>6 DEF g

LEMMA EventsIn ==
  ASSUME NEW o, NEW s, NEW p, Follows(o, s, p), NEW g
  PROVE  /\ EventsOf(o, g) \subseteq 1..Len(o) /\ EventsOf(o, g) \subseteq Int
         /\ \A i \in EventsOf(o, g) : p[i] = o[i] /\ i <= Len(o) /\ i \in Int
  BY DEF EventsOf, Follows

(* The last event of a game that is added to is the new one. *)
LEMMA ShowsGrow ==
  ASSUME NEW o, NEW s, NEW p, Follows(o, s, p),
         NEW before, NEW after, NEW name, AddsRow(o, s, before, after, name),
         NEW without, NEW at, Shows(o, before, without, at),
         \A g \in Changed(before, after), i \in 1..Len(o) :
           o[i] = Change(before, after, g, name) => at # 0 /\ before[g] = Catalog!NoRow
  PROVE  Shows(p, after, without \ {s[k].game : k \in 1..Len(s)}, at)
  <1>1. /\ Len(o) \in Nat /\ Len(s) \in Nat
        /\ \A i \in 1..Len(o) : p[i] = o[i] /\ i \in 1..Len(p)
        /\ \A k \in 1..Len(s) : p[Len(o) + k] = s[k] /\ Len(o) + k \in 1..Len(p)
    BY DEF Follows
  <1> DEFINE First(i, g) == (\A j \in EventsOf(p, g) : j <= i) \/ (at # 0 /\ p[i].previous = 0)
  <1>2. SUFFICES ASSUME NEW g \in OfCatalog.Game, after[g] # Catalog!NoRow,
                        g \notin without \/ \E k \in 1..Len(s) : s[k].game = g
                 PROVE  \E i \in EventsOf(p, g) : p[i].date = after[g].start /\ First(i, g)
    BY DEF Shows
  <1>3. ASSUME NEW k \in 1..Len(s), s[k].game = g
        PROVE  \E i \in EventsOf(p, g) : p[i].date = after[g].start /\ First(i, g)
    <2>1. EventsOf(p, g) = EventsOf(o, g) \cup {Len(o) + k}
      BY <1>3, EventsGrow
    <2>2. s[k].date = after[g].start
      BY <1>3, AddedIs
    <2>3. \A j \in EventsOf(o, g) : j <= Len(o)
      BY EventsIn
    <2>4. \A j \in EventsOf(p, g) : j <= Len(o) + k
      BY <1>1, <2>1, <2>3, EventsIn
    <2>5. p[Len(o) + k].date = after[g].start /\ Len(o) + k \in EventsOf(p, g)
      BY <1>1, <2>1, <2>2
    <2> QED BY <2>4, <2>5
  <1>4. CASE (\A k \in 1..Len(s) : s[k].game # g) /\ g \in Changed(before, after)
    <2>1. PICK i \in 1..Len(o) : o[i] = Change(before, after, g, name)
      BY <1>4 DEF AddsRow
    <2>2. at # 0 /\ before[g] = Catalog!NoRow
      BY <1>4, <2>1
    <2>3. o[i].game = g /\ o[i].date = after[g].start /\ o[i].previous = before[g].start
      BY <2>1 DEF Change
    <2>4. before[g].start = 0
      BY <2>2 DEF Catalog!NoRow
    <2>5. i \in EventsOf(p, g) /\ p[i] = o[i]
      BY <1>1, <2>3 DEF EventsOf
    <2> QED BY <2>2, <2>3, <2>4, <2>5
  <1>5. CASE (\A k \in 1..Len(s) : s[k].game # g) /\ g \notin Changed(before, after)
    <2>1. before[g] # Catalog!NoRow /\ before[g].start = after[g].start /\ g \notin without
      BY <1>2, <1>5 DEF Changed, Catalog!Shown
    <2>2. EventsOf(p, g) = EventsOf(o, g)
      BY <1>5, EventsStay
    <2>3. PICK i \in EventsOf(o, g) :
            /\ o[i].date = before[g].start
            /\ (\A j \in EventsOf(o, g) : j <= i) \/ (at # 0 /\ o[i].previous = 0)
      BY <2>1 DEF Shows
    <2>4. p[i] = o[i]
      BY EventsIn
    <2> QED BY <2>1, <2>2, <2>3, <2>4
  <1> QED BY <1>3, <1>4, <1>5

(* A game is added when it arrives. *)
LEMMA CountsGrow ==
  ASSUME NEW o, NEW s, NEW p, Follows(o, s, p),
         NEW before, Dated(before), NEW after, NEW name, AddsRow(o, s, before, after, name),
         NEW n, NEW n2, Counts(o, n),
         \A g \in OfCatalog.Game : n2[g] \in Nat /\ n[g] <= n2[g],
         \A g \in OfCatalog.Game : before[g] = Catalog!NoRow /\ after[g] # Catalog!NoRow => n[g] + 1 <= n2[g]
  PROVE  Counts(p, n2)
  <1>1. /\ Len(o) \in Nat /\ Len(s) \in Nat
        /\ \A k \in 1..Len(s) : p[Len(o) + k] = s[k]
    BY DEF Follows
  <1>2. SUFFICES ASSUME NEW g \in OfCatalog.Game
                 PROVE  Cardinality(Additions(p, g)) <= n2[g]
    BY DEF Counts
  <1>3. n[g] \in Nat /\ Cardinality(Additions(o, g)) <= n[g] /\ n2[g] \in Nat /\ n[g] <= n2[g]
    BY DEF Counts
  <1> DEFINE was == Additions(o, g)
             is == Additions(p, g)
  <1>4. IsFiniteSet(was) /\ Cardinality(was) \in Nat
    <2>1. was \subseteq 1..Len(o)
      BY <1>1, EventsIn DEF Additions
    <2>2. IsFiniteSet(1..Len(o))
      BY <1>1, FS_Interval
    <2> HIDE DEF was
    <2> QED BY <2>1, <2>2, FS_Subset, FS_CardinalityType
  <1>5. CASE \A k \in 1..Len(s) : s[k].game # g
    <2>1. EventsOf(p, g) = EventsOf(o, g) /\ \A i \in EventsOf(o, g) : p[i] = o[i]
      BY <1>5, EventsStay, EventsIn
    <2>2. is = was
      BY <2>1 DEF Additions
    <2> HIDE DEF is, was
    <2>3. Cardinality(is) <= n2[g]
      BY <1>3, <1>4, <2>2 DEF was
    <2> QED BY <2>3 DEF is
  <1>6. ASSUME NEW k \in 1..Len(s), s[k].game = g
        PROVE  Cardinality(is) <= n2[g]
    <2>1. EventsOf(p, g) = EventsOf(o, g) \cup {Len(o) + k} /\ \A i \in EventsOf(o, g) : p[i] = o[i]
      BY <1>6, EventsGrow, EventsIn
    <2>2. s[k].previous = before[g].start /\ after[g] # Catalog!NoRow /\ p[Len(o) + k] = s[k]
      BY <1>1, <1>6, AddedIs
    <2>3. CASE before[g] = Catalog!NoRow
      <3> DEFINE grown == was \cup {Len(o) + k}
      <3>1. is \subseteq grown
        BY <2>1 DEF Additions
      <3>2. n[g] + 1 <= n2[g]
        BY <2>2, <2>3
      <3> HIDE DEF is, was
      <3>3. IsFiniteSet(grown) /\ Cardinality(grown) <= Cardinality(was) + 1 /\ Cardinality(grown) \in Nat
        <4>1. IsFiniteSet(grown)
          BY <1>4, FS_AddElement DEF grown
        <4>2. Cardinality(grown) = Cardinality(was) \/ Cardinality(grown) = Cardinality(was) + 1
          <5>1. CASE Len(o) + k \in was
            <6>1. grown = was
              BY <5>1
            <6> HIDE DEF grown
            <6> QED BY <6>1
          <5>2. CASE Len(o) + k \notin was
            BY <1>4, <5>2, FS_AddElement DEF grown
          <5> QED BY <5>1, <5>2
        <4> HIDE DEF grown
        <4> QED BY <1>4, <4>1, <4>2, FS_CardinalityType
      <3> HIDE DEF grown
      <3>4. Cardinality(is) <= Cardinality(grown) /\ Cardinality(is) \in Nat
        BY <3>1, <3>3, FS_Subset, FS_CardinalityType
      <3>5. Cardinality(was) <= n[g]
        BY <1>3 DEF was
      <3> QED BY <1>3, <1>4, <3>2, <3>3, <3>4, <3>5
    <2>4. CASE before[g] # Catalog!NoRow
      <3>1. before[g].start # 0
        BY <2>4, CatalogGiven DEF Dated, Catalog!Date, Catalog!CatalogAssumption
      <3>2. is = was
        BY <2>1, <2>2, <3>1 DEF Additions
      <3> HIDE DEF is, was
      <3>3. Cardinality(was) <= n[g]
        BY <1>3 DEF was
      <3> QED BY <1>3, <1>4, <3>2, <3>3
    <2> QED BY <2>3, <2>4
  <1> QED BY <1>5, <1>6

(* An event's date is the one that the next changes. *)
LEMMA TurnsGrow ==
  ASSUME NEW o, NEW s, NEW p, Follows(o, s, p),
         NEW before, NEW after, NEW name, AddsRow(o, s, before, after, name),
         InTurn(o), Shows(o, before, {}, 0)
  PROVE  InTurn(p)
  <1>1. Len(o) \in Nat /\ \A k \in 1..Len(s) : p[Len(o) + k] = s[k] /\ Len(o) + k \in Nat
    BY DEF Follows
  <1>2. SUFFICES ASSUME NEW g \in OfCatalog.Game, NEW i \in EventsOf(p, g), NEW j \in EventsOf(p, g),
                        i < j, \A k \in EventsOf(p, g) : k <= i \/ j <= k
                 PROVE  p[j].previous \in {0, p[i].date}
    BY DEF InTurn
  <1>3. \A l \in EventsOf(o, g) : p[l] = o[l] /\ l <= Len(o) /\ l \in Int
    BY EventsIn
  <1>4. ASSUME i \in EventsOf(o, g), j \in EventsOf(o, g), EventsOf(o, g) \subseteq EventsOf(p, g)
        PROVE  p[j].previous \in {0, p[i].date}
    <2>1. \A k \in EventsOf(o, g) : k <= i \/ j <= k
      BY <1>2, <1>4
    <2>2. o[j].previous \in {0, o[i].date}
      BY <1>2, <1>4, <2>1 DEF InTurn
    <2> QED BY <1>3, <1>4, <2>2
  <1>5. ASSUME NEW k \in 1..Len(s), s[k].game = g
        PROVE  p[j].previous \in {0, p[i].date}
    <2>1. EventsOf(p, g) = EventsOf(o, g) \cup {Len(o) + k}
      BY <1>5, EventsGrow
    <2>2. CASE j = Len(o) + k
      <3>1. i # j
        BY <1>1, <1>2, <1>3, <2>1, <2>2
      <3>2. i \in EventsOf(o, g)
        BY <2>1, <2>2, <3>1
      <3>3. \A l \in EventsOf(o, g) : l <= i
        BY <1>1, <1>2, <1>3, <2>1, <2>2
      <3>4. p[j].previous = before[g].start
        BY <1>1, <1>5, <2>2, AddedIs
      <3>5. CASE before[g] = Catalog!NoRow
        BY <3>4, <3>5 DEF Catalog!NoRow
      <3>6. CASE before[g] # Catalog!NoRow
        <4>1. PICK l \in EventsOf(o, g) :
                o[l].date = before[g].start /\ \A m \in EventsOf(o, g) : m <= l
          BY <3>6 DEF Shows
        <4>2. l = i
          BY <1>3, <3>2, <3>3, <4>1
        <4> QED BY <1>3, <3>2, <3>4, <4>1, <4>2
      <3> QED BY <3>5, <3>6
    <2>3. CASE j # Len(o) + k
      <3>1. j \in EventsOf(o, g)
        BY <2>1, <2>3
      <3>2. i # Len(o) + k
        BY <1>1, <1>2, <1>3, <3>1
      <3> QED BY <1>4, <2>1, <3>1, <3>2
    <2> QED BY <2>2, <2>3
  <1>6. CASE \A k \in 1..Len(s) : s[k].game # g
    <2>1. EventsOf(p, g) = EventsOf(o, g)
      BY <1>6, EventsStay
    <2> QED BY <1>4, <2>1
  <1> QED BY <1>5, <1>6

(* Nothing is told of a time to come. *)
LEMMA SentGrow ==
  ASSUME NEW o, NEW s, NEW p, Follows(o, s, p),
         NEW before, NEW after, NEW name, AddsRow(o, s, before, after, name),
         NEW first, NEW last, SentBy(o, first, last), name \in first..last
  PROVE  SentBy(p, first, last)
  <1>1. \A k \in 1..Len(s) : s[k].of = name
    BY AddedIs
  <1>2. ASSUME NEW i \in 1..Len(p)
        PROVE  p[i].of \in first..last
    <2>1. CASE i \in 1..Len(o)
      BY <2>1 DEF SentBy, Follows
    <2>2. CASE i \notin 1..Len(o)
      <3>1. PICK k \in 1..Len(s) : i = Len(o) + k
        BY <2>2 DEF Follows
      <3> QED BY <1>1, <3>1 DEF Follows
    <2> QED BY <2>1, <2>2
  <1> QED BY <1>2 DEF SentBy
--------------------------------------------------------------------------------
(* What a publication has told *)

Confirmed(rows, doubts) == \A g \in doubts : rows[g] # Catalog!NoRow => rows[g].full
ToldBy(o, g, name) == \E i \in 1..Len(o) : o[i].game = g /\ o[i].of = name

(* The source has no other date for the row. *)
Settled(row, from) == row = Catalog!NoRow \/ Catalog!Merge(row, from).start = row.start

(* What a publication has told is settled, and public unless an audit or an
   exclusion has removed it. *)
Delivered(o, rows, name, source, excluded, at) ==
  \A g \in OfCatalog.Game : ToldBy(o, g, name) =>
    /\ source[g] # Catalog!NoRow /\ Settled(rows[g], source[g])
    /\ at # 0 \/ rows[g] # Catalog!NoRow \/ g \in excluded

(* A change that it has told before brings back what an audit has removed. *)
Repeats(o, before, after, name, at) ==
  \A g \in Changed(before, after), i \in 1..Len(o) :
    o[i] = Change(before, after, g, name) => at # 0 /\ before[g] = Catalog!NoRow

LEMMA MergeSettles ==
  ASSUME NEW p \in Catalog!Row, NEW r \in Catalog!Row
  PROVE  /\ Settled(Catalog!Merge(p, r), r)
         /\ p.full /\ p.verified > r.verified => Catalog!Merge(p, r).start = p.start
         /\ Catalog!Merge(p, r).start = r.start \/ (p.full /\ Catalog!Merge(p, r).start = p.start)
  <1> DEFINE m == Catalog!Merge(p, r)
             kept == Catalog!KeepsNewerDate(p, r) \/ Catalog!KeepsFullDate(p, r)
  <1>1. /\ m.start = IF kept THEN p.start ELSE r.start
        /\ m.full = IF kept THEN p.full ELSE r.full
        /\ m.verified = IF kept THEN p.verified ELSE r.verified
    BY DEF Catalog!Merge
  <1>2. kept <=> p.full /\ (p.verified > r.verified \/ ~r.full)
    BY DEF Catalog!KeepsNewerDate, Catalog!KeepsFullDate
  <1> HIDE DEF m, kept
  <1>3. Catalog!Merge(m, r).start =
          IF m.full /\ (m.verified > r.verified \/ ~r.full) THEN m.start ELSE r.start
    BY DEF Catalog!Merge, Catalog!KeepsNewerDate, Catalog!KeepsFullDate
  <1>4. Catalog!Merge(m, r).start = m.start
    <2>1. CASE kept
      BY <1>1, <1>2, <1>3, <2>1
    <2>2. CASE ~kept
      BY <1>1, <1>2, <1>3, <2>2
    <2> QED BY <2>1, <2>2
  <1>5. p.full /\ p.verified > r.verified => m.start = p.start
    BY <1>1, <1>2
  <1>6. m.start = r.start \/ (p.full /\ m.start = p.start)
    BY <1>1, <1>2
  <1> QED BY <1>4, <1>5, <1>6 DEF Settled, m

(* A row of what an attempt builds: the public one, or merged with the source's. *)
LEMMA BuiltRow ==
  ASSUME CatalogInv, NEW source \in Rows, NEW day \in 1..today, Past(public.games, day),
         Confirmed(public.catalog, public.unconfirmed), NEW g \in OfCatalog.Game
  PROVE  LET row == Catalog!Built(source, day)[g]
             old == public.catalog[g]
         IN /\ \/ row = Catalog!NoRow \/ row = old
               \/ source[g] # Catalog!NoRow /\ row = Catalog!Merge(old, source[g])
            /\ old # Catalog!NoRow /\ g \notin blocked /\ source[g] # Catalog!NoRow =>
                 row # Catalog!NoRow
            /\ g \in blocked => row = Catalog!NoRow
            /\ g \in public.unconfirmed /\ row # Catalog!NoRow => row.full
  <1> DEFINE old == public.games[g]
             from == source[g]
             prior == PriorOf(g, source, day)
             merged == Catalog!Merge(prior, from)
             taken == /\ from # Catalog!NoRow /\ g \notin blocked
                      /\ g \in public.unconfirmed => from.full
                      /\ Catalog!Publishable(g, merged, day, public.unconfirmed)
             row == Catalog!Built(source, day)[g]
  <1>1. public.games = public.catalog
    BY DEF CatalogInv, CommitOK, Agree
  <1>2. row = IF taken THEN merged ELSE prior
    BY DEF Catalog!Built, PriorOf
  <1>3. /\ prior = Catalog!NoRow \/ (prior = old /\ Catalog!Publishable(g, old, day, public.unconfirmed))
        /\ g \in blocked => prior = Catalog!NoRow
    BY DEF PriorOf
  <1>4. ASSUME old # Catalog!NoRow, g \notin blocked, from # Catalog!NoRow
        PROVE  prior = old
    <2>1. old.start >= day => old.full
      <3>1. old.start \in Int /\ day \in Int
        BY CatalogGiven DEF CatalogInv, CommitOK, Rows, Catalog!Row, Catalog!CatalogAssumption
      <3>2. ~old.full => old.start < day
        BY <1>4 DEF Past
      <3> HIDE DEF old
      <3> QED BY <3>1, <3>2
    <2>2. g \in public.unconfirmed => old.full
      BY <1>1, <1>4 DEF Confirmed
    <2>3. Catalog!Publishable(g, old, day, public.unconfirmed)
      BY <1>4, <2>1, <2>2 DEF Catalog!Publishable
    <2>4. ~Catalog!StaleFuture(g, old, source, day)
      BY <1>4 DEF Catalog!StaleFuture
    <2> QED BY <1>4, <2>2, <2>3, <2>4 DEF PriorOf
  <1>5. taken => merged # Catalog!NoRow /\ (g \in public.unconfirmed => merged.full)
    BY DEF Catalog!Publishable
  <1>6. Catalog!Publishable(g, old, day, public.unconfirmed) => (g \in public.unconfirmed => old.full)
    BY DEF Catalog!Publishable
  <1>7. taken => from # Catalog!NoRow /\ g \notin blocked
    OBVIOUS
  <1>8. CASE taken
    <2>1. row = merged
      BY <1>2, <1>8
    <2>2. prior = old
      BY <1>3, <1>4, <1>7, <1>8
    <2>3. row = Catalog!Merge(old, from)
      BY <2>1, <2>2
    <2> HIDE DEF taken, merged, prior, row, old
    <2>4. row # Catalog!NoRow /\ (g \in public.unconfirmed => row.full)
      BY <1>5, <1>8, <2>1
    <2> QED BY <1>1, <1>7, <1>8, <2>3, <2>4 DEF row, old
  <1>9. CASE ~taken
    <2>1. row = prior
      BY <1>2, <1>9
    <2> HIDE DEF taken, merged, prior, row, old
    <2>2. /\ row = Catalog!NoRow \/ row = old
          /\ old # Catalog!NoRow /\ g \notin blocked /\ from # Catalog!NoRow => row # Catalog!NoRow
          /\ g \in blocked => row = Catalog!NoRow
          /\ g \in public.unconfirmed /\ row # Catalog!NoRow => row.full
      BY <1>3, <1>4, <1>6, <2>1
    <2> QED BY <1>1, <2>2 DEF row, old
  <1> QED BY <1>8, <1>9

(* What is built has dates, keeps what is told and repeats only what was removed. *)
LEMMA BuiltTells ==
  ASSUME CatalogInv, NEW source \in Rows, NEW day \in 1..today, Past(public.games, day),
         Confirmed(public.catalog, public.unconfirmed), Dated(public.catalog), Dated(source),
         NEW rows, rows = Catalog!Built(source, day), NEW name, NEW at
  PROVE  /\ Dated(rows)
         /\ public.unconfirmed \subseteq OfCatalog.Game => Confirmed(rows, public.unconfirmed)
         /\ Delivered(public.origins, public.catalog, name, source, blocked, at) =>
              /\ Repeats(public.origins, public.catalog, rows, name, at)
              /\ \A s, p : /\ Follows(public.origins, s, p)
                           /\ AddsRow(public.origins, s, public.catalog, rows, name)
                           => Delivered(p, rows, name, source, blocked, at)
  <1> DEFINE old == public.catalog
  <1>1. ASSUME NEW g \in OfCatalog.Game
        PROVE  /\ old[g] \in Catalog!Row /\ source[g] \in Catalog!Row
               /\ \/ rows[g] = Catalog!NoRow \/ rows[g] = old[g]
                  \/ source[g] # Catalog!NoRow /\ rows[g] = Catalog!Merge(old[g], source[g])
               /\ old[g] # Catalog!NoRow /\ g \notin blocked /\ source[g] # Catalog!NoRow =>
                    rows[g] # Catalog!NoRow
               /\ g \in blocked => rows[g] = Catalog!NoRow
               /\ g \in public.unconfirmed /\ rows[g] # Catalog!NoRow => rows[g].full
    <2>1. old[g] \in Catalog!Row /\ source[g] \in Catalog!Row
      BY DEF CatalogInv, CommitOK, Agree, Rows
    <2> QED BY <2>1, BuiltRow
  <1> HIDE DEF old
  <1>2. ASSUME NEW g \in OfCatalog.Game, rows[g] # Catalog!NoRow
        PROVE  rows[g].start \in Catalog!Date
    <2>1. CASE rows[g] = old[g]
      BY <1>2, <2>1 DEF Dated, old
    <2>2. CASE source[g] # Catalog!NoRow /\ rows[g] = Catalog!Merge(old[g], source[g])
      <3>1. rows[g].start = source[g].start \/ (old[g].full /\ rows[g].start = old[g].start)
        BY <1>1, <2>2, MergeSettles
      <3>2. CASE rows[g].start = source[g].start
        BY <2>2, <3>2 DEF Dated
      <3>3. CASE old[g].full /\ rows[g].start = old[g].start
        <4>1. old[g] # Catalog!NoRow
          BY <3>3, NoRowType
        <4> QED BY <3>3, <4>1 DEF Dated, old
      <3> QED BY <3>1, <3>2, <3>3
    <2> QED BY <1>1, <1>2, <2>1, <2>2
  <1>3. ASSUME NEW g \in OfCatalog.Game, source[g] # Catalog!NoRow, Settled(old[g], source[g])
        PROVE  /\ Settled(rows[g], source[g])
               /\ old[g] # Catalog!NoRow /\ rows[g] # Catalog!NoRow => rows[g].start = old[g].start
    <2>1. CASE rows[g] = Catalog!NoRow \/ rows[g] = old[g]
      BY <1>3, <2>1 DEF Settled
    <2>2. CASE rows[g] = Catalog!Merge(old[g], source[g])
      <3>1. Settled(rows[g], source[g])
        BY <1>1, <2>2, MergeSettles
      <3>2. old[g] # Catalog!NoRow => rows[g].start = old[g].start
        BY <1>3, <2>2 DEF Settled
      <3> QED BY <3>1, <3>2
    <2> QED BY <1>1, <2>1, <2>2
  <1>4. ASSUME NEW g \in OfCatalog.Game, g \in Changed(old, rows)
        PROVE  /\ source[g] # Catalog!NoRow /\ Settled(rows[g], source[g])
               /\ rows[g] # Catalog!NoRow /\ g \notin blocked
    <2>1. rows[g] # Catalog!NoRow /\ rows[g] # old[g]
      BY <1>4 DEF Changed, Catalog!Shown
    <2>2. source[g] # Catalog!NoRow /\ rows[g] = Catalog!Merge(old[g], source[g])
      BY <1>1, <2>1
    <2>3. Settled(rows[g], source[g])
      BY <1>1, <2>2, MergeSettles
    <2> QED BY <1>1, <2>1, <2>2, <2>3
  <1>5. ASSUME Delivered(public.origins, old, name, source, blocked, at)
        PROVE  Repeats(public.origins, old, rows, name, at)
    <2>1. SUFFICES ASSUME NEW g \in Changed(old, rows), NEW i \in 1..Len(public.origins),
                          public.origins[i] = Change(old, rows, g, name)
                   PROVE  at # 0 /\ old[g] = Catalog!NoRow
      BY DEF Repeats
    <2>2. g \in OfCatalog.Game /\ (old[g] = Catalog!NoRow \/ old[g].start # rows[g].start)
      BY DEF Changed, Catalog!Shown
    <2>3. public.origins[i].game = g /\ public.origins[i].of = name
      BY <2>1 DEF Change
    <2>4. ToldBy(public.origins, g, name)
      BY <2>3 DEF ToldBy
    <2>5. /\ source[g] # Catalog!NoRow /\ Settled(old[g], source[g])
          /\ at # 0 \/ old[g] # Catalog!NoRow \/ g \in blocked
      BY <1>5, <2>2, <2>4 DEF Delivered
    <2>6. rows[g] # Catalog!NoRow /\ g \notin blocked
      BY <1>4, <2>2
    <2>7. old[g] = Catalog!NoRow
      BY <1>3, <2>2, <2>5, <2>6
    <2> QED BY <2>5, <2>6, <2>7
  <1>6. ASSUME Delivered(public.origins, old, name, source, blocked, at), NEW s, NEW p,
               Follows(public.origins, s, p), AddsRow(public.origins, s, old, rows, name)
        PROVE  Delivered(p, rows, name, source, blocked, at)
    <2>1. SUFFICES ASSUME NEW g \in OfCatalog.Game, ToldBy(p, g, name)
                   PROVE  /\ source[g] # Catalog!NoRow /\ Settled(rows[g], source[g])
                          /\ at # 0 \/ rows[g] # Catalog!NoRow \/ g \in blocked
      BY DEF Delivered
    <2>2. PICK i \in 1..Len(p) : p[i].game = g /\ p[i].of = name
      BY <2>1 DEF ToldBy
    <2>3. CASE i \in 1..Len(public.origins)
      <3>1. p[i] = public.origins[i]
        BY <1>6, <2>3 DEF Follows
      <3>2. ToldBy(public.origins, g, name)
        BY <2>2, <2>3, <3>1 DEF ToldBy
      <3>3. /\ source[g] # Catalog!NoRow /\ Settled(old[g], source[g])
            /\ at # 0 \/ old[g] # Catalog!NoRow \/ g \in blocked
        BY <1>6, <3>2 DEF Delivered
      <3> QED BY <1>1, <1>3, <3>3
    <2>4. CASE i \notin 1..Len(public.origins)
      <3>1. PICK k \in 1..Len(s) : i = Len(public.origins) + k
        BY <1>6, <2>4 DEF Follows
      <3>2. p[i] = s[k]
        BY <1>6, <3>1 DEF Follows
      <3>3. s[k].game \in Changed(old, rows)
        BY <1>6 DEF AddsRow
      <3>4. g \in Changed(old, rows)
        BY <2>2, <3>2, <3>3
      <3> QED BY <1>4, <3>4
    <2> QED BY <2>3, <2>4
  <1>7. Dated(rows)
    BY <1>2 DEF Dated
  <1>8. public.unconfirmed \subseteq OfCatalog.Game => Confirmed(rows, public.unconfirmed)
    BY <1>1 DEF Confirmed
  <1> QED BY <1>5, <1>6, <1>7, <1>8 DEF old
--------------------------------------------------------------------------------
(* The invariant of the origins *)

(* What the public events tell. *)
EventsOK ==
  /\ public.origins \in Seq(Event) /\ SentBy(public.origins, -ticks, publications)
  /\ Shows(public.origins, public.catalog, unheard, auditor.at)
  /\ Counts(public.origins, arrivals)
  /\ auditor.at = 0 => unheard = {} /\ InTurn(public.origins)

(* The publication under way: what it has told is delivered, and an audit that
   sees it has begun after all that the publication knows. *)
Telling ==
  publisher.pc # "idle" =>
    /\ Delivered(public.origins, public.catalog, publications, publisher.source, blocked, auditor.at)
    /\ auditor.busy /\ auditor.base = public.version =>
         \A g, h \in OfCatalog.Game :
           ToldBy(public.origins, g, publications) => publisher.source[h].verified < auditor.at

(* What is built and still fits. *)
Ready(f) ==
  /\ Dated(f.catalog) /\ Confirmed(f.catalog, public.unconfirmed)
  /\ f.unconfirmed = public.unconfirmed
  /\ \E s : /\ Follows(public.origins, s, f.origins)
            /\ AddsRow(public.origins, s, public.catalog, f.catalog, publications)
  /\ Repeats(public.origins, public.catalog, f.catalog, publications, auditor.at)
  /\ Delivered(f.origins, f.catalog, publications, publisher.source, blocked, auditor.at)

TellsInv ==
  /\ Dated(private) /\ Dated(publisher.source) /\ Dated(public.catalog)
  /\ Confirmed(public.catalog, public.unconfirmed)
  /\ blocked \subseteq OfCatalog.Game /\ unheard \subseteq OfCatalog.Game
  /\ public.unconfirmed \subseteq OfCatalog.Game
  /\ publisher.pc \in {"idle", "fetch", "push"} /\ publisher.tries \in 0..OfCatalog.MaxAttempts
  /\ publications \in 0..OfCatalog.MaxFreeze /\ (auditor.busy => auditor.at # 0)
  /\ EventsOK /\ Telling
  /\ publisher.pc = "push" /\ publisher.built.version = public.version + 1 => Ready(publisher.built)

LEMMA SentEarlier ==
  ASSUME NEW o, NEW now \in Nat, NEW later \in Nat, now <= later, NEW n \in Nat, NEW m \in Nat, n <= m,
         SentBy(o, -now, n)
  PROVE  SentBy(o, -later, m)
  <1>1. ASSUME NEW i \in 1..Len(o)
        PROVE  o[i].of \in -later..m
    <2>1. o[i].of \in -now..n
      BY DEF SentBy
    <2> QED BY <2>1
  <1> QED BY <1>1 DEF SentBy

LEMMA StillDelivered ==
  ASSUME NEW o, NEW rows, NEW name, NEW source, NEW excluded, NEW at,
         Delivered(o, rows, name, source, excluded, at),
         NEW more, excluded \subseteq more, NEW begun, at # 0 => begun # 0
  PROVE  Delivered(o, rows, name, source, more, begun)
  BY DEF Delivered

(* A commit that follows the public one tells what it changes. *)
LEMMA EventsTold ==
  ASSUME CatalogInv, TellsInv, NEW s, NEW name,
         Follows(public.origins, s, public'.origins),
         AddsRow(public.origins, s, public.catalog, public'.catalog, name),
         Repeats(public.origins, public.catalog, public'.catalog, name, auditor.at),
         unheard' = unheard \ {s[k].game : k \in 1..Len(s)},
         \A g \in OfCatalog.Game : arrivals'[g] \in Nat /\ arrivals[g] <= arrivals'[g],
         \A g \in OfCatalog.Game : public.catalog[g] = Catalog!NoRow /\ public'.catalog[g] # Catalog!NoRow =>
           arrivals[g] + 1 <= arrivals'[g],
         auditor' = auditor, ticks' \in {ticks, ticks + 1}, publications' = publications,
         name \in -ticks'..publications
  PROVE  EventsOK'
  <1> DEFINE o == public.origins
             p == public'.origins
  <1>1. /\ ticks \in Nat /\ publications \in Nat /\ ticks' \in Nat /\ ticks <= ticks'
        /\ Dated(public.catalog) /\ EventsOK
    BY CatalogGiven DEF CatalogInv, TellsInv, Catalog!CatalogAssumption
  <1>2. p \in Seq(Event)
    BY DEF Follows
  <1>3. SentBy(p, -ticks', publications)
    <2>1. SentBy(o, -ticks', publications)
      BY <1>1, SentEarlier DEF EventsOK
    <2> HIDE DEF o, p
    <2>2. Follows(o, s, p) /\ AddsRow(o, s, public.catalog, public'.catalog, name)
      BY DEF o, p
    <2> QED BY <2>1, <2>2, SentGrow
  <1>4. Shows(p, public'.catalog, unheard', auditor.at)
    <2>1. Shows(o, public.catalog, unheard, auditor.at)
      BY <1>1 DEF EventsOK
    <2>2. \A g \in Changed(public.catalog, public'.catalog), i \in 1..Len(o) :
            o[i] = Change(public.catalog, public'.catalog, g, name) => auditor.at # 0 /\ public.catalog[g] = Catalog!NoRow
      BY DEF Repeats
    <2> QED BY <2>1, <2>2, ShowsGrow
  <1>5. Counts(p, arrivals')
    <2>1. Counts(o, arrivals)
      BY <1>1 DEF EventsOK
    <2> QED BY <1>1, <2>1, CountsGrow
  <1>6. ASSUME auditor.at = 0
        PROVE  unheard' = {} /\ InTurn(p)
    <2>1. unheard = {} /\ InTurn(o) /\ Shows(o, public.catalog, {}, 0)
      BY <1>1, <1>6 DEF EventsOK
    <2> QED BY <2>1, TurnsGrow
  <1> HIDE DEF o, p
  <1> QED BY <1>2, <1>3, <1>4, <1>5, <1>6 DEF EventsOK, p

(* What the master and the clock do. *)
LEMMA WorldTells ==
  ASSUME CatalogInv, TellsInv, Catalog!World, ticks' \in {ticks, ticks + 1}, Dated(private'),
         blocked \subseteq blocked', blocked' \subseteq OfCatalog.Game
  PROVE  TellsInv'
  <1>1. UNCHANGED <<public, publisher, auditor, unheard, arrivals, publications>>
    BY DEF Catalog!World
  <1>2. ticks \in Nat /\ ticks' \in Nat /\ ticks <= ticks' /\ publications \in Nat
    BY CatalogGiven DEF CatalogInv, TellsInv, Catalog!CatalogAssumption
  <1>3. EventsOK'
    <2>1. SentBy(public.origins, -ticks', publications)
      BY <1>2, SentEarlier DEF TellsInv, EventsOK
    <2> QED BY <1>1, <2>1 DEF TellsInv, EventsOK
  <1>4. Telling'
    <2>1. ASSUME publisher.pc # "idle"
          PROVE  Delivered(public.origins, public.catalog, publications, publisher.source, blocked', auditor.at)
      BY <2>1, StillDelivered DEF TellsInv, Telling
    <2> QED BY <1>1, <2>1 DEF TellsInv, Telling
  <1>5. ASSUME publisher.pc = "push", publisher.built.version = public.version + 1
        PROVE  Ready(publisher.built)'
    <2>1. Ready(publisher.built)
      BY <1>5 DEF TellsInv
    <2>2. Delivered(publisher.built.origins, publisher.built.catalog, publications, publisher.source, blocked', auditor.at)
      BY <2>1, StillDelivered DEF Ready
    <2> QED BY <1>1, <2>1, <2>2 DEF Ready
  <1> QED BY <1>1, <1>3, <1>4, <1>5 DEF TellsInv

LEMMA ObservesTells ==
  ASSUME CatalogInv, TellsInv, NEW g \in OfCatalog.Game, NEW row, Catalog!Observes(row, g),
         row # Catalog!NoRow => row.start \in Catalog!Date
  PROVE  TellsInv'
  <1>1. /\ Catalog!World /\ ticks' = ticks + 1 /\ blocked' = blocked
        /\ private' = [private EXCEPT ![g] = row]
    BY DEF Catalog!Observes
  <1>2. Dated(private')
    BY <1>1 DEF TellsInv, Dated, CatalogInv, Rows
  <1>3. blocked \subseteq OfCatalog.Game
    BY DEF TellsInv
  <1> QED BY <1>1, <1>2, <1>3, WorldTells

LEMMA MasterTells ==
  ASSUME CatalogInv, TellsInv, NEW g \in OfCatalog.Game,
         Catalog!Count(g) \/ Catalog!Verify(g) \/ Catalog!Leave(g) \/ Catalog!Exclude(g) \/ Catalog!Midnight
  PROVE  TellsInv'
  <1>1. CASE Catalog!Count(g)
    <2>1. PICK s \in Catalog!Date, full \in BOOLEAN, twitch \in BOOLEAN :
            Catalog!Observes(IF private[g] # Catalog!NoRow THEN [private[g] EXCEPT !.checked = ticks + 1]
                     ELSE [checked |-> ticks + 1, start |-> s, full |-> full,
                           verified |-> IF full THEN ticks + 1 ELSE 0, twitch |-> twitch], g)
      BY <1>1 DEF Catalog!Count
    <2>2. CASE private[g] # Catalog!NoRow
      <3> DEFINE row == [private[g] EXCEPT !.checked = ticks + 1]
      <3>1. private[g] \in Catalog!Row /\ private[g].start \in Catalog!Date
        BY <2>2 DEF TellsInv, Dated, CatalogInv, Rows
      <3>2. row.start = private[g].start
        BY <3>1 DEF Catalog!Row
      <3>3. Catalog!Observes(row, g)
        BY <2>1, <2>2
      <3> HIDE DEF row
      <3> QED BY <3>1, <3>2, <3>3, ObservesTells
    <2>3. CASE private[g] = Catalog!NoRow
      <3> DEFINE row == [checked |-> ticks + 1, start |-> s, full |-> full,
                         verified |-> IF full THEN ticks + 1 ELSE 0, twitch |-> twitch]
      <3>1. row.start \in Catalog!Date
        OBVIOUS
      <3>2. Catalog!Observes(row, g)
        BY <2>1, <2>3
      <3> HIDE DEF row
      <3> QED BY <3>1, <3>2, ObservesTells
    <2> QED BY <2>2, <2>3
  <1>2. CASE Catalog!Verify(g)
    <2>1. PICK s \in Catalog!Date :
            Catalog!Observes([private[g] EXCEPT !.start = s, !.full = TRUE, !.verified = ticks + 1], g)
      BY <1>2 DEF Catalog!Verify
    <2> DEFINE row == [private[g] EXCEPT !.start = s, !.full = TRUE, !.verified = ticks + 1]
    <2>2. private[g] \in Catalog!Row
      BY DEF CatalogInv, Rows
    <2>3. row.start = s
      BY <2>2 DEF Catalog!Row
    <2>4. Catalog!Observes(row, g)
      BY <2>1
    <2> HIDE DEF row
    <2> QED BY <2>3, <2>4, ObservesTells
  <1>3. CASE Catalog!Leave(g)
    BY <1>3, ObservesTells DEF Catalog!Leave
  <1>4. CASE Catalog!Exclude(g)
    BY <1>4, WorldTells DEF Catalog!Exclude, TellsInv
  <1>5. CASE Catalog!Midnight
    BY <1>5, WorldTells DEF Catalog!Midnight, TellsInv
  <1> QED BY <1>1, <1>2, <1>3, <1>4, <1>5

(* A new publication has told nothing. *)
LEMMA FreezeTells ==
  ASSUME CatalogInv, TellsInv, Catalog!Freeze
  PROVE  TellsInv'
  <1>1. /\ publisher' = [pc |-> "fetch", source |-> private, day |-> today, tries |-> 0,
                         built |-> Catalog!NoFiles]
        /\ UNCHANGED <<public, ticks, private, auditor, blocked, unheard, arrivals>>
        /\ publications' = publications + 1 /\ publications < OfCatalog.MaxFreeze
    BY DEF Catalog!Freeze, Catalog!Outside, Catalog!Idle
  <1>2. /\ ticks \in Nat /\ publications \in Nat /\ publications' \in 0..OfCatalog.MaxFreeze
        /\ 0 \in 0..OfCatalog.MaxAttempts
    BY <1>1, CatalogGiven DEF CatalogInv, TellsInv, Catalog!CatalogAssumption
  <1>3. EventsOK'
    <2>1. SentBy(public.origins, -ticks, publications')
      BY <1>1, <1>2, SentEarlier DEF TellsInv, EventsOK
    <2> QED BY <1>1, <2>1 DEF TellsInv, EventsOK
  <1>4. \A g : ~ToldBy(public.origins, g, publications')
    <2>1. \A i \in 1..Len(public.origins) : public.origins[i].of \in -ticks..publications
      BY DEF TellsInv, EventsOK, SentBy
    <2>2. publications' \notin -ticks..publications
      BY <1>1, <1>2
    <2> QED BY <2>1, <2>2 DEF ToldBy
  <1>5. Telling'
    <2>1. Delivered(public.origins, public.catalog, publications', private, blocked, auditor.at)
      BY <1>4 DEF Delivered
    <2> QED BY <1>1, <1>4, <2>1 DEF Telling
  <1>6. /\ publisher'.pc = "fetch" /\ publisher'.source = private /\ publisher'.tries = 0
    BY <1>1
  <1> QED BY <1>1, <1>2, <1>3, <1>5, <1>6 DEF TellsInv

LEMMA IdleTells ==
  /\ Catalog!Idle.pc = "idle" /\ Catalog!Idle.tries \in 0..OfCatalog.MaxAttempts /\ Dated(Catalog!Idle.source)
  <1>1. Catalog!Idle.pc = "idle" /\ Catalog!Idle.tries = 0 /\ Catalog!Idle.source = Catalog!Empty
    BY DEF Catalog!Idle
  <1> QED BY <1>1, NoRowType, CatalogGiven DEF Dated, Catalog!CatalogAssumption

(* An attempt builds what tells all that it changes. *)
LEMMA FetchTells ==
  ASSUME CatalogInv, TellsInv, Catalog!Fetch
  PROVE  TellsInv'
  <1>1. UNCHANGED <<public, ticks, private, auditor, blocked, unheard, arrivals, publications>> /\ publisher.pc = "fetch"
    BY DEF Catalog!Fetch, Catalog!Outside
  <1>2. EventsOK'
    BY <1>1 DEF TellsInv, EventsOK
  <1>3. CASE publisher' = Catalog!Idle
    <2>1. Telling'
      BY <1>3, IdleTells DEF Telling
    <2> QED BY <1>1, <1>2, <1>3, <2>1, IdleTells DEF TellsInv
  <1>4. CASE publisher' # Catalog!Idle
    <2> DEFINE source == publisher.source
               day == publisher.day
               f == Catalog!Rendered(source, day)
    <2>1. /\ source \in Rows /\ Verified(source, ticks)
          /\ day \in 1..today /\ Past(public.games, day)
          /\ Catalog!CurrentFollowers(source) /\ publisher.tries < OfCatalog.MaxAttempts
          /\ publisher' = [publisher EXCEPT !.pc = "push", !.tries = @ + 1, !.built = f]
      BY <1>4 DEF Catalog!Fetch, CatalogInv, PublisherOK
    <2>2. f.version = public.version + 1 =>
            /\ f.catalog = Catalog!Built(source, day) /\ f.unconfirmed = public.unconfirmed
            /\ f.origins = Catalog!Origins(public.catalog, f.catalog, publications)
      BY <2>1, RenderedIs
    <2>3. Catalog!Built(source, day) \in Rows
      BY <2>1, BuiltIs
    <2> HIDE DEF f, source, day
    <2>4. /\ Dated(public.catalog) /\ Dated(source) /\ Confirmed(public.catalog, public.unconfirmed)
          /\ public.unconfirmed \subseteq OfCatalog.Game /\ publications \in Int
          /\ public.catalog \in Rows /\ public.origins \in Seq(Event)
          /\ Delivered(public.origins, public.catalog, publications, source, blocked, auditor.at)
      BY <1>1, CatalogGiven DEF TellsInv, Telling, EventsOK, CatalogInv, CommitOK, Agree, source,
         Catalog!CatalogAssumption
    <2>5. ASSUME f.version = public.version + 1
          PROVE  /\ Dated(f.catalog) /\ Confirmed(f.catalog, public.unconfirmed)
                 /\ f.unconfirmed = public.unconfirmed
                 /\ \E s : /\ Follows(public.origins, s, f.origins)
                           /\ AddsRow(public.origins, s, public.catalog, f.catalog, publications)
                 /\ Repeats(public.origins, public.catalog, f.catalog, publications, auditor.at)
                 /\ Delivered(f.origins, f.catalog, publications, source, blocked, auditor.at)
      <3> DEFINE rows == f.catalog
      <3>1. rows = Catalog!Built(source, day) /\ rows \in Rows
        BY <2>2, <2>3, <2>5
      <3> HIDE DEF rows
      <3>2. /\ Dated(rows) /\ Confirmed(rows, public.unconfirmed)
            /\ Repeats(public.origins, public.catalog, rows, publications, auditor.at)
            /\ \A s, p : /\ Follows(public.origins, s, p)
                         /\ AddsRow(public.origins, s, public.catalog, rows, publications)
                         => Delivered(p, rows, publications, source, blocked, auditor.at)
        BY <2>1, <2>4, <3>1, BuiltTells DEF source, day
      <3>3. PICK s : /\ Catalog!Origins(public.catalog, rows, publications) = public.origins \o s
                     /\ AddsRow(public.origins, s, public.catalog, rows, publications)
        BY <2>4, <3>1, <3>2, OriginsIs
      <3>4. s \in Seq(Event)
        BY <3>3 DEF AddsRow
      <3>5. Follows(public.origins, s, public.origins \o s)
        BY <2>4, <3>4, AppendedIs
      <3>6. f.origins = public.origins \o s /\ f.unconfirmed = public.unconfirmed
        BY <2>2, <2>5, <3>3 DEF rows
      <3>7. Follows(public.origins, s, f.origins)
        BY <3>5, <3>6
      <3>8. Delivered(f.origins, rows, publications, source, blocked, auditor.at)
        BY <3>2, <3>3, <3>7
      <3> QED BY <3>2, <3>3, <3>6, <3>7, <3>8 DEF rows
    <2>6. publisher' = [pc |-> "push", source |-> source, day |-> day,
                        tries |-> publisher.tries + 1, built |-> f]
      BY <2>1 DEF CatalogInv, PublisherOK, source, day
    <2>7. publisher'.pc = "push" /\ publisher'.source = source /\ publisher'.built = f
          /\ publisher'.tries = publisher.tries + 1
      BY <2>6
    <2>8. publisher'.tries \in 0..OfCatalog.MaxAttempts
      BY <2>1, <2>7, CatalogGiven DEF TellsInv, Catalog!CatalogAssumption
    <2>9. publisher'.source = publisher.source
      BY <2>7 DEF source
    <2>10. Telling'
      BY <1>1, <2>9 DEF TellsInv, Telling
    <2>11. publisher'.built.version = public.version + 1 => Ready(publisher.built)'
      BY <1>1, <2>5, <2>7 DEF Ready
    <2> QED BY <1>1, <1>2, <2>7, <2>8, <2>9, <2>10, <2>11 DEF TellsInv
  <1> QED BY <1>3, <1>4

LEMMA PushTells ==
  ASSUME CatalogInv, TellsInv, Catalog!Push
  PROVE  TellsInv'
  <1> DEFINE again == [publisher EXCEPT !.pc = "fetch", !.built = Catalog!NoFiles]
  <1>1. UNCHANGED <<ticks, private, auditor, blocked, publications>> /\ publisher.pc = "push"
    BY DEF Catalog!Push, Catalog!Outside
  <1>2. again.pc = "fetch" /\ again.source = publisher.source /\ again.tries = publisher.tries
    <2>1. again = [publisher EXCEPT !.pc = "fetch", !.built = Catalog!NoFiles]
      OBVIOUS
    <2> HIDE DEF again
    <2>2. PICK c, s, d, n, f : publisher = [pc |-> c, source |-> s, day |-> d, tries |-> n, built |-> f]
      BY Zenon DEF CatalogInv, PublisherOK
    <2> QED BY <2>1, <2>2
  <1>3. publisher' = Catalog!Idle \/ publisher' = again
    BY DEF Catalog!Push
  <1> HIDE DEF again
  <1>4. /\ publisher'.pc \in {"idle", "fetch"} /\ publisher'.tries \in 0..OfCatalog.MaxAttempts
        /\ Dated(publisher'.source)
        /\ publisher'.pc # "idle" => publisher'.source = publisher.source
    BY <1>2, <1>3, IdleTells DEF TellsInv
  <1>5. CASE public' = public /\ UNCHANGED <<unheard, arrivals>>
    <2>1. EventsOK'
      BY <1>1, <1>5 DEF TellsInv, EventsOK
    <2>2. Telling'
      BY <1>1, <1>4, <1>5 DEF TellsInv, Telling
    <2> QED BY <1>1, <1>4, <1>5, <2>1, <2>2 DEF TellsInv
  <1>6. CASE /\ Catalog!Fits /\ public' = publisher.built /\ unheard' = unheard \ Catalog!Told
             /\ arrivals' = Catalog!Arrived(public'.catalog)
    <2> DEFINE f == publisher.built
    <2>1. /\ f.version = public.version + 1 /\ public.version \in Nat
          /\ Ready(f) /\ public' = f
      BY <1>1, <1>6 DEF Catalog!Fits, CatalogInv, CommitOK, TellsInv
    <2> HIDE DEF f
    <2>2. PICK s : /\ Follows(public.origins, s, f.origins)
                   /\ AddsRow(public.origins, s, public.catalog, f.catalog, publications)
      BY <2>1 DEF Ready
    <2>3. Catalog!Told = {s[k].game : k \in 1..Len(s)}
      <3> DEFINE o == public.origins
                 p == f.origins
      <3>1. Catalog!Told = {p[i].game : i \in Len(o) + 1..Len(p)}
        BY DEF Catalog!Told, f
      <3> HIDE DEF o, p
      <3>2. Follows(o, s, p)
        BY <2>2 DEF o, p
      <3>3. Len(o) \in Nat /\ Len(s) \in Nat /\ Len(p) = Len(o) + Len(s)
        BY <3>2 DEF Follows
      <3>4. ASSUME NEW i \in Len(o) + 1..Len(p)
            PROVE  \E k \in 1..Len(s) : p[i].game = s[k].game
        <4>1. i - Len(o) \in 1..Len(s) /\ i = Len(o) + (i - Len(o))
          BY <3>3
        <4>2. p[i] = s[i - Len(o)]
          BY <3>2, <4>1 DEF Follows
        <4> QED BY <4>1, <4>2
      <3>5. ASSUME NEW k \in 1..Len(s)
            PROVE  \E i \in Len(o) + 1..Len(p) : p[i].game = s[k].game
        <4>1. Len(o) + k \in Len(o) + 1..Len(p)
          BY <3>3
        <4>2. p[Len(o) + k] = s[k]
          BY <3>2 DEF Follows
        <4> QED BY <4>1, <4>2
      <3> DEFINE after == {p[i].game : i \in Len(o) + 1..Len(p)}
                 added == {s[k].game : k \in 1..Len(s)}
      <3>6. after \subseteq added
        BY <3>4
      <3>7. added \subseteq after
        BY <3>5
      <3>8. Catalog!Told = after
        BY <3>1
      <3> HIDE DEF after, added
      <3>9. Catalog!Told = added
        BY <3>6, <3>7, <3>8
      <3> QED BY <3>9 DEF added
    <2>4. ASSUME NEW g \in OfCatalog.Game
          PROVE  /\ arrivals'[g] \in Nat /\ arrivals[g] <= arrivals'[g]
                 /\ public.catalog[g] = Catalog!NoRow /\ public'.catalog[g] # Catalog!NoRow =>
                      arrivals[g] + 1 <= arrivals'[g]
      <3>1. arrivals'[g] = IF public.catalog[g] = Catalog!NoRow /\ public'.catalog[g] # Catalog!NoRow
                           THEN arrivals[g] + 1 ELSE arrivals[g]
        BY <1>6 DEF Catalog!Arrived
      <3>2. arrivals[g] \in Nat
        BY DEF TellsInv, EventsOK, Counts
      <3> QED BY <3>1, <3>2
    <2>5. EventsOK'
      <3>1. /\ Follows(public.origins, s, public'.origins)
            /\ AddsRow(public.origins, s, public.catalog, public'.catalog, publications)
            /\ Repeats(public.origins, public.catalog, public'.catalog, publications, auditor.at)
        BY <2>1, <2>2 DEF Ready
      <3>2. unheard' = unheard \ {s[k].game : k \in 1..Len(s)}
        BY <1>6, <2>3
      <3>3. /\ auditor' = auditor /\ ticks' \in {ticks, ticks + 1} /\ publications' = publications
            /\ publications \in -ticks'..publications
        BY <1>1, CatalogGiven DEF TellsInv, CatalogInv, Catalog!CatalogAssumption
      <3> QED BY <2>4, <3>1, <3>2, <3>3, EventsTold
    <2>6. Telling'
      <3>1. auditor.busy => auditor.base # f.version
        BY <2>1 DEF CatalogInv, AuditorOK
      <3>2. Delivered(f.origins, f.catalog, publications, publisher.source, blocked, auditor.at)
        BY <2>1 DEF Ready
      <3> QED BY <1>1, <1>4, <2>1, <3>1, <3>2 DEF Telling
    <2>7. /\ Dated(public'.catalog) /\ Confirmed(public'.catalog, public'.unconfirmed)
          /\ public'.unconfirmed \subseteq OfCatalog.Game
      BY <2>1 DEF Ready, TellsInv
    <2>8. unheard' \subseteq OfCatalog.Game
      BY <1>6 DEF TellsInv
    <2> QED BY <1>1, <1>4, <2>5, <2>6, <2>7, <2>8 DEF TellsInv
  <1> QED BY <1>5, <1>6 DEF Catalog!Push
--------------------------------------------------------------------------------
(* The other publishers *)

(* A publication that finds the commit of another keeps what it has told. *)
LEMMA OthersTell ==
  ASSUME CatalogInv, TellsInv, EventsOK', public'.version = public.version + 1,
         UNCHANGED <<private, publisher, blocked, publications>>,
         auditor'.busy => auditor.busy, auditor'.base = auditor.base, auditor'.at = auditor.at,
         Dated(public'.catalog), Confirmed(public'.catalog, public'.unconfirmed),
         public'.unconfirmed \subseteq OfCatalog.Game, unheard' \subseteq OfCatalog.Game,
         publisher.pc # "idle" =>
           Delivered(public'.origins, public'.catalog, publications, publisher.source, blocked, auditor.at)
  PROVE  TellsInv'
  <1>1. public.version \in Nat
    BY DEF CatalogInv, CommitOK
  <1>2. Telling'
    <2>1. auditor.busy => auditor.base # public'.version
      BY <1>1 DEF CatalogInv, AuditorOK
    <2> QED BY <2>1 DEF Telling
  <1>3. publisher.pc = "push" => publisher.built.version # public'.version + 1
    BY <1>1 DEF CatalogInv, PublisherOK, CommitOK
  <1> QED BY <1>2, <1>3 DEF TellsInv

(* What the refresh writes. *)
LEMMA RefreshWrites ==
  ASSUME CatalogInv, NEW g \in OfCatalog.Game, Catalog!Refresh(g)
  PROVE  \E s \in Catalog!Date :
           /\ public'.version = public.version + 1 /\ public'.unconfirmed = public.unconfirmed
           /\ public'.catalog = [public.catalog EXCEPT ![g] = public'.catalog[g]]
           /\ public'.catalog[g].start = s /\ public'.catalog[g].full = TRUE
           /\ public'.catalog[g].verified = ticks + 1 /\ public'.catalog[g] \in Catalog!Row
           /\ public'.origins = Catalog!Origins(public.catalog, public'.catalog, -ticks')
           /\ unheard' = IF s = public.catalog[g].start THEN unheard ELSE unheard \ {g}
  <1>1. PICK s \in Catalog!Date :
          LET row == [public.catalog[g] EXCEPT !.start = s, !.full = TRUE, !.verified = ticks + 1]
              rows == [public.catalog EXCEPT ![g] = row]
          IN /\ public' = [public EXCEPT !.version = @ + 1, !.by = "content", !.day = today,
                            !.games = [@ EXCEPT ![g] = row], !.catalog = rows,
                            !.upcoming = Catalog!Upcoming(rows, today), !.released = Catalog!Released(rows, today),
                            !.origins = Catalog!Origins(public.catalog, rows, -ticks')]
             /\ unheard' = IF s = public.catalog[g].start THEN unheard ELSE unheard \ {g}
    BY DEF Catalog!Refresh
  <1> DEFINE row == [public.catalog[g] EXCEPT !.start = s, !.full = TRUE, !.verified = ticks + 1]
             rows == [public.catalog EXCEPT ![g] = row]
             games == [public.games EXCEPT ![g] = row]
             up == Catalog!Upcoming(rows, today)
             out == Catalog!Released(rows, today)
             told == Catalog!Origins(public.catalog, rows, -ticks')
  <1>2. public' = [public EXCEPT !.version = @ + 1, !.by = "content", !.day = today,
                     !.games = games, !.catalog = rows, !.upcoming = up, !.released = out,
                     !.origins = told]
    BY <1>1, Zenon
  <1>3. /\ public.catalog \in Rows /\ IsFiles(public) /\ public.catalog[g] \in Catalog!Row
        /\ s \in 0..OfCatalog.MaxToday + 1 /\ ticks + 1 \in 0..OfCatalog.MaxTime
    BY CatalogGiven DEF CatalogInv, CommitOK, Agree, Rows, Catalog!Date, Catalog!Refresh,
       Catalog!CatalogAssumption
  <1>4. row \in Catalog!Row /\ row.full = TRUE /\ row.verified = ticks + 1 /\ row.start = s
    BY <1>3 DEF Catalog!Row
  <1> HIDE DEF row
  <1>5. rows[g] = row /\ rows = [public.catalog EXCEPT ![g] = rows[g]]
    BY <1>3 DEF Rows
  <1> HIDE DEF rows, games, up, out
  <1>6. told = Catalog!Origins(public.catalog, rows, -ticks')
    OBVIOUS
  <1> HIDE DEF told
  <1>7. /\ public'.version = public.version + 1 /\ public'.unconfirmed = public.unconfirmed
        /\ public'.catalog = rows /\ public'.origins = told
    <2>1. PICK v, b, d, gs, c, u, r, n, o :
            public = [version |-> v, by |-> b, day |-> d, games |-> gs, catalog |-> c,
                      upcoming |-> u, released |-> r, unconfirmed |-> n, origins |-> o]
      BY <1>3, Zenon DEF IsFiles
    <2>2. public' = [version |-> v + 1, by |-> "content", day |-> today, games |-> games,
                     catalog |-> rows, upcoming |-> up, released |-> out, unconfirmed |-> n,
                     origins |-> told]
      BY <1>2, <2>1
    <2> QED BY <2>1, <2>2
  <1>8. unheard' = IF s = public.catalog[g].start THEN unheard ELSE unheard \ {g}
    BY <1>1
  <1> QED BY <1>4, <1>5, <1>6, <1>7, <1>8

LEMMA RefreshTells ==
  ASSUME CatalogInv, CatalogInv', TellsInv, NEW g \in OfCatalog.Game, Catalog!Refresh(g)
  PROVE  TellsInv'
  <1> DEFINE before == public.catalog
             rows == public'.catalog
             o == public.origins
             p == public'.origins
             name == -ticks'
             source == publisher.source
  <1>1. PICK s \in Catalog!Date :
           /\ public'.version = public.version + 1 /\ public'.unconfirmed = public.unconfirmed
           /\ rows = [before EXCEPT ![g] = rows[g]]
           /\ rows[g].start = s /\ rows[g].full = TRUE
           /\ rows[g].verified = ticks + 1 /\ rows[g] \in Catalog!Row
           /\ p = Catalog!Origins(before, rows, name)
           /\ unheard' = IF s = before[g].start THEN unheard ELSE unheard \ {g}
    BY RefreshWrites
  <1>2. /\ UNCHANGED <<private, publisher, auditor, blocked, publications, arrivals>>
        /\ before[g] # Catalog!NoRow /\ ticks' = ticks + 1
    BY DEF Catalog!Refresh, Catalog!Backend
  <1>3. /\ before \in Rows /\ rows \in Rows /\ o \in Seq(Event) /\ ticks \in Nat /\ publications \in Nat
        /\ Dated(before) /\ Confirmed(before, public.unconfirmed) /\ EventsOK
        /\ public.unconfirmed \subseteq OfCatalog.Game /\ unheard \subseteq OfCatalog.Game
    BY CatalogGiven DEF CatalogInv, CommitOK, Agree, TellsInv, EventsOK, Catalog!CatalogAssumption
  <1> HIDE DEF before, rows, o, p, source
  <1>4. \A h \in OfCatalog.Game : h # g => rows[h] = before[h]
    BY <1>1, <1>3 DEF Rows
  <1>5. rows[g] # Catalog!NoRow
    BY <1>1, NoRowType
  <1>6. Dated(rows) /\ Confirmed(rows, public.unconfirmed)
    BY <1>1, <1>3, <1>4 DEF Dated, Confirmed
  <1>7. \A i \in 1..Len(o) : o[i].of # name
    <2>1. \A i \in 1..Len(o) : o[i].of \in -ticks..publications
      BY <1>3 DEF EventsOK, SentBy, o
    <2> QED BY <1>2, <1>3, <2>1
  <1>8. PICK added : p = o \o added /\ AddsRow(o, added, before, rows, name)
    <2>1. name \in Int
      BY <1>2, <1>3
    <2> HIDE DEF name
    <2>2. \E x : Catalog!Origins(before, rows, name) = public.origins \o x /\ AddsRow(public.origins, x, before, rows, name)
      BY <1>3, <1>6, <2>1, OriginsIs DEF o
    <2> QED BY <1>1, <2>2 DEF o
  <1>9. Follows(o, added, p)
    <2>1. added \in Seq(Event)
      BY <1>8 DEF AddsRow
    <2> QED BY <1>3, <1>8, <2>1, AppendedIs
  <1>10. Repeats(o, before, rows, name, auditor.at)
    <2>1. \A h, i \in 1..Len(o) : o[i] # Change(before, rows, h, name)
      BY <1>7 DEF Change
    <2> QED BY <1>7 DEF Repeats, Change
  <1>11. /\ \A h \in Changed(before, rows) : h = g /\ before[g].start # s
         /\ before[g].start # s => g \in Changed(before, rows)
    BY <1>1, <1>2, <1>4, <1>5 DEF Changed, Catalog!Shown
  <1>12. unheard' = unheard \ {added[k].game : k \in 1..Len(added)}
    <2>1. \A k \in 1..Len(added) : added[k].game \in Changed(before, rows)
      BY <1>8 DEF AddsRow
    <2>2. CASE s = before[g].start
      <3>1. \A k \in 1..Len(added) : FALSE
        BY <1>11, <2>1, <2>2
      <3>2. {added[k].game : k \in 1..Len(added)} = {}
        BY <3>1
      <3> QED BY <1>1, <2>2, <3>2
    <2>3. CASE s # before[g].start
      <3>1. g \in Changed(before, rows)
        BY <1>11, <2>3
      <3>2. Change(before, rows, g, name).of = name
        BY DEF Change
      <3>3. \A i \in 1..Len(o) : o[i] # Change(before, rows, g, name)
        BY <1>7, <3>2
      <3>4. \E k \in 1..Len(added) : added[k].game = g
        BY <1>8, <3>1, <3>3 DEF AddsRow
      <3>5. \A k \in 1..Len(added) : added[k].game = g
        BY <1>11, <2>1
      <3>6. {added[k].game : k \in 1..Len(added)} = {g}
        BY <3>4, <3>5
      <3> QED BY <1>1, <2>3, <3>6
    <2> QED BY <2>2, <2>3
  <1>13. \A h \in OfCatalog.Game : /\ arrivals'[h] \in Nat /\ arrivals[h] <= arrivals'[h]
                                   /\ ~(before[h] = Catalog!NoRow /\ rows[h] # Catalog!NoRow)
    <2>1. \A h \in OfCatalog.Game : arrivals[h] \in Nat
      BY <1>3 DEF EventsOK, Counts
    <2> QED BY <1>2, <1>4, <2>1
  <1>14. EventsOK'
    <2>1. name \in -ticks'..publications
      BY <1>2, <1>3
    <2>2. /\ auditor' = auditor /\ ticks' \in {ticks, ticks + 1} /\ publications' = publications
      BY <1>2
    <2> HIDE DEF name
    <2> QED BY <1>8, <1>9, <1>10, <1>12, <1>13, <2>1, <2>2, EventsTold DEF before, rows, o, p
  <1>15. ASSUME publisher.pc # "idle"
         PROVE  Delivered(p, rows, publications, source, blocked, auditor.at)
    <2>1. Delivered(o, before, publications, source, blocked, auditor.at)
      BY <1>15 DEF TellsInv, Telling, o, before, source
    <2>2. SUFFICES ASSUME NEW h \in OfCatalog.Game, ToldBy(p, h, publications)
                   PROVE  /\ source[h] # Catalog!NoRow /\ Settled(rows[h], source[h])
                          /\ auditor.at # 0 \/ rows[h] # Catalog!NoRow \/ h \in blocked
      BY DEF Delivered
    <2>3. PICK i \in 1..Len(p) : p[i].game = h /\ p[i].of = publications
      BY <2>2 DEF ToldBy
    <2>4. i \in 1..Len(o)
      <3> SUFFICES ASSUME i \notin 1..Len(o) PROVE FALSE
        OBVIOUS
      <3>1. PICK k \in 1..Len(added) : i = Len(o) + k
        BY <1>9 DEF Follows
      <3>2. p[i] = added[k]
        BY <1>9, <3>1 DEF Follows
      <3>3. added[k].of = name
        BY <1>8, AddedIs
      <3> QED BY <1>2, <1>3, <2>3, <3>2, <3>3
    <2>5. p[i] = o[i]
      BY <1>9, <2>4 DEF Follows
    <2>6. ToldBy(o, h, publications)
      BY <2>3, <2>4, <2>5 DEF ToldBy
    <2>7. /\ source[h] # Catalog!NoRow /\ Settled(before[h], source[h])
          /\ auditor.at # 0 \/ before[h] # Catalog!NoRow \/ h \in blocked
      BY <2>1, <2>6 DEF Delivered
    <2>8. CASE h # g
      BY <1>4, <2>7, <2>8
    <2>9. CASE h = g
      <3>1. source[g] \in Catalog!Row /\ source[g].verified <= ticks
        BY DEF CatalogInv, PublisherOK, Rows, Verified, source
      <3>2. rows[g].verified > source[g].verified
        BY <1>1, <1>3, <3>1, CatalogGiven DEF Catalog!Row, Catalog!CatalogAssumption
      <3>3. Settled(rows[g], source[g])
        BY <1>1, <3>1, <3>2, MergeSettles DEF Settled
      <3> QED BY <1>5, <2>7, <2>9, <3>3
    <2> QED BY <2>8, <2>9
  <1>16. /\ auditor'.busy => auditor.busy /\ auditor'.base = auditor.base /\ auditor'.at = auditor.at
         /\ auditor'.base = auditor.base /\ auditor'.at = auditor.at
         /\ unheard' \subseteq OfCatalog.Game
    BY <1>2, <1>3, <1>12
  <1> QED BY <1>1, <1>2, <1>3, <1>6, <1>14, <1>15, <1>16, OthersTell DEF rows, p, source

LEMMA AuditStartsTells ==
  ASSUME CatalogInv, TellsInv, Catalog!AuditStarts
  PROVE  TellsInv'
  <1>1. /\ UNCHANGED <<public, private, publisher, blocked, unheard, arrivals, publications>>
        /\ auditor' = [busy |-> TRUE, base |-> public.version, at |-> ticks + 1]
        /\ ticks' = ticks + 1 /\ ticks \in Nat /\ publications \in Nat
    BY CatalogGiven DEF Catalog!AuditStarts, Catalog!Backend, CatalogInv, TellsInv, Catalog!CatalogAssumption
  <1>2. auditor'.at = ticks + 1 /\ auditor'.at # 0
    BY <1>1
  <1>3. EventsOK'
    <2>1. SentBy(public.origins, -ticks', publications)
      <3>1. ticks' \in Nat /\ ticks <= ticks' /\ SentBy(public.origins, -ticks, publications)
        BY <1>1 DEF TellsInv, EventsOK
      <3>2. \A later \in Nat : ticks <= later => SentBy(public.origins, -later, publications)
        BY <1>1, <3>1, SentEarlier
      <3> QED BY <3>1, <3>2, Zenon
    <2>2. Shows(public.origins, public.catalog, unheard, auditor'.at)
      <3>1. Shows(public.origins, public.catalog, unheard, auditor.at)
        BY DEF TellsInv, EventsOK
      <3> QED BY <1>2, <3>1 DEF Shows
    <2> QED BY <1>1, <1>2, <2>1, <2>2 DEF TellsInv, EventsOK
  <1>4. Telling'
    <2>1. ASSUME publisher.pc # "idle"
          PROVE  Delivered(public.origins, public.catalog, publications, publisher.source, blocked, auditor'.at)
      BY <1>2, <2>1, StillDelivered DEF TellsInv, Telling
    <2>2. ASSUME NEW h \in OfCatalog.Game
          PROVE  publisher.source[h].verified < auditor'.at
      <3>1. publisher.source[h] \in Catalog!Row /\ publisher.source[h].verified <= ticks
        BY DEF CatalogInv, PublisherOK, Rows, Verified
      <3> QED BY <1>1, <1>2, <3>1, CatalogGiven DEF Catalog!Row, Catalog!CatalogAssumption
    <2> QED BY <1>1, <2>1, <2>2 DEF Telling
  <1>5. ASSUME publisher.pc = "push", publisher.built.version = public.version + 1
        PROVE  Ready(publisher.built)'
    <2>1. Ready(publisher.built)
      BY <1>5 DEF TellsInv
    <2>2. Delivered(publisher.built.origins, publisher.built.catalog, publications, publisher.source, blocked, auditor'.at)
      BY <1>2, <2>1, StillDelivered DEF Ready
    <2>3. Repeats(public.origins, public.catalog, publisher.built.catalog, publications, auditor'.at)
      BY <1>2, <2>1 DEF Ready, Repeats
    <2> QED BY <1>1, <2>1, <2>2, <2>3 DEF Ready
  <1> QED BY <1>1, <1>2, <1>3, <1>4, <1>5 DEF TellsInv

(* What a date that the audit has seen makes of a row. *)
LEMMA RedatedTells ==
  ASSUME CatalogInv, NEW row \in Catalog!Row, NEW s, NEW from \in Catalog!Row,
         Settled(row, from), row # Catalog!NoRow, from.verified < auditor.at
  PROVE  Settled(Catalog!Redated(row, s), from)
  <1> DEFINE same == row.full /\ row.start = s /\ row.verified # 0
             when == IF same THEN row.verified ELSE auditor.at
             dated == Catalog!Redated(row, s)
  <1>1. /\ dated = [row EXCEPT !.start = s, !.full = TRUE, !.verified = when]
        /\ dated.start = s /\ dated.full = TRUE /\ dated.verified = when
    <2> HIDE DEF when
    <2>1. dated = [row EXCEPT !.start = s, !.full = TRUE, !.verified = when]
      BY DEF Catalog!Redated, when
    <2> HIDE DEF dated
    <2> QED BY <2>1 DEF Catalog!Row
  <1> HIDE DEF dated
  <1>2. Catalog!Merge(dated, from).start =
          IF dated.full /\ (dated.verified > from.verified \/ ~from.full) THEN dated.start ELSE from.start
    BY DEF Catalog!Merge, Catalog!KeepsNewerDate, Catalog!KeepsFullDate
  <1>3. Catalog!Merge(row, from).start =
          IF row.full /\ (row.verified > from.verified \/ ~from.full) THEN row.start ELSE from.start
    BY DEF Catalog!Merge, Catalog!KeepsNewerDate, Catalog!KeepsFullDate
  <1>4. CASE same
    <2>1. Catalog!Merge(row, from).start = row.start
      BY DEF Settled
    <2>2. Catalog!Merge(dated, from).start = dated.start
      BY <1>1, <1>2, <1>3, <1>4, <2>1
    <2> QED BY <2>2 DEF Settled, dated
  <1>5. CASE ~same
    <2>1. dated.verified > from.verified
      BY <1>1, <1>5
    <2>2. Catalog!Merge(dated, from).start = dated.start
      BY <1>1, <1>2, <2>1
    <2> QED BY <2>2 DEF Settled, dated
  <1> QED BY <1>4, <1>5

(* What an audit writes: the events stay as they were. *)
LEMMA AuditWrites ==
  ASSUME CatalogInv, NEW seen \in [Catalog!Upcoming(public.catalog, today) -> Catalog!SeenDate],
         public' = Catalog!Audited(seen)
  PROVE  /\ public'.version = public.version + 1 /\ public'.origins = public.origins
         /\ public'.unconfirmed = (public.unconfirmed \ DOMAIN seen) \cup {g \in DOMAIN seen : seen[g] = 0}
         /\ \A g \in OfCatalog.Game :
              /\ g \notin DOMAIN seen => public'.catalog[g] = public.catalog[g]
              /\ g \in DOMAIN seen /\ seen[g] = 0 => public'.catalog[g] = Catalog!NoRow
              /\ g \in DOMAIN seen /\ seen[g] # 0 =>
                   public'.catalog[g] = Catalog!Redated(public.catalog[g], seen[g])
  <1> DEFINE future == DOMAIN seen
             gone == {g \in future : seen[g] = 0}
             rows == [g \in OfCatalog.Game |->
               LET row == public.catalog[g]
               IN IF g \in gone THEN Catalog!NoRow
                  ELSE IF g \in future THEN Catalog!Redated(row, seen[g]) ELSE row]
             listed == {g \in OfCatalog.Game : ~rows[g].twitch}
             up == Catalog!Upcoming(rows, today) \cap listed
             out == Catalog!Released(rows, today) \cap listed
             doubts == (public.unconfirmed \ future) \cup gone
             files == [g \in OfCatalog.Game |-> IF g \in gone THEN Catalog!NoRow
                                      ELSE IF rows[g] # Catalog!NoRow THEN rows[g] ELSE public.games[g]]
  <1>1. public' = [public EXCEPT !.version = @ + 1, !.by = "audit", !.day = today,
                     !.games = files, !.catalog = rows, !.upcoming = up, !.released = out,
                     !.unconfirmed = doubts]
    BY Zenon DEF Catalog!Audited
  <1>2. \A g \in OfCatalog.Game :
          /\ g \notin future => rows[g] = public.catalog[g]
          /\ g \in future /\ seen[g] = 0 => rows[g] = Catalog!NoRow
          /\ g \in future /\ seen[g] # 0 => rows[g] = Catalog!Redated(public.catalog[g], seen[g])
    OBVIOUS
  <1>3. doubts = (public.unconfirmed \ future) \cup {g \in future : seen[g] = 0}
    OBVIOUS
  <1> HIDE DEF rows, files, up, out, doubts
  <1>4. /\ public'.version = public.version + 1 /\ public'.origins = public.origins
        /\ public'.catalog = rows /\ public'.unconfirmed = doubts
    <2>1. PICK v, b, d, gs, c, u, r, n, o :
            public = [version |-> v, by |-> b, day |-> d, games |-> gs, catalog |-> c,
                      upcoming |-> u, released |-> r, unconfirmed |-> n, origins |-> o]
      BY Zenon DEF IsFiles, CatalogInv, CommitOK
    <2>2. public' = [version |-> v + 1, by |-> "audit", day |-> today, games |-> files,
                     catalog |-> rows, upcoming |-> up, released |-> out, unconfirmed |-> doubts,
                     origins |-> o]
      BY <1>1, <2>1
    <2> QED BY <2>1, <2>2
  <1> QED BY <1>2, <1>3, <1>4

LEMMA AuditPushesTells ==
  ASSUME CatalogInv, CatalogInv', TellsInv, Catalog!AuditPushes
  PROVE  TellsInv'
  <1>1. /\ UNCHANGED <<private, publisher, ticks, blocked, publications, arrivals>>
        /\ auditor' = [auditor EXCEPT !.busy = FALSE] /\ auditor.busy
    BY DEF Catalog!AuditPushes, Catalog!Backend
  <1>2. auditor'.busy = FALSE /\ auditor'.base = auditor.base /\ auditor'.at = auditor.at
    <2>1. PICK y, b, a : auditor = [busy |-> y, base |-> b, at |-> a]
      BY Zenon DEF CatalogInv, AuditorOK
    <2>2. auditor' = [busy |-> FALSE, base |-> b, at |-> a]
      BY <1>1, <2>1
    <2> QED BY <2>1, <2>2
  <1>3. CASE UNCHANGED <<public, unheard>>
    <2>1. EventsOK'
      BY <1>1, <1>2, <1>3 DEF TellsInv, EventsOK
    <2>2. Telling'
      BY <1>1, <1>2, <1>3 DEF TellsInv, Telling
    <2>3. publisher.pc = "push" /\ publisher.built.version = public.version + 1 => Ready(publisher.built)'
      BY <1>1, <1>2, <1>3 DEF TellsInv, Ready
    <2> QED BY <1>1, <1>2, <1>3, <2>1, <2>2, <2>3 DEF TellsInv
  <1>4. ASSUME public.version = auditor.base,
               NEW seen \in [Catalog!Upcoming(public.catalog, today) -> Catalog!SeenDate],
               public' = Catalog!Audited(seen),
               unheard' = unheard \cup {g \in DOMAIN seen : seen[g] \notin {0, public.catalog[g].start}}
        PROVE  TellsInv'
    <2> DEFINE old == public.catalog
               rows == public'.catalog
               source == publisher.source
    <2>1. /\ public'.version = public.version + 1 /\ public'.origins = public.origins
          /\ public'.unconfirmed = (public.unconfirmed \ DOMAIN seen) \cup {g \in DOMAIN seen : seen[g] = 0}
          /\ \A g \in OfCatalog.Game :
              /\ g \notin DOMAIN seen => rows[g] = old[g]
              /\ g \in DOMAIN seen /\ seen[g] = 0 => rows[g] = Catalog!NoRow
              /\ g \in DOMAIN seen /\ seen[g] # 0 => rows[g] = Catalog!Redated(old[g], seen[g])
      BY <1>4, AuditWrites
    <2>2. \A g \in DOMAIN seen : g \in OfCatalog.Game /\ old[g] # Catalog!NoRow /\ seen[g] \in Catalog!SeenDate
      <3>1. DOMAIN seen = Catalog!Upcoming(public.catalog, today)
        OBVIOUS
      <3> QED BY <3>1 DEF Catalog!Upcoming, Catalog!Shown
    <2>3. auditor.at # 0
      BY <1>1 DEF TellsInv
    <2>4. /\ public.unconfirmed \subseteq OfCatalog.Game /\ unheard \subseteq OfCatalog.Game
          /\ Dated(old) /\ Confirmed(old, public.unconfirmed) /\ EventsOK /\ old \in Rows
      BY DEF TellsInv, CatalogInv, CommitOK, Agree
    <2> HIDE DEF rows, old, source
    <2>5. ASSUME NEW g \in DOMAIN seen, seen[g] # 0
          PROVE  rows[g].start = seen[g] /\ rows[g].full = TRUE /\ seen[g] \in Catalog!Date
      <3>1. seen[g] \in Catalog!Date
        BY <2>2, <2>5 DEF Catalog!SeenDate
      <3>2. rows[g] = Catalog!Redated(old[g], seen[g]) /\ old[g] \in Catalog!Row
        BY <2>1, <2>2, <2>4, <2>5 DEF Rows
      <3> DEFINE when == IF old[g].full /\ old[g].start = seen[g] /\ old[g].verified # 0
                         THEN old[g].verified ELSE auditor.at
      <3>3. Catalog!Redated(old[g], seen[g]) = [old[g] EXCEPT !.start = seen[g], !.full = TRUE, !.verified = when]
        BY DEF Catalog!Redated
      <3> HIDE DEF when
      <3>4. rows[g].start = seen[g] /\ rows[g].full = TRUE
        BY <3>2, <3>3 DEF Catalog!Row
      <3> QED BY <3>1, <3>4
    <2>6. Dated(rows)
      BY <2>1, <2>4, <2>5 DEF Dated
    <2>7. Confirmed(rows, public'.unconfirmed) /\ public'.unconfirmed \subseteq OfCatalog.Game
      <3>1. ASSUME NEW g \in public'.unconfirmed, rows[g] # Catalog!NoRow
            PROVE  rows[g].full
        <4>1. CASE g \in DOMAIN seen
          BY <2>1, <2>2, <3>1, <4>1
        <4>2. CASE g \notin DOMAIN seen
          <5>1. g \in public.unconfirmed /\ g \in OfCatalog.Game
            BY <2>1, <2>4, <3>1, <4>2
          <5>2. rows[g] = old[g]
            BY <2>1, <4>2, <5>1
          <5> QED BY <2>4, <3>1, <5>1, <5>2 DEF Confirmed
        <4> QED BY <4>1, <4>2
      <3>2. public'.unconfirmed \subseteq OfCatalog.Game
        BY <2>1, <2>2, <2>4
      <3> QED BY <3>1, <3>2 DEF Confirmed
    <2>8. EventsOK'
      <3>1. ASSUME NEW g \in OfCatalog.Game, rows[g] # Catalog!NoRow, g \notin unheard'
            PROVE  old[g] # Catalog!NoRow /\ g \notin unheard /\ rows[g].start = old[g].start
        <4>1. CASE g \in DOMAIN seen
          <5>1. seen[g] # 0
            BY <2>1, <3>1, <4>1
          <5>2. seen[g] = public.catalog[g].start
            BY <1>4, <3>1, <4>1, <5>1
          <5> QED BY <1>4, <2>2, <2>5, <3>1, <4>1, <5>1, <5>2 DEF old
        <4>2. CASE g \notin DOMAIN seen
          BY <1>4, <2>1, <3>1, <4>2
        <4> QED BY <4>1, <4>2
      <3>2. Shows(public.origins, old, unheard, auditor.at)
        BY <2>4 DEF EventsOK, old
      <3>3. Shows(public.origins, rows, unheard', auditor.at)
        BY <3>1, <3>2 DEF Shows
      <3>4. Shows(public'.origins, public'.catalog, unheard', auditor'.at)
        BY <1>2, <2>1, <3>3 DEF rows
      <3> QED BY <1>1, <1>2, <2>1, <2>3, <2>4, <3>4 DEF EventsOK
    <2>9. ASSUME publisher.pc # "idle"
          PROVE  Delivered(public'.origins, rows, publications, source, blocked, auditor.at)
      <3>1. SUFFICES ASSUME NEW g \in OfCatalog.Game, ToldBy(public.origins, g, publications)
                     PROVE  /\ source[g] # Catalog!NoRow /\ Settled(rows[g], source[g])
                            /\ auditor.at # 0
        BY <2>1 DEF Delivered
      <3>2. source[g] # Catalog!NoRow /\ Settled(old[g], source[g])
        BY <2>9, <3>1 DEF TellsInv, Telling, Delivered, old, source
      <3>3. source[g].verified < auditor.at
        BY <1>1, <1>4, <2>9, <3>1 DEF TellsInv, Telling, source
      <3>4. source[g] \in Catalog!Row /\ old[g] \in Catalog!Row
        BY <2>4 DEF CatalogInv, PublisherOK, Rows, source
      <3>5. CASE g \notin DOMAIN seen
        BY <2>1, <2>3, <3>2, <3>5
      <3>6. CASE g \in DOMAIN seen /\ seen[g] = 0
        BY <2>1, <2>3, <3>2, <3>6 DEF Settled
      <3>7. CASE g \in DOMAIN seen /\ seen[g] # 0
        <4>1. Settled(Catalog!Redated(old[g], seen[g]), source[g])
          BY <2>2, <3>2, <3>3, <3>4, <3>7, RedatedTells
        <4> QED BY <2>1, <2>3, <3>2, <3>7, <4>1
      <3> QED BY <3>5, <3>6, <3>7
    <2>10. unheard' \subseteq OfCatalog.Game
      BY <1>4, <2>2, <2>4
    <2> QED BY <1>1, <1>2, <2>1, <2>6, <2>7, <2>8, <2>9, <2>10, OthersTell DEF rows, source
  <1> QED BY <1>3, <1>4 DEF Catalog!AuditPushes
--------------------------------------------------------------------------------
LEMMA TellsStart == Catalog!Init => TellsInv
  <1> SUFFICES ASSUME Catalog!Init PROVE TellsInv
    OBVIOUS
  <1>1. /\ public = Catalog!NoFiles /\ publisher = Catalog!Idle /\ private = Catalog!Empty /\ ticks = 0
        /\ auditor = [busy |-> FALSE, base |-> 0, at |-> 0] /\ unheard = {} /\ blocked = {}
        /\ publications = 0 /\ arrivals = [g \in OfCatalog.Game |-> 0]
    BY DEF Catalog!Init
  <1>2. /\ public.catalog = Catalog!Empty /\ public.origins = <<>> /\ public.unconfirmed = {}
        /\ publisher.pc = "idle" /\ auditor.at = 0 /\ auditor.busy = FALSE
    BY <1>1, IdleTells DEF Catalog!NoFiles
  <1>3. Dated(Catalog!Empty) /\ Confirmed(Catalog!Empty, {})
    BY NoRowType DEF Dated, Confirmed
  <1>4. EventsOK
    <2>1. \A g : EventsOf(<<>>, g) = {} /\ Additions(<<>>, g) = {}
      BY DEF EventsOf, Additions
    <2>2. Counts(<<>>, arrivals)
      BY <1>1, <2>1, FS_EmptySet DEF Counts
    <2>3. InTurn(<<>>)
      BY <2>1 DEF InTurn
    <2>4. Shows(<<>>, Catalog!Empty, {}, 0)
      BY NoRowType DEF Shows
    <2>5. SentBy(<<>>, -ticks, publications) /\ <<>> \in Seq(Event)
      BY DEF SentBy
    <2> QED BY <1>1, <1>2, <2>2, <2>3, <2>4, <2>5 DEF EventsOK
  <1>5. 0 \in 0..OfCatalog.MaxFreeze
    BY CatalogGiven DEF Catalog!CatalogAssumption
  <1> QED BY <1>1, <1>2, <1>3, <1>4, <1>5, IdleTells DEF TellsInv, Telling

LEMMA TellsSteps == CatalogInv /\ CatalogInv' /\ TellsInv /\ [Catalog!Next]_(Catalog!vars) => TellsInv'
  <1> SUFFICES ASSUME CatalogInv, CatalogInv', TellsInv, [Catalog!Next]_(Catalog!vars)
               PROVE  TellsInv'
    OBVIOUS
  <1>1. CASE \E g \in OfCatalog.Game : Catalog!Count(g) \/ Catalog!Verify(g) \/ Catalog!Leave(g) \/ Catalog!Exclude(g)
    BY <1>1, MasterTells
  <1>2. CASE \E g \in OfCatalog.Game : Catalog!Refresh(g)
    BY <1>2, RefreshTells
  <1>3. CASE Catalog!Midnight
    BY <1>3, WorldTells DEF Catalog!Midnight, TellsInv
  <1>4. CASE Catalog!Freeze
    BY <1>4, FreezeTells
  <1>5. CASE Catalog!Fetch
    BY <1>5, FetchTells
  <1>6. CASE Catalog!Push
    BY <1>6, PushTells
  <1>7. CASE Catalog!AuditStarts
    BY <1>7, AuditStartsTells
  <1>8. CASE Catalog!AuditPushes
    BY <1>8, AuditPushesTells
  <1>9. CASE UNCHANGED Catalog!vars
    <2>1. EventsOK' /\ Telling'
      BY <1>9 DEF Catalog!vars, TellsInv, EventsOK, Telling
    <2>2. publisher.pc = "push" /\ publisher.built.version = public.version + 1 => Ready(publisher.built)'
      BY <1>9 DEF Catalog!vars, TellsInv, Ready
    <2> QED BY <1>9, <2>1, <2>2 DEF Catalog!vars, TellsInv
  <1> QED BY <1>1, <1>2, <1>3, <1>4, <1>5, <1>6, <1>7, <1>8, <1>9 DEF Catalog!Next

LEMMA TellsImply == CatalogInv /\ TellsInv => Catalog!OriginsAreTrue /\ Catalog!TypeOK
  <1> SUFFICES ASSUME CatalogInv, TellsInv PROVE Catalog!OriginsAreTrue /\ Catalog!TypeOK
    OBVIOUS
  <1> DEFINE o == public.origins
  <1>1. /\ o \in Seq(Event) /\ Shows(o, public.catalog, unheard, auditor.at)
        /\ Counts(o, arrivals) /\ (auditor.at = 0 => InTurn(o))
        /\ SentBy(o, -ticks, publications)
    BY DEF TellsInv, EventsOK
  <1>2. \A g : Catalog!Tells(g) = EventsOf(o, g)
    <2>1. DOMAIN o = 1..Len(o)
      BY <1>1
    <2> QED BY <2>1 DEF Catalog!Tells, EventsOf
  <1> HIDE DEF o
  <1>3. ASSUME NEW g \in OfCatalog.Game
        PROVE  /\ public.catalog[g] # Catalog!NoRow /\ g \notin unheard =>
                    \E i \in Catalog!Tells(g) :
                      /\ o[i].date = public.catalog[g].start
                      /\ \/ \A j \in Catalog!Tells(g) : j <= i
                         \/ auditor.at # 0 /\ o[i].previous = 0
               /\ Catalog!Cardinality({i \in Catalog!Tells(g) : o[i].previous = 0}) <= arrivals[g]
               /\ auditor.at = 0 =>
                    \A i, j \in Catalog!Tells(g) :
                      i < j /\ (\A k \in Catalog!Tells(g) : k <= i \/ j <= k) =>
                        o[j].previous \in {0, o[i].date}
    <2>1. {i \in Catalog!Tells(g) : o[i].previous = 0} = Additions(o, g)
      BY <1>2 DEF Additions
    <2>2. Catalog!Cardinality({i \in Catalog!Tells(g) : o[i].previous = 0}) <= arrivals[g]
      BY <1>1, <2>1, CatalogCounts DEF Counts
    <2>3. public.catalog[g] # Catalog!NoRow /\ g \notin unheard =>
            \E i \in EventsOf(o, g) :
              /\ o[i].date = public.catalog[g].start
              /\ (\A j \in EventsOf(o, g) : j <= i) \/ (auditor.at # 0 /\ o[i].previous = 0)
      BY <1>1 DEF Shows
    <2>4. auditor.at = 0 =>
            \A i, j \in EventsOf(o, g) :
              i < j /\ (\A k \in EventsOf(o, g) : k <= i \/ j <= k) =>
                o[j].previous \in {0, o[i].date}
      BY <1>1 DEF InTurn
    <2> QED BY <1>2, <2>2, <2>3, <2>4
  <1>4. Catalog!OriginsAreTrue
    BY <1>3 DEF Catalog!OriginsAreTrue, o
  <1>5. o \in Seq([game : OfCatalog.Game, previous : 0..OfCatalog.MaxToday + 1, date : Catalog!Date,
                   of : -OfCatalog.MaxTime..OfCatalog.MaxFreeze])
    <2> DEFINE T == [game : OfCatalog.Game, previous : 0..OfCatalog.MaxToday + 1, date : Catalog!Date,
                     of : -OfCatalog.MaxTime..OfCatalog.MaxFreeze]
    <2>1. ASSUME NEW i \in 1..Len(o)
          PROVE  o[i] \in T
      <3>1. o[i] \in Event /\ o[i].of \in -ticks..publications
        BY <1>1 DEF SentBy
      <3>2. o[i].of \in -OfCatalog.MaxTime..OfCatalog.MaxFreeze
        BY <3>1, CatalogGiven DEF CatalogInv, TellsInv, Catalog!CatalogAssumption
      <3> QED BY <3>1, <3>2 DEF Event
    <2> HIDE DEF T
    <2>2. Len(o) \in Nat /\ DOMAIN o = 1..Len(o) /\ o = [i \in 1..Len(o) |-> o[i]]
      BY <1>1
    <2>3. o \in [1..Len(o) -> T]
      BY <2>1, <2>2
    <2>4. o \in Seq(T)
      BY <2>2, <2>3
    <2> QED BY <2>4 DEF T
  <1>6. /\ private \in [OfCatalog.Game -> Catalog!Row] /\ publisher.source \in [OfCatalog.Game -> Catalog!Row]
        /\ public.games \in [OfCatalog.Game -> Catalog!Row] /\ public.catalog \in [OfCatalog.Game -> Catalog!Row]
    BY DEF CatalogInv, PublisherOK, CommitOK, Agree, Rows
  <1>7. public.upcoming \subseteq OfCatalog.Game /\ public.released \subseteq OfCatalog.Game
    <2>1. /\ public.upcoming \subseteq Catalog!Upcoming(public.catalog, public.day)
          /\ public.released \subseteq Catalog!Released(public.catalog, public.day)
      BY DEF CatalogInv, CommitOK, Agree
    <2> QED BY <2>1 DEF Catalog!Upcoming, Catalog!Released, Catalog!Shown
  <1>8. auditor.at \in 0..OfCatalog.MaxTime
    BY CatalogGiven DEF CatalogInv, AuditorOK, Catalog!CatalogAssumption
  <1>9. /\ blocked \subseteq OfCatalog.Game /\ unheard \subseteq OfCatalog.Game
        /\ public.unconfirmed \subseteq OfCatalog.Game
        /\ today \in 1..OfCatalog.MaxToday /\ ticks \in 0..OfCatalog.MaxTime
        /\ publisher.pc \in {"idle", "fetch", "push"} /\ publisher.tries \in 0..OfCatalog.MaxAttempts
    BY DEF CatalogInv, TellsInv
  <1>10. Catalog!TypeOK
    BY <1>5, <1>6, <1>7, <1>8, <1>9 DEF Catalog!TypeOK, o
  <1> QED BY <1>4, <1>10

(* TypeOK of the public catalogue. *)
THEOREM CatalogTypeCorrect == Catalog!Spec => []Catalog!TypeOK
  BY CatalogStarts, CatalogSteps, TellsStart, TellsSteps, TellsImply, PTL DEF Catalog!Spec

(* OriginsAreTrue: the activity origins tell each public date once, whoever
   delivered it and however often its publication was tried. *)
THEOREM OriginsTrue == Catalog!Spec => []Catalog!OriginsAreTrue
  BY CatalogStarts, CatalogSteps, TellsStart, TellsSteps, TellsImply, PTL DEF Catalog!Spec
--------------------------------------------------------------------------------
(* LegacyEvidence *)

(***************************************************************************)
(* The evidence of the admissions, for any contents and bounds.             *)
(*                                                                         *)
(* The argument: every manifest that the database names for a commit has    *)
(* the contents of that commit (RootsTrue), so nothing else is ever said of *)
(* it.  Before the frontend is activated the job has imported and pinned    *)
(* every commit that a live admission cites (Reading); what is pinned is    *)
(* not collected (NeededOK), so it is still there when the head moves on    *)
(* (Proven).                                                               *)
(***************************************************************************)

Pinning == [id : {"git", "cutover"} \X Evidence!Commit, origin : Evidence!Roots, root : Evidence!Roots]
EvidenceDb == [active : 0..2, head : [commit : 0..OfEvidence.MaxCommits, root : Evidence!Roots],
       revisions : [Evidence!Commit -> Evidence!Roots], mapped : [Evidence!Commit -> Evidence!Roots], pins : SUBSET Pinning,
       objects : SUBSET Evidence!Roots, admissions : SUBSET Evidence!Proof, published : Nat]
EvidenceJob == [pc : {"idle", "ingest", "evidence", "import", "objects", "pinned", "pin"},
        todo : SUBSET Evidence!Commit, at : 0..OfEvidence.MaxCommits, says : {Evidence!None} \cup {<<x>> : x \in OfEvidence.Content},
        jobs : 0..OfEvidence.MaxJobs]

EvidenceTypes ==
  /\ archive \in Seq(OfEvidence.Content) /\ Evidence!Latest \in Evidence!Commit
  /\ admitted \subseteq Evidence!Proof /\ vault \in EvidenceDb /\ halted \in BOOLEAN /\ migration \in EvidenceJob

(* Only commits that exist are cited. *)
CitedOK ==
  /\ \A p \in admitted \cup vault.admissions : p.commit \in 1..Evidence!Latest
  /\ migration.todo \subseteq 1..Evidence!Latest

(* What the database names for a commit has its contents. *)
RootsTrue ==
  /\ vault.head.commit # 0 => vault.head.commit \in 1..Evidence!Latest /\ vault.head.root = Evidence!Full(archive[vault.head.commit])
  /\ \A c \in Evidence!Commit :
       /\ vault.mapped[c] # Evidence!None => c \in 1..Evidence!Latest /\ vault.mapped[c] = Evidence!Pair(archive[c])
       /\ vault.revisions[c] # Evidence!None => c \in 1..Evidence!Latest /\ vault.revisions[c] = Evidence!Full(archive[c])
  /\ \A p \in vault.pins : p.id[2] \in 1..Evidence!Latest /\ p.root = Evidence!Pair(archive[p.id[2]])

NeededOK == Evidence!Needed \subseteq vault.objects

(* An admission that can be confirmed, whatever is published and collected. *)
Pinned(c) == \E p \in vault.pins : p.root = Evidence!Pair(archive[c])
ProvenIn(p) ==
  p.says = archive[p.commit] /\ vault.mapped[p.commit] = Evidence!Pair(archive[p.commit]) /\ Pinned(p.commit)

Reading == {"evidence", "import", "objects", "pinned", "pin"}
EvidenceJobOK ==
  /\ ~Evidence!At("idle") => halted
  /\ migration.pc \in Reading \ {"evidence"} => migration.at \in 1..Evidence!Latest /\ migration.says = <<archive[migration.at]>>
  /\ migration.pc \in {"import", "objects", "pinned"} =>
       \A p \in vault.admissions : p.commit = migration.at => p.says = archive[migration.at]
  /\ Evidence!At("objects") => Evidence!Pair(archive[migration.at]) \in vault.objects
  /\ Evidence!At("pinned") => Pinned(migration.at)
  /\ migration.pc \in Reading /\ vault.active = 0 =>
       /\ vault.admissions = admitted /\ ~Evidence!At("pin")
       /\ \A p \in admitted : p.commit \in migration.todo \/ ProvenIn(p)

ActiveOK == vault.active > 0 => \A p \in admitted : ProvenIn(p)

EvidenceIInv == EvidenceTypes /\ CitedOK /\ RootsTrue /\ NeededOK /\ EvidenceJobOK /\ ActiveOK
--------------------------------------------------------------------------------
(* Manifests *)

LEMMA RootsAre ==
  /\ Evidence!None \in Evidence!Roots /\ \A x \in OfEvidence.Content : Evidence!Full(x) \in Evidence!Roots /\ Evidence!Pair(x) \in Evidence!Roots
  /\ \A x : Evidence!Full(x) # Evidence!None /\ Evidence!Pair(x) # Evidence!None /\ Evidence!Full(x)[2] = x /\ Evidence!Pair(x)[2] = x
  /\ \A x, y : (Evidence!Pair(x) = Evidence!Pair(y) => x = y) /\ <<x>> # Evidence!None /\ <<x>>[1] = x
  BY DEF Evidence!Roots, Evidence!None, Evidence!Full, Evidence!Pair

LEMMA GitIs ==
  ASSUME Evidence!EvidenceAssumption, EvidenceIInv
  PROVE  /\ archive \in Seq(OfEvidence.Content) /\ Evidence!Latest \in Nat /\ Evidence!Latest = Len(archive) /\ 1 \in 1..Evidence!Latest
         /\ 1..Evidence!Latest \subseteq Evidence!Commit /\ Evidence!Latest \in 1..Evidence!Latest
         /\ \A c \in 1..Evidence!Latest : archive[c] \in OfEvidence.Content
  <1>1. archive \in Seq(OfEvidence.Content) /\ Evidence!Latest \in Evidence!Commit
    BY DEF EvidenceIInv, EvidenceTypes
  <1> QED BY <1>1 DEF Evidence!Commit, Evidence!Latest, Evidence!EvidenceAssumption

(* Whatever is said of a commit is what it says. *)
LEMMA SaidIs ==
  ASSUME Evidence!EvidenceAssumption, EvidenceIInv, NEW c \in Evidence!Commit
  PROVE  /\ Evidence!RootOf(vault, c) # Evidence!None =>
              c \in 1..Evidence!Latest /\ Evidence!RootOf(vault, c) \in {Evidence!Full(archive[c]), Evidence!Pair(archive[c])}
         /\ Evidence!Said(vault, c) # Evidence!None => c \in 1..Evidence!Latest /\ Evidence!Said(vault, c) = <<archive[c]>>
  <1>1. c # 0
    BY DEF Evidence!Commit, Evidence!EvidenceAssumption
  <1>2. Evidence!RootOf(vault, c) # Evidence!None =>
          c \in 1..Evidence!Latest /\ Evidence!RootOf(vault, c) \in {Evidence!Full(archive[c]), Evidence!Pair(archive[c])}
    BY <1>1 DEF EvidenceIInv, RootsTrue, Evidence!RootOf
  <1>3. Evidence!Said(vault, c) # Evidence!None => Evidence!RootOf(vault, c) # Evidence!None /\ Evidence!Said(vault, c) = <<Evidence!RootOf(vault, c)[2]>>
    BY DEF Evidence!Said
  <1> QED BY <1>2, <1>3, RootsAre

(* An admission that is proven is confirmed. *)
LEMMA ProvenIsSaid ==
  ASSUME Evidence!EvidenceAssumption, EvidenceIInv, NEW p \in admitted, ProvenIn(p)
  PROVE  Evidence!Said(vault, p.commit) = <<p.says>>
  <1>1. p.commit \in Evidence!Commit /\ p.commit \in 1..Evidence!Latest
    BY DEF EvidenceIInv, EvidenceTypes, Evidence!Proof, CitedOK
  <1>2. Evidence!RootOf(vault, p.commit) \in vault.objects
    <2>1. CASE vault.head.commit = p.commit
      BY <2>1 DEF Evidence!RootOf, EvidenceIInv, NeededOK, Evidence!Needed
    <2>2. CASE vault.head.commit # p.commit
      BY <2>2, RootsAre DEF Evidence!RootOf, EvidenceIInv, NeededOK, Evidence!Needed, ProvenIn, Pinned
    <2> QED BY <2>1, <2>2
  <1>3. Evidence!RootOf(vault, p.commit) # Evidence!None
    <2>1. CASE vault.head.commit = p.commit
      <3>1. vault.head.commit # 0
        BY <1>1, <2>1 DEF Evidence!Commit, Evidence!EvidenceAssumption
      <3> QED BY <2>1, <3>1, RootsAre DEF Evidence!RootOf, EvidenceIInv, RootsTrue
    <2>2. CASE vault.head.commit # p.commit
      BY <2>2, RootsAre DEF Evidence!RootOf, ProvenIn
    <2> QED BY <2>1, <2>2
  <1>4. Evidence!Said(vault, p.commit) = <<Evidence!RootOf(vault, p.commit)[2]>>
    BY <1>2, <1>3 DEF Evidence!Said
  <1>5. Evidence!Said(vault, p.commit) = <<archive[p.commit]>>
    BY <1>1, <1>3, <1>4, SaidIs, RootsAre
  <1> QED BY <1>5 DEF ProvenIn
--------------------------------------------------------------------------------
(* Steps that change Git or the admissions *)

LEMMA CommitsKeeps ==
  ASSUME Evidence!EvidenceAssumption, EvidenceIInv, NEW x \in OfEvidence.Content, Evidence!Commits(x)
  PROVE  EvidenceIInv'
  <1>1. /\ archive' = Append(archive, x) /\ UNCHANGED <<admitted, vault, halted, migration>> /\ ~halted
        /\ vault.active = 0 /\ Evidence!Latest < OfEvidence.MaxCommits
    BY DEF Evidence!Commits
  <1>2. /\ archive' \in Seq(OfEvidence.Content) /\ Evidence!Latest' = Evidence!Latest + 1 /\ Evidence!Latest' \in Evidence!Commit
        /\ \A c \in 1..Evidence!Latest : c \in 1..Evidence!Latest' /\ archive'[c] = archive[c]
    <2>1. /\ Evidence!Latest' = Evidence!Latest + 1 /\ archive' \in Seq(OfEvidence.Content)
          /\ \A c \in 1..Evidence!Latest : archive'[c] = archive[c]
      BY <1>1, GitIs DEF Evidence!Latest
    <2> QED BY <1>1, <2>1, GitIs DEF Evidence!Commit, Evidence!EvidenceAssumption
  <1>3. migration.pc = "idle" /\ ~(vault.active > 0)
    BY <1>1 DEF EvidenceIInv, EvidenceJobOK, Evidence!At
  <1>4. EvidenceTypes' /\ CitedOK' /\ NeededOK'
    BY <1>1, <1>2 DEF EvidenceIInv, EvidenceTypes, CitedOK, NeededOK, Evidence!Needed
  <1>5. RootsTrue'
    BY <1>1, <1>2 DEF EvidenceIInv, RootsTrue
  <1>6. EvidenceJobOK' /\ ActiveOK'
    BY <1>1, <1>3 DEF EvidenceJobOK, ActiveOK, Evidence!At, Reading
  <1> QED BY <1>4, <1>5, <1>6 DEF EvidenceIInv

LEMMA EvidenceAdmitKeeps ==
  ASSUME Evidence!EvidenceAssumption, EvidenceIInv, NEW x \in OfEvidence.Content, Evidence!Admit(x)
  PROVE  EvidenceIInv'
  <1> DEFINE p == [commit |-> Evidence!Latest, says |-> x]
  <1>1. /\ admitted' = admitted \cup {p} /\ UNCHANGED <<archive, vault, halted, migration>> /\ ~halted
        /\ vault.active = 0
    BY DEF Evidence!Admit
  <1>2. migration.pc = "idle" /\ ~(vault.active > 0) /\ Evidence!Latest' = Evidence!Latest
    BY <1>1 DEF EvidenceIInv, EvidenceJobOK, Evidence!At, Evidence!Latest
  <1>3. p \in Evidence!Proof /\ p.commit \in 1..Evidence!Latest
    BY GitIs DEF Evidence!Proof
  <1>4. EvidenceTypes' /\ CitedOK' /\ NeededOK' /\ RootsTrue'
    BY <1>1, <1>2, <1>3 DEF EvidenceIInv, EvidenceTypes, CitedOK, NeededOK, Evidence!Needed, RootsTrue
  <1>5. EvidenceJobOK' /\ ActiveOK'
    BY <1>1, <1>2 DEF EvidenceJobOK, ActiveOK, Evidence!At, Reading
  <1> QED BY <1>4, <1>5 DEF EvidenceIInv

LEMMA ExpireKeeps ==
  ASSUME Evidence!EvidenceAssumption, EvidenceIInv, NEW p \in admitted, Evidence!Expire(p)
  PROVE  EvidenceIInv'
  <1>1. /\ admitted' = admitted \ {p} /\ UNCHANGED <<archive, vault, halted, migration>> /\ ~halted
    BY DEF Evidence!Expire
  <1>2. migration.pc = "idle" /\ Evidence!Latest' = Evidence!Latest /\ \A q : ProvenIn(q)' <=> ProvenIn(q)
    BY <1>1 DEF EvidenceIInv, EvidenceJobOK, Evidence!At, Evidence!Latest, ProvenIn, Pinned
  <1>3. EvidenceTypes' /\ CitedOK' /\ NeededOK' /\ RootsTrue'
    BY <1>1, <1>2 DEF EvidenceIInv, EvidenceTypes, CitedOK, NeededOK, Evidence!Needed, RootsTrue
  <1>4. EvidenceJobOK' /\ ActiveOK'
    BY <1>1, <1>2 DEF EvidenceIInv, EvidenceJobOK, ActiveOK, Evidence!At, Reading
  <1> QED BY <1>3, <1>4 DEF EvidenceIInv
--------------------------------------------------------------------------------
(* Steps that change the database *)

(* What proves an admission stays. *)
LEMMA ProvenStays ==
  ASSUME Evidence!EvidenceAssumption, EvidenceIInv, NEW p, ProvenIn(p), p.commit \in Evidence!Commit, archive' = archive,
         \A c \in Evidence!Commit : vault.mapped[c] # Evidence!None => vault'.mapped[c] = vault.mapped[c],
         vault.pins \subseteq vault'.pins
  PROVE  ProvenIn(p)'
  <1>1. vault'.mapped[p.commit] = Evidence!Pair(archive[p.commit])
    BY RootsAre DEF ProvenIn
  <1>2. Pinned(p.commit)'
    BY DEF ProvenIn, Pinned
  <1> QED BY <1>1, <1>2 DEF ProvenIn

(* A step that leaves the job, the evidence and the admissions alone. *)
LEMMA ProvenSame ==
  ASSUME archive' = archive, vault'.mapped = vault.mapped, vault'.pins = vault.pins
  PROVE  /\ \A p : ProvenIn(p)' <=> ProvenIn(p)
         /\ \A c : Pinned(c)' <=> Pinned(c)
         /\ Evidence!Latest' = Evidence!Latest
  BY DEF ProvenIn, Pinned, Evidence!Latest

LEMMA EvidencePublishKeeps ==
  ASSUME Evidence!EvidenceAssumption, EvidenceIInv, NEW x \in OfEvidence.Content, Evidence!Publish(x)
  PROVE  EvidenceIInv'
  <1>1. /\ ~halted /\ vault.active = 2 /\ UNCHANGED <<archive, admitted, halted, migration>>
        /\ vault' = [vault EXCEPT !.head = [commit |-> 0, root |-> Evidence!Full(x)],
                            !.objects = @ \cup {Evidence!Full(x)}, !.published = @ + 1]
    BY DEF Evidence!Publish
  <1>2. vault \in EvidenceDb
    BY DEF EvidenceIInv, EvidenceTypes
  <1>3. /\ vault'.head = [commit |-> 0, root |-> Evidence!Full(x)] /\ vault'.objects = vault.objects \cup {Evidence!Full(x)}
        /\ vault'.active = vault.active /\ vault'.revisions = vault.revisions /\ vault'.mapped = vault.mapped
        /\ vault'.pins = vault.pins /\ vault'.admissions = vault.admissions
    BY <1>1, <1>2 DEF EvidenceDb
  <1>4. vault' \in EvidenceDb
    <2> DEFINE h == [commit |-> 0, root |-> Evidence!Full(x)]
               o == vault.objects \cup {Evidence!Full(x)}
               n == vault.published + 1
    <2>1. h \in [commit : 0..OfEvidence.MaxCommits, root : Evidence!Roots] /\ o \subseteq Evidence!Roots
      BY <1>2, RootsAre DEF Evidence!EvidenceAssumption, EvidenceDb
    <2>2. n \in Nat
      BY <1>2 DEF EvidenceDb
    <2>3. vault' = [vault EXCEPT !.head = h, !.objects = o, !.published = n]
      BY <1>1
    <2> HIDE DEF h, o, n
    <2> QED BY <1>2, <2>1, <2>2, <2>3 DEF EvidenceDb
  <1>5. EvidenceTypes' /\ CitedOK' /\ RootsTrue'
    BY <1>1, <1>3, <1>4, ProvenSame DEF EvidenceIInv, EvidenceTypes, CitedOK, RootsTrue
  <1>6. NeededOK'
    BY <1>3 DEF EvidenceIInv, NeededOK, Evidence!Needed
  <1>7. EvidenceJobOK' /\ ActiveOK'
    BY <1>1, <1>3, ProvenSame DEF EvidenceIInv, EvidenceJobOK, ActiveOK, Evidence!At
  <1> QED BY <1>5, <1>6, <1>7 DEF EvidenceIInv

LEMMA CollectKeeps ==
  ASSUME Evidence!EvidenceAssumption, EvidenceIInv, NEW doomed \in SUBSET (vault.objects \ Evidence!Needed), Evidence!Collect(doomed)
  PROVE  EvidenceIInv'
  <1>1. /\ ~Evidence!At("objects") /\ UNCHANGED <<archive, admitted, halted, migration>>
        /\ vault' = [vault EXCEPT !.objects = @ \ doomed]
    BY DEF Evidence!Collect, Evidence!Leased
  <1>2. vault \in EvidenceDb
    BY DEF EvidenceIInv, EvidenceTypes
  <1>3. /\ vault'.head = vault.head /\ vault'.objects = vault.objects \ doomed
        /\ vault'.active = vault.active /\ vault'.revisions = vault.revisions /\ vault'.mapped = vault.mapped
        /\ vault'.pins = vault.pins /\ vault'.admissions = vault.admissions /\ vault' \in EvidenceDb
    BY <1>1, <1>2 DEF EvidenceDb
  <1>4. EvidenceTypes' /\ CitedOK' /\ RootsTrue'
    BY <1>1, <1>3, ProvenSame DEF EvidenceIInv, EvidenceTypes, CitedOK, RootsTrue
  <1>5. NeededOK'
    BY <1>3 DEF EvidenceIInv, NeededOK, Evidence!Needed
  <1>6. EvidenceJobOK' /\ ActiveOK'
    BY <1>1, <1>3, ProvenSame DEF EvidenceIInv, EvidenceJobOK, ActiveOK, Evidence!At
  <1> QED BY <1>4, <1>5, <1>6 DEF EvidenceIInv

(* What the import makes of the database. *)
Imported(d) ==
  /\ d \in EvidenceDb /\ d.active = vault.active /\ d.mapped = vault.mapped /\ d.pins = vault.pins
  /\ d.admissions \subseteq vault.admissions \cup admitted
  /\ vault.active = 0 => d.admissions = admitted
  /\ d.head \in {vault.head, [commit |-> Evidence!Latest, root |-> Evidence!Full(archive[Evidence!Latest])]}
  /\ \/ d.objects = vault.objects \cup {Evidence!Full(archive[Evidence!Latest])}
     \/ d.objects = vault.objects /\ d.head = vault.head
  /\ \A c \in Evidence!Commit : \/ d.revisions[c] = vault.revisions[c]
                                \/ c = Evidence!Latest /\ d.revisions[c] = Evidence!Full(archive[Evidence!Latest])

LEMMA IngestedIs ==
  ASSUME Evidence!EvidenceAssumption, EvidenceIInv
  PROVE  Imported(Evidence!Ingested(vault))
  <1> DEFINE b == IF vault.active < 2 THEN [vault EXCEPT !.admissions = admitted] ELSE vault
             root == Evidence!Full(archive[Evidence!Latest])
             h == [commit |-> Evidence!Latest, root |-> root]
             r == [b.revisions EXCEPT ![Evidence!Latest] = root]
             o == b.objects \cup {root}
  <1>1. vault \in EvidenceDb /\ admitted \subseteq Evidence!Proof /\ vault.active \in 0..2
    BY DEF EvidenceIInv, EvidenceTypes, EvidenceDb
  <1>2. /\ b \in EvidenceDb /\ b.active = vault.active /\ b.mapped = vault.mapped /\ b.pins = vault.pins
        /\ b.head = vault.head /\ b.objects = vault.objects /\ b.revisions = vault.revisions
        /\ b.admissions \subseteq vault.admissions \cup admitted
        /\ (vault.active = 0 => b.admissions = admitted)
    BY <1>1 DEF EvidenceDb
  <1>3. root \in Evidence!Roots /\ Evidence!Latest \in Evidence!Commit /\ Evidence!Latest \in 0..OfEvidence.MaxCommits
    BY GitIs, RootsAre DEF Evidence!Commit
  <1>4. CASE vault.active > 0
    <2>1. Evidence!Ingested(vault) = b
      BY <1>4 DEF Evidence!Ingested
    <2> QED BY <1>2, <2>1 DEF Imported
  <1>5. CASE ~(vault.active > 0)
    <2>1. Evidence!Ingested(vault) = [b EXCEPT !.head = h, !.revisions = r, !.objects = o]
      BY <1>5 DEF Evidence!Ingested
    <2>2. h \in [commit : 0..OfEvidence.MaxCommits, root : Evidence!Roots] /\ r \in [Evidence!Commit -> Evidence!Roots]
          /\ o \subseteq Evidence!Roots
      BY <1>2, <1>3 DEF EvidenceDb
    <2>3. \A c \in Evidence!Commit : r[c] = vault.revisions[c] \/ (c = Evidence!Latest /\ r[c] = root)
      BY <1>2, <1>3 DEF EvidenceDb
    <2> HIDE DEF b, h, r, o, root
    <2>4. /\ Evidence!Ingested(vault) \in EvidenceDb /\ Evidence!Ingested(vault).head = h /\ Evidence!Ingested(vault).revisions = r
          /\ Evidence!Ingested(vault).objects = o /\ Evidence!Ingested(vault).active = b.active
          /\ Evidence!Ingested(vault).mapped = b.mapped /\ Evidence!Ingested(vault).pins = b.pins
          /\ Evidence!Ingested(vault).admissions = b.admissions
      BY <1>2, <2>1, <2>2 DEF EvidenceDb
    <2> QED BY <1>2, <2>3, <2>4 DEF Imported, b, h, r, o, root
  <1> QED BY <1>4, <1>5

(* After an import that changes nothing else, all but the job is as it was. *)
LEMMA ImportedKeeps ==
  ASSUME Evidence!EvidenceAssumption, EvidenceIInv, Imported(vault'), UNCHANGED <<archive, admitted>>
  PROVE  /\ RootsTrue' /\ NeededOK' /\ ActiveOK' /\ vault' \in EvidenceDb /\ Evidence!Latest' = Evidence!Latest
         /\ vault'.admissions \subseteq Evidence!Proof
         /\ \A p \in admitted' \cup vault'.admissions : p.commit \in 1..Evidence!Latest'
  <1>1. vault'.mapped = vault.mapped /\ vault'.pins = vault.pins /\ vault'.active = vault.active /\ vault' \in EvidenceDb
    BY DEF Imported
  <1>2. Evidence!Latest' = Evidence!Latest /\ \A p : ProvenIn(p)' <=> ProvenIn(p)
    BY <1>1, ProvenSame
  <1>3. Evidence!Latest \in 1..Evidence!Latest
    BY GitIs
  <1>4. ActiveOK'
    BY <1>1, <1>2 DEF EvidenceIInv, ActiveOK
  <1>5. \A p \in admitted' \cup vault'.admissions : p.commit \in 1..Evidence!Latest'
    BY <1>2 DEF Imported, EvidenceIInv, CitedOK
  <1>6. NeededOK'
    BY <1>1 DEF Imported, EvidenceIInv, NeededOK, Evidence!Needed
  <1>7. RootsTrue'
    <2>1. vault'.head.commit # 0 =>
            vault'.head.commit \in 1..Evidence!Latest /\ vault'.head.root = Evidence!Full(archive[vault'.head.commit])
      BY <1>3 DEF Imported, EvidenceIInv, RootsTrue
    <2>2. \A c \in Evidence!Commit : vault'.revisions[c] # Evidence!None =>
            c \in 1..Evidence!Latest /\ vault'.revisions[c] = Evidence!Full(archive[c])
      BY <1>3 DEF Imported, EvidenceIInv, RootsTrue
    <2> QED BY <1>1, <1>2, <2>1, <2>2 DEF EvidenceIInv, RootsTrue
  <1>8. vault'.admissions \subseteq Evidence!Proof
    BY <1>1 DEF EvidenceDb
  <1> QED BY <1>1, <1>2, <1>4, <1>5, <1>6, <1>7, <1>8

LEMMA SyncKeeps ==
  ASSUME Evidence!EvidenceAssumption, EvidenceIInv, Evidence!Sync
  PROVE  EvidenceIInv'
  <1>1. UNCHANGED <<archive, admitted, halted, migration>> /\ migration.pc = "idle" /\ Imported(vault')
    BY IngestedIs DEF Evidence!Sync, Evidence!At
  <1>2. /\ RootsTrue' /\ NeededOK' /\ ActiveOK' /\ vault' \in EvidenceDb /\ Evidence!Latest' = Evidence!Latest
        /\ \A p \in admitted' \cup vault'.admissions : p.commit \in 1..Evidence!Latest'
    BY <1>1, ImportedKeeps
  <1>3. EvidenceTypes' /\ CitedOK'
    BY <1>1, <1>2 DEF EvidenceIInv, EvidenceTypes, CitedOK
  <1>4. EvidenceJobOK'
    BY <1>1 DEF EvidenceJobOK, Evidence!At, Reading
  <1> QED BY <1>2, <1>3, <1>4 DEF EvidenceIInv

LEMMA IngestKeeps ==
  ASSUME Evidence!EvidenceAssumption, EvidenceIInv, Evidence!Ingest
  PROVE  EvidenceIInv'
  <1>1. /\ UNCHANGED <<archive, admitted, halted>> /\ migration.pc = "ingest" /\ Imported(vault')
        /\ migration' = [migration EXCEPT !.pc = "evidence", !.todo = Evidence!Inventory(vault')]
    BY IngestedIs DEF Evidence!Ingest, Evidence!At
  <1>2. /\ RootsTrue' /\ NeededOK' /\ ActiveOK' /\ vault' \in EvidenceDb /\ Evidence!Latest' = Evidence!Latest
        /\ vault'.admissions \subseteq Evidence!Proof
        /\ \A p \in admitted' \cup vault'.admissions : p.commit \in 1..Evidence!Latest'
    BY <1>1, ImportedKeeps
  <1>3. Evidence!Inventory(vault') \subseteq 1..Evidence!Latest /\ Evidence!Inventory(vault') \subseteq Evidence!Commit
    BY <1>2, GitIs DEF Evidence!Inventory
  <1>4. migration' \in EvidenceJob /\ migration'.pc = "evidence" /\ migration'.todo = Evidence!Inventory(vault')
    BY <1>1, <1>3 DEF EvidenceIInv, EvidenceTypes, EvidenceJob
  <1>5. EvidenceTypes' /\ CitedOK'
    BY <1>1, <1>2, <1>3, <1>4 DEF EvidenceIInv, EvidenceTypes, CitedOK
  <1>6. EvidenceJobOK'
    <2>1. halted'
      BY <1>1 DEF EvidenceIInv, EvidenceJobOK, Evidence!At
    <2>2. vault'.active = 0 => vault'.admissions = admitted' /\ \A p \in admitted' : p.commit \in migration'.todo
      BY <1>1, <1>4 DEF Imported, Evidence!Inventory
    <2> QED BY <1>4, <2>1, <2>2 DEF EvidenceJobOK, Evidence!At, Reading
  <1> QED BY <1>2, <1>5, <1>6 DEF EvidenceIInv
--------------------------------------------------------------------------------
(* The control job *)

LEMMA StartKeeps ==
  ASSUME Evidence!EvidenceAssumption, EvidenceIInv, Evidence!Start
  PROVE  EvidenceIInv'
  <1>1. /\ UNCHANGED <<archive, admitted, vault>> /\ halted' = TRUE /\ migration.jobs < OfEvidence.MaxJobs
        /\ migration' = [Evidence!NoJob EXCEPT !.pc = "ingest", !.jobs = migration.jobs + 1]
    BY DEF Evidence!Start
  <1>2. migration' \in EvidenceJob /\ migration'.pc = "ingest" /\ migration'.todo = {}
    <2> DEFINE n == migration.jobs + 1
    <2>1. n \in 0..OfEvidence.MaxJobs /\ 0 \in 0..OfEvidence.MaxCommits
      BY <1>1 DEF EvidenceIInv, EvidenceTypes, EvidenceJob, Evidence!EvidenceAssumption
    <2>2. migration' = [pc |-> "ingest", todo |-> {}, at |-> 0, says |-> Evidence!None, jobs |-> n]
      BY <1>1 DEF Evidence!NoJob
    <2> HIDE DEF n
    <2> QED BY <2>1, <2>2 DEF EvidenceJob
  <1>3. EvidenceTypes' /\ CitedOK' /\ RootsTrue' /\ NeededOK'
    BY <1>1, <1>2 DEF EvidenceIInv, EvidenceTypes, CitedOK, RootsTrue, NeededOK, Evidence!Needed, Evidence!Latest
  <1>4. EvidenceJobOK' /\ ActiveOK'
    BY <1>1, <1>2, ProvenSame DEF EvidenceIInv, EvidenceJobOK, ActiveOK, Evidence!At, Reading
  <1> QED BY <1>3, <1>4 DEF EvidenceIInv

LEMMA EvidenceFailKeeps ==
  ASSUME Evidence!EvidenceAssumption, EvidenceIInv, Evidence!Fail
  PROVE  EvidenceIInv'
  <1>1. UNCHANGED <<archive, admitted, vault, halted>> /\ migration' = [Evidence!NoJob EXCEPT !.jobs = migration.jobs]
    BY DEF Evidence!Fail
  <1>2. migration' \in EvidenceJob /\ migration'.pc = "idle" /\ migration'.todo = {}
    BY <1>1 DEF EvidenceIInv, EvidenceTypes, EvidenceJob, Evidence!NoJob, Evidence!EvidenceAssumption
  <1>3. EvidenceTypes' /\ CitedOK' /\ RootsTrue' /\ NeededOK'
    BY <1>1, <1>2 DEF EvidenceIInv, EvidenceTypes, CitedOK, RootsTrue, NeededOK, Evidence!Needed, Evidence!Latest
  <1>4. EvidenceJobOK' /\ ActiveOK'
    BY <1>1, <1>2, ProvenSame DEF EvidenceIInv, EvidenceJobOK, ActiveOK, Evidence!At, Reading
  <1> QED BY <1>3, <1>4 DEF EvidenceIInv

LEMMA ResumeKeeps ==
  ASSUME Evidence!EvidenceAssumption, EvidenceIInv, Evidence!Resume
  PROVE  EvidenceIInv'
  <1>1. UNCHANGED <<archive, admitted, vault, migration>> /\ halted' = FALSE /\ migration.pc = "idle"
    BY DEF Evidence!Resume, Evidence!At
  <1>2. EvidenceTypes' /\ CitedOK' /\ RootsTrue' /\ NeededOK'
    BY <1>1 DEF EvidenceIInv, EvidenceTypes, CitedOK, RootsTrue, NeededOK, Evidence!Needed, Evidence!Latest
  <1>3. EvidenceJobOK' /\ ActiveOK'
    BY <1>1, ProvenSame DEF EvidenceIInv, EvidenceJobOK, ActiveOK, Evidence!At, Reading
  <1> QED BY <1>2, <1>3 DEF EvidenceIInv

(* Only commits that exist are read, and what is read of them is true. *)
LEMMA ReadEvidenceKeeps ==
  ASSUME Evidence!EvidenceAssumption, EvidenceIInv, NEW c \in Evidence!Commit, Evidence!ReadEvidence(c)
  PROVE  EvidenceIInv'
  <1> DEFINE says == IF Evidence!Said(vault, c) # Evidence!None THEN Evidence!Said(vault, c) ELSE Evidence!FromGit(c)
             l == IF vault.active > 0 THEN "pin" ELSE "import"
  <1>1. /\ UNCHANGED <<archive, admitted, vault, halted>> /\ migration.pc = "evidence" /\ c \in migration.todo
        /\ Evidence!Valid(c, says) /\ migration' = [migration EXCEPT !.pc = l, !.at = c, !.says = says]
    BY DEF Evidence!ReadEvidence, Evidence!At
  <1>2. c \in 1..Evidence!Latest /\ says = <<archive[c]>> /\ archive[c] \in OfEvidence.Content /\ c \in 0..OfEvidence.MaxCommits
    <2>1. c \in 1..Evidence!Latest
      BY <1>1 DEF EvidenceIInv, CitedOK
    <2> QED BY <2>1, SaidIs, GitIs DEF Evidence!FromGit, Evidence!Commit
  <1> HIDE DEF says
  <1> DEFINE Says == {Evidence!None} \cup {<<x>> : x \in OfEvidence.Content}
  <1>a. says \in Says /\ l \in {"pin", "import"} /\ (vault.active = 0 => l = "import")
    BY <1>2
  <1>b. EvidenceJob = [pc : {"idle", "ingest", "evidence", "import", "objects", "pinned", "pin"},
               todo : SUBSET Evidence!Commit, at : 0..OfEvidence.MaxCommits, says : Says, jobs : 0..OfEvidence.MaxJobs]
    BY DEF EvidenceJob
  <1> HIDE DEF l, Says
  <1>3. /\ migration' \in EvidenceJob /\ migration'.pc \in {"pin", "import"} /\ migration'.at = c /\ migration'.says = <<archive[c]>>
        /\ migration'.todo = migration.todo /\ (vault.active = 0 => migration'.pc = "import")
    BY <1>1, <1>2, <1>a, <1>b DEF EvidenceIInv, EvidenceTypes
  <1>4. EvidenceTypes' /\ CitedOK' /\ RootsTrue' /\ NeededOK'
    BY <1>1, <1>3 DEF EvidenceIInv, EvidenceTypes, CitedOK, RootsTrue, NeededOK, Evidence!Needed, Evidence!Latest
  <1>5. \A p \in vault.admissions : p.commit = c => p.says = archive[c]
    BY <1>1, <1>2, RootsAre DEF Evidence!Valid
  <1>6. EvidenceJobOK' /\ ActiveOK'
    BY <1>1, <1>2, <1>3, <1>5, ProvenSame DEF EvidenceIInv, EvidenceJobOK, ActiveOK, Evidence!At, Reading
  <1> QED BY <1>4, <1>6 DEF EvidenceIInv

(* A step of the import: nothing but objects, pins and one mapping are added. *)
Adds(pins, mapped, objects, pc, todo, at, says) ==
  /\ UNCHANGED <<archive, admitted, halted>>
  /\ vault' = [vault EXCEPT !.pins = pins, !.mapped = mapped, !.objects = objects]
  /\ pins \subseteq Pinning /\ mapped \in [Evidence!Commit -> Evidence!Roots] /\ objects \subseteq Evidence!Roots
  /\ vault.pins \subseteq pins /\ vault.objects \subseteq objects
  /\ \A p \in pins \ vault.pins : p.id[2] \in 1..Evidence!Latest /\ p.root = Evidence!Pair(archive[p.id[2]])
  /\ \A p \in pins \ vault.pins : p.root \in objects
  /\ \A c \in Evidence!Commit : \/ mapped[c] = vault.mapped[c]
                                \/ vault.mapped[c] = Evidence!None /\ c \in 1..Evidence!Latest /\ mapped[c] = Evidence!Pair(archive[c])
  /\ migration' = [migration EXCEPT !.pc = pc, !.todo = todo, !.at = at, !.says = says]
  /\ pc \in {"objects", "pinned", "evidence"} /\ todo \subseteq migration.todo /\ at \in 0..OfEvidence.MaxCommits
  /\ says \in {Evidence!None} \cup {<<x>> : x \in OfEvidence.Content}

LEMMA ImportStep ==
  ASSUME Evidence!EvidenceAssumption, EvidenceIInv, NEW pins, NEW mapped, NEW objects, NEW says, NEW pc, NEW todo,
         NEW at, Adds(pins, mapped, objects, pc, todo, at, says)
  PROVE  /\ EvidenceTypes' /\ CitedOK' /\ RootsTrue' /\ NeededOK' /\ ActiveOK'
         /\ vault'.pins = pins /\ vault'.mapped = mapped /\ vault'.objects = objects
         /\ vault'.active = vault.active /\ vault'.admissions = vault.admissions /\ Evidence!Latest' = Evidence!Latest
         /\ migration'.pc = pc /\ migration'.todo = todo /\ migration'.at = at /\ migration'.says = says
         /\ \A p \in admitted : ProvenIn(p) => ProvenIn(p)'
  <1>1. vault \in EvidenceDb /\ migration \in EvidenceJob /\ admitted \subseteq Evidence!Proof
    BY DEF EvidenceIInv, EvidenceTypes
  <1>2. /\ vault' \in EvidenceDb /\ vault'.pins = pins /\ vault'.mapped = mapped /\ vault'.objects = objects
        /\ vault'.active = vault.active /\ vault'.admissions = vault.admissions /\ vault'.head = vault.head
        /\ vault'.revisions = vault.revisions
    BY <1>1 DEF EvidenceDb, Adds
  <1>3. todo \subseteq Evidence!Commit
    BY <1>1 DEF EvidenceJob, Adds
  <1>4. migration' \in EvidenceJob /\ migration'.pc = pc /\ migration'.todo = todo /\ migration'.at = at /\ migration'.says = says
    BY <1>1, <1>3 DEF EvidenceJob, Adds
  <1>5. Evidence!Latest' = Evidence!Latest
    BY DEF Evidence!Latest, Adds
  <1>6. \A p \in admitted : ProvenIn(p) => ProvenIn(p)'
    <2> SUFFICES ASSUME NEW p \in admitted, ProvenIn(p) PROVE ProvenIn(p)'
      OBVIOUS
    <2>1. p.commit \in Evidence!Commit
      BY <1>1 DEF Evidence!Proof
    <2> QED BY <1>2, <2>1, ProvenStays DEF Adds
  <1>7. EvidenceTypes' /\ CitedOK'
    BY <1>2, <1>4, <1>5 DEF EvidenceIInv, EvidenceTypes, CitedOK, Adds
  <1>8. RootsTrue'
    BY <1>2, <1>5 DEF EvidenceIInv, RootsTrue, Adds
  <1>9. NeededOK'
    BY <1>2 DEF EvidenceIInv, NeededOK, Evidence!Needed, Adds
  <1>10. ActiveOK'
    BY <1>2, <1>6 DEF EvidenceIInv, ActiveOK, Adds
  <1> QED BY <1>2, <1>4, <1>5, <1>6, <1>7, <1>8, <1>9, <1>10

LEMMA JobHolds ==
  ASSUME Evidence!EvidenceAssumption, EvidenceIInv, migration.pc \in Reading \ {"evidence"}
  PROVE  /\ migration.at \in 1..Evidence!Latest /\ migration.at \in Evidence!Commit /\ migration.at \in 0..OfEvidence.MaxCommits
         /\ migration.says = <<archive[migration.at]>> /\ migration.says[1] = archive[migration.at] /\ archive[migration.at] \in OfEvidence.Content
         /\ Evidence!Pair(archive[migration.at]) \in Evidence!Roots /\ halted
         /\ migration.says \in {Evidence!None} \cup {<<x>> : x \in OfEvidence.Content}
         /\ 0 \in 0..OfEvidence.MaxCommits /\ vault \in EvidenceDb /\ migration \in EvidenceJob
  <1>1. migration.at \in 1..Evidence!Latest /\ migration.says = <<archive[migration.at]>> /\ halted
    BY DEF EvidenceIInv, EvidenceJobOK, Evidence!At, Reading
  <1>2. vault \in EvidenceDb /\ migration \in EvidenceJob
    BY DEF EvidenceIInv, EvidenceTypes
  <1> QED BY <1>1, <1>2, GitIs, RootsAre DEF Evidence!Commit, Evidence!EvidenceAssumption

LEMMA ImportKeeps ==
  ASSUME Evidence!EvidenceAssumption, EvidenceIInv, Evidence!Import
  PROVE  EvidenceIInv'
  <1> DEFINE root == Evidence!Pair(migration.says[1])
             o == vault.objects \cup {root}
  <1>1. /\ UNCHANGED <<archive, admitted, halted>> /\ migration.pc = "import" /\ vault.active = 0
        /\ vault' = [vault EXCEPT !.objects = o] /\ migration' = [migration EXCEPT !.pc = "objects"]
    BY DEF Evidence!Import, Evidence!At
  <1>2. /\ migration.at \in 1..Evidence!Latest /\ migration.at \in 0..OfEvidence.MaxCommits /\ root = Evidence!Pair(archive[migration.at])
        /\ root \in Evidence!Roots /\ migration.says = <<archive[migration.at]>> /\ halted /\ vault \in EvidenceDb /\ migration \in EvidenceJob
        /\ migration.says \in {Evidence!None} \cup {<<x>> : x \in OfEvidence.Content}
    BY <1>1, JobHolds DEF Reading
  <1>3. /\ vault' = [vault EXCEPT !.pins = vault.pins, !.mapped = vault.mapped, !.objects = o]
        /\ vault.pins \subseteq Pinning /\ vault.mapped \in [Evidence!Commit -> Evidence!Roots] /\ o \subseteq Evidence!Roots
        /\ vault.objects \subseteq o
    BY <1>1, <1>2 DEF EvidenceDb
  <1>4. migration' = [migration EXCEPT !.pc = "objects", !.todo = migration.todo, !.at = migration.at, !.says = migration.says]
    BY <1>1, <1>2 DEF EvidenceJob
  <1>a. Adds(vault.pins, vault.mapped, o, "objects", migration.todo, migration.at, migration.says)
    BY <1>1, <1>2, <1>3, <1>4 DEF Adds
  <1> HIDE DEF o, root
  <1>5. /\ EvidenceTypes' /\ CitedOK' /\ RootsTrue' /\ NeededOK' /\ ActiveOK'
        /\ vault'.objects = o /\ vault'.active = vault.active /\ vault'.admissions = vault.admissions
        /\ Evidence!Latest' = Evidence!Latest /\ migration'.pc = "objects" /\ migration'.todo = migration.todo /\ migration'.at = migration.at
        /\ migration'.says = migration.says /\ \A p \in admitted : ProvenIn(p) => ProvenIn(p)'
    BY <1>a, ImportStep
  <1>6. EvidenceJobOK'
    BY <1>1, <1>2, <1>5 DEF EvidenceIInv, EvidenceJobOK, Evidence!At, Reading, o, root
  <1> QED BY <1>5, <1>6 DEF EvidenceIInv

(* The pin is made once; the one that is there has the same root. *)
WithPin(pins, kind, c, origin) ==
  /\ Evidence!Pin(<<kind, c>>, origin, Evidence!Pair(archive[c])) = [vault EXCEPT !.pins = pins]
  /\ vault.pins \subseteq pins /\ pins \subseteq Pinning
  /\ \A p \in pins \ vault.pins : p.id[2] = c /\ p.root = Evidence!Pair(archive[c])
  /\ \E p \in pins : p.root = Evidence!Pair(archive[c])

LEMMA PinIs ==
  ASSUME Evidence!EvidenceAssumption, EvidenceIInv, NEW kind \in {"git", "cutover"}, NEW c \in 1..Evidence!Latest,
         NEW origin \in Evidence!Roots
  PROVE  \E pins : WithPin(pins, kind, c, origin)
  <1> DEFINE id == <<kind, c>>
             new == [id |-> id, origin |-> origin, root |-> Evidence!Pair(archive[c])]
             pins == IF \E p \in vault.pins : p.id = id THEN vault.pins ELSE vault.pins \cup {new}
  <1>1. Evidence!Pin(id, origin, Evidence!Pair(archive[c])) = [vault EXCEPT !.pins = pins]
    BY DEF Evidence!Pin
  <1>2. new \in Pinning /\ vault.pins \subseteq Pinning
    <2>1. c \in Evidence!Commit /\ Evidence!Pair(archive[c]) \in Evidence!Roots /\ vault \in EvidenceDb
      BY GitIs, RootsAre DEF EvidenceIInv, EvidenceTypes
    <2> QED BY <2>1 DEF Pinning, EvidenceDb
  <1>3. id[2] = c
    OBVIOUS
  <1>4. \A p \in vault.pins : p.id = id => p.root = Evidence!Pair(archive[c])
    BY <1>3 DEF EvidenceIInv, RootsTrue
  <1>5. \E p \in pins : p.root = Evidence!Pair(archive[c])
    <2>1. CASE \E p \in vault.pins : p.id = id
      BY <1>4, <2>1
    <2>2. CASE ~ \E p \in vault.pins : p.id = id
      <3>1. new \in pins /\ new.root = Evidence!Pair(archive[c])
        BY <2>2
      <3> QED BY <3>1
    <2> QED BY <2>1, <2>2
  <1>6. vault.pins \subseteq pins /\ pins \subseteq Pinning
    BY <1>2
  <1>7. \A p \in pins \ vault.pins : p.id[2] = c /\ p.root = Evidence!Pair(archive[c])
    BY <1>3
  <1> HIDE DEF pins
  <1> QED BY <1>1, <1>5, <1>6, <1>7 DEF WithPin

LEMMA ImportPinKeeps ==
  ASSUME Evidence!EvidenceAssumption, EvidenceIInv, Evidence!ImportPin
  PROVE  EvidenceIInv'
  <1>a. PICK c : c = migration.at
    OBVIOUS
  <1>b. PICK root : root = Evidence!Pair(archive[c])
    OBVIOUS
  <1>1. UNCHANGED <<archive, admitted, halted>> /\ migration.pc = "objects" /\ migration' = [migration EXCEPT !.pc = "pinned"]
    BY DEF Evidence!ImportPin, Evidence!At
  <1>2. /\ c \in 1..Evidence!Latest /\ c \in 0..OfEvidence.MaxCommits /\ migration.says[1] = archive[c]
        /\ root \in Evidence!Roots /\ migration.says = <<archive[c]>> /\ halted /\ vault \in EvidenceDb /\ migration \in EvidenceJob
        /\ migration.says \in {Evidence!None} \cup {<<x>> : x \in OfEvidence.Content}
    BY <1>1, <1>a, <1>b, JobHolds DEF Reading
  <1>3. vault' = Evidence!Pin(<<"git", c>>, root, root)
    BY <1>2, <1>a, <1>b DEF Evidence!ImportPin
  <1>4. PICK pins : /\ Evidence!Pin(<<"git", c>>, root, root) = [vault EXCEPT !.pins = pins]
                    /\ vault.pins \subseteq pins /\ pins \subseteq Pinning
                    /\ \A p \in pins \ vault.pins : p.id[2] = c /\ p.root = root
                    /\ \E p \in pins : p.root = root
    <2>1. \E pins : WithPin(pins, "git", c, root)
      BY <1>2, PinIs
    <2> QED BY <1>b, <2>1 DEF WithPin
  <1>5. root \in vault.objects
    BY <1>1, <1>a, <1>b DEF EvidenceIInv, EvidenceJobOK, Evidence!At
  <1>6. /\ vault' = [vault EXCEPT !.pins = pins, !.mapped = vault.mapped, !.objects = vault.objects]
        /\ vault.mapped \in [Evidence!Commit -> Evidence!Roots] /\ vault.objects \subseteq Evidence!Roots
    BY <1>2, <1>3, <1>4 DEF EvidenceDb
  <1>7. \A p \in pins \ vault.pins : /\ p.id[2] \in 1..Evidence!Latest /\ p.root = Evidence!Pair(archive[p.id[2]])
                                     /\ p.root \in vault.objects
    BY <1>2, <1>4, <1>5, <1>b
  <1>8. migration' = [migration EXCEPT !.pc = "pinned", !.todo = migration.todo, !.at = c, !.says = migration.says]
    BY <1>1, <1>2, <1>a DEF EvidenceJob
  <1>c. Adds(pins, vault.mapped, vault.objects, "pinned", migration.todo, c, migration.says)
    BY <1>1, <1>2, <1>4, <1>6, <1>7, <1>8 DEF Adds
  <1>9. /\ EvidenceTypes' /\ CitedOK' /\ RootsTrue' /\ NeededOK' /\ ActiveOK'
        /\ vault'.pins = pins /\ vault'.active = vault.active /\ vault'.admissions = vault.admissions
        /\ Evidence!Latest' = Evidence!Latest /\ migration'.pc = "pinned" /\ migration'.todo = migration.todo /\ migration'.at = c
        /\ migration'.says = migration.says /\ \A p \in admitted : ProvenIn(p) => ProvenIn(p)'
    BY <1>c, ImportStep
  <1>10. Pinned(c)'
    BY <1>1, <1>4, <1>9, <1>b DEF Pinned
  <1>11. EvidenceJobOK'
    BY <1>1, <1>2, <1>9, <1>10, <1>a DEF EvidenceIInv, EvidenceJobOK, Evidence!At, Reading
  <1> QED BY <1>9, <1>11 DEF EvidenceIInv

LEMMA ImportMappingKeeps ==
  ASSUME Evidence!EvidenceAssumption, EvidenceIInv, Evidence!ImportMapping
  PROVE  EvidenceIInv'
  <1>a. PICK c : c = migration.at
    OBVIOUS
  <1>b. PICK root : root = Evidence!Pair(archive[c])
    OBVIOUS
  <1> DEFINE m == [vault.mapped EXCEPT ![c] = IF @ = Evidence!None THEN root ELSE @]
             todo == migration.todo \ {c}
  <1>1. UNCHANGED <<archive, admitted, halted>> /\ migration.pc = "pinned"
    BY DEF Evidence!ImportMapping, Evidence!At
  <1>2. /\ c \in 1..Evidence!Latest /\ c \in Evidence!Commit /\ 0 \in 0..OfEvidence.MaxCommits /\ migration.says[1] = archive[c]
        /\ root \in Evidence!Roots /\ halted /\ vault \in EvidenceDb /\ migration \in EvidenceJob
    BY <1>1, <1>a, <1>b, JobHolds DEF Reading
  <1>3. /\ vault' = [vault EXCEPT !.mapped = m]
        /\ migration' = [migration EXCEPT !.pc = "evidence", !.todo = todo, !.at = 0, !.says = Evidence!None]
    BY <1>2, <1>a, <1>b DEF Evidence!ImportMapping
  <1>4. /\ vault.mapped \in [Evidence!Commit -> Evidence!Roots] /\ vault.objects \subseteq Evidence!Roots /\ vault.pins \subseteq Pinning
    BY <1>2 DEF EvidenceDb
  <1>5. /\ m \in [Evidence!Commit -> Evidence!Roots] /\ m[c] = root
        /\ \A k \in Evidence!Commit : \/ m[k] = vault.mapped[k]
                                      \/ vault.mapped[k] = Evidence!None /\ k \in 1..Evidence!Latest /\ m[k] = Evidence!Pair(archive[k])
    <2>1. vault.mapped[c] # Evidence!None => vault.mapped[c] = root
      BY <1>2, <1>b DEF EvidenceIInv, RootsTrue
    <2> QED BY <1>2, <1>4, <1>b, <2>1
  <1>6. vault' = [vault EXCEPT !.pins = vault.pins, !.mapped = m, !.objects = vault.objects]
    BY <1>2, <1>3 DEF EvidenceDb
  <1>7. todo \subseteq migration.todo
    OBVIOUS
  <1>c. Adds(vault.pins, m, vault.objects, "evidence", todo, 0, Evidence!None)
    BY <1>1, <1>2, <1>3, <1>4, <1>5, <1>6, <1>7 DEF Adds
  <1> HIDE DEF m, todo
  <1>8. /\ EvidenceTypes' /\ CitedOK' /\ RootsTrue' /\ NeededOK' /\ ActiveOK'
        /\ vault'.mapped = m /\ vault'.pins = vault.pins /\ vault'.active = vault.active
        /\ vault'.admissions = vault.admissions /\ Evidence!Latest' = Evidence!Latest /\ migration'.pc = "evidence"
        /\ migration'.todo = todo /\ \A p \in admitted : ProvenIn(p) => ProvenIn(p)'
    BY <1>c, ImportStep
  <1>9. ASSUME vault.active = 0, NEW p \in admitted PROVE p.commit \in migration'.todo \/ ProvenIn(p)'
    <2>1. p.commit \in migration.todo \/ ProvenIn(p)
      BY <1>1, <1>9 DEF EvidenceIInv, EvidenceJobOK, Reading
    <2>2. CASE p.commit = c
      <3>1. p.says = archive[c]
        BY <1>1, <1>9, <1>a, <2>2 DEF EvidenceIInv, EvidenceJobOK, Reading, Evidence!At
      <3>2. Pinned(c)'
        BY <1>1, <1>8, <1>a DEF EvidenceIInv, EvidenceJobOK, Evidence!At, Pinned
      <3> QED BY <1>1, <1>5, <1>8, <1>b, <2>2, <3>1, <3>2 DEF ProvenIn
    <2>3. CASE p.commit # c
      BY <1>8, <2>1, <2>3 DEF todo
    <2> QED BY <2>2, <2>3
  <1>10. EvidenceJobOK'
    BY <1>1, <1>2, <1>8, <1>9 DEF EvidenceIInv, EvidenceJobOK, Evidence!At, Reading
  <1> QED BY <1>8, <1>10 DEF EvidenceIInv

LEMMA PinStoredKeeps ==
  ASSUME Evidence!EvidenceAssumption, EvidenceIInv, Evidence!PinStored
  PROVE  EvidenceIInv'
  <1>a. PICK c : c = migration.at
    OBVIOUS
  <1>b. PICK root : root = Evidence!Pair(archive[c])
    OBVIOUS
  <1>c. PICK origin : origin = Evidence!RootOf(vault, c)
    OBVIOUS
  <1> DEFINE todo == migration.todo \ {c}
             o == vault.objects \cup {root}
  <1>1. UNCHANGED <<archive, admitted, halted>> /\ migration.pc = "pin" /\ vault.active # 0
    BY DEF Evidence!PinStored, Evidence!At, EvidenceIInv, EvidenceJobOK, Reading
  <1>2. /\ c \in 1..Evidence!Latest /\ c \in Evidence!Commit /\ 0 \in 0..OfEvidence.MaxCommits /\ migration.says[1] = archive[c]
        /\ root \in Evidence!Roots /\ halted /\ vault \in EvidenceDb /\ migration \in EvidenceJob
    BY <1>1, <1>a, <1>b, JobHolds DEF Reading
  <1>3. /\ vault' = [Evidence!Pin(<<"cutover", c>>, origin, root) EXCEPT !.objects = @ \cup {root}]
        /\ migration' = [migration EXCEPT !.pc = "evidence", !.todo = todo, !.at = 0, !.says = Evidence!None]
    BY <1>2, <1>a, <1>b, <1>c DEF Evidence!PinStored
  <1>4. origin \in Evidence!Roots
    BY <1>2, <1>c, SaidIs, RootsAre, GitIs
  <1>5. PICK pins : /\ Evidence!Pin(<<"cutover", c>>, origin, root) = [vault EXCEPT !.pins = pins]
                    /\ vault.pins \subseteq pins /\ pins \subseteq Pinning
                    /\ \A p \in pins \ vault.pins : p.id[2] = c /\ p.root = root
    <2>1. \E pins : WithPin(pins, "cutover", c, origin)
      BY <1>2, <1>4, PinIs
    <2> QED BY <1>b, <2>1 DEF WithPin
  <1>6. vault.mapped \in [Evidence!Commit -> Evidence!Roots] /\ o \subseteq Evidence!Roots /\ vault.objects \subseteq o
    BY <1>2 DEF EvidenceDb
  <1>7. vault' = [vault EXCEPT !.pins = pins, !.mapped = vault.mapped, !.objects = o]
    BY <1>2, <1>3, <1>5 DEF EvidenceDb
  <1>8. Adds(pins, vault.mapped, o, "evidence", todo, 0, Evidence!None)
    BY <1>1, <1>2, <1>3, <1>5, <1>6, <1>7, <1>b DEF Adds
  <1> HIDE DEF o, todo
  <1>9. /\ EvidenceTypes' /\ CitedOK' /\ RootsTrue' /\ NeededOK' /\ ActiveOK'
        /\ vault'.active = vault.active /\ migration'.pc = "evidence"
    BY <1>8, ImportStep
  <1>10. EvidenceJobOK'
    BY <1>1, <1>2, <1>9 DEF EvidenceJobOK, Evidence!At, Reading
  <1> QED BY <1>9, <1>10 DEF EvidenceIInv

(* The job activates the frontend only with the evidence of every admission. *)
LEMMA ActivateKeeps ==
  ASSUME Evidence!EvidenceAssumption, EvidenceIInv, Evidence!Activate
  PROVE  EvidenceIInv'
  <1>1. /\ UNCHANGED <<archive, admitted>> /\ migration.pc = "evidence" /\ migration.todo = {}
        /\ vault' = [vault EXCEPT !.active = IF @ < 2 THEN @ + 1 ELSE @]
        /\ \/ vault.active < 1 /\ UNCHANGED <<halted, migration>>
           \/ ~(vault.active < 1) /\ halted' = FALSE /\ migration' = [Evidence!NoJob EXCEPT !.jobs = migration.jobs]
    BY DEF Evidence!Activate, Evidence!At
  <1>2. vault \in EvidenceDb /\ migration \in EvidenceJob /\ halted
    BY <1>1 DEF EvidenceIInv, EvidenceTypes, EvidenceJobOK, Evidence!At
  <1>3. /\ vault'.active \in 1..2 /\ vault' \in EvidenceDb /\ vault'.head = vault.head /\ vault'.pins = vault.pins
        /\ vault'.mapped = vault.mapped /\ vault'.revisions = vault.revisions /\ vault'.objects = vault.objects
        /\ vault'.admissions = vault.admissions
    <2> DEFINE n == IF vault.active < 2 THEN vault.active + 1 ELSE vault.active
    <2>1. n \in 1..2 /\ n \in 0..2
      BY <1>2 DEF EvidenceDb
    <2>2. vault' = [vault EXCEPT !.active = n]
      BY <1>1
    <2> HIDE DEF n
    <2> QED BY <1>2, <2>1, <2>2 DEF EvidenceDb
  <1>4. migration' \in EvidenceJob /\ migration'.todo = {} /\ halted' \in BOOLEAN
        /\ \/ migration'.pc = "idle"
           \/ migration' = migration /\ halted'
    <2>1. CASE UNCHANGED <<halted, migration>>
      BY <1>1, <1>2, <2>1 DEF EvidenceJob
    <2>2. CASE halted' = FALSE /\ migration' = [Evidence!NoJob EXCEPT !.jobs = migration.jobs]
      <3>1. migration' = [pc |-> "idle", todo |-> {}, at |-> 0, says |-> Evidence!None, jobs |-> migration.jobs]
        BY <2>2 DEF Evidence!NoJob
      <3>2. migration.jobs \in 0..OfEvidence.MaxJobs /\ 0 \in 0..OfEvidence.MaxCommits
        BY <1>2 DEF EvidenceJob, Evidence!EvidenceAssumption
      <3>3. migration' \in EvidenceJob /\ migration'.pc = "idle" /\ migration'.todo = {}
        BY <3>1, <3>2 DEF EvidenceJob
      <3> QED BY <2>2, <3>3
    <2> QED BY <1>1, <2>1, <2>2
  <1>5. EvidenceTypes' /\ CitedOK' /\ RootsTrue' /\ NeededOK'
    BY <1>1, <1>3, <1>4 DEF EvidenceIInv, EvidenceTypes, CitedOK, RootsTrue, NeededOK, Evidence!Needed, Evidence!Latest
  <1>6. \A p \in admitted : ProvenIn(p)
    <2>1. CASE vault.active = 0
      BY <1>1, <2>1 DEF EvidenceIInv, EvidenceJobOK, Reading
    <2>2. CASE vault.active # 0
      <3>1. vault.active > 0
        BY <1>2, <2>2 DEF EvidenceDb
      <3> QED BY <3>1 DEF EvidenceIInv, ActiveOK
    <2> QED BY <2>1, <2>2
  <1>7. ActiveOK'
    BY <1>1, <1>3, <1>6, ProvenSame DEF ActiveOK
  <1>8. EvidenceJobOK'
    <2>1. vault'.active # 0
      BY <1>3
    <2>2. CASE migration'.pc = "idle"
      BY <2>1, <2>2 DEF EvidenceJobOK, Evidence!At, Reading
    <2>3. CASE migration' = migration /\ halted'
      BY <1>1, <2>1, <2>3 DEF EvidenceJobOK, Evidence!At, Reading
    <2> QED BY <1>4, <2>2, <2>3
  <1> QED BY <1>5, <1>7, <1>8 DEF EvidenceIInv
--------------------------------------------------------------------------------
(* The specification *)

LEMMA EvidenceInvInit ==
  ASSUME Evidence!EvidenceAssumption, Evidence!Init
  PROVE  EvidenceIInv
  <1>1. /\ archive \in [1..1 -> OfEvidence.Content] /\ admitted = {} /\ halted = FALSE /\ migration = Evidence!NoJob
        /\ vault = [active |-> 0, head |-> [commit |-> 1, root |-> Evidence!Full(archive[1])],
                 revisions |-> [c \in Evidence!Commit |-> IF c = 1 THEN Evidence!Full(archive[1]) ELSE Evidence!None],
                 mapped |-> [c \in Evidence!Commit |-> Evidence!None], pins |-> {}, objects |-> {Evidence!Full(archive[1])},
                 admissions |-> {}, published |-> 0]
    BY DEF Evidence!Init
  <1>2. archive \in Seq(OfEvidence.Content) /\ Evidence!Latest = 1
    <2>1. archive \in Seq(OfEvidence.Content)
      BY <1>1, SeqDef
    <2>2. DOMAIN archive = 1..1 /\ DOMAIN archive = 1..Len(archive) /\ Len(archive) \in Nat
      BY <1>1, <2>1, LenProperties
    <2>3. Len(archive) = 1
      BY <2>2, Z3
    <2> QED BY <2>1, <2>3 DEF Evidence!Latest
  <1>3. Evidence!Latest \in Evidence!Commit /\ 1 \in 1..Evidence!Latest /\ 1 \in 0..OfEvidence.MaxCommits /\ 0 \in 0..OfEvidence.MaxCommits
    BY <1>2 DEF Evidence!Commit, Evidence!EvidenceAssumption
  <1>4. Evidence!Full(archive[1]) \in Evidence!Roots /\ Evidence!None \in Evidence!Roots
    BY <1>1, RootsAre
  <1>5. vault \in EvidenceDb
    <2> DEFINE h == [commit |-> 1, root |-> Evidence!Full(archive[1])]
               r == [c \in Evidence!Commit |-> IF c = 1 THEN Evidence!Full(archive[1]) ELSE Evidence!None]
               m == [c \in Evidence!Commit |-> Evidence!None]
    <2>1. h \in [commit : 0..OfEvidence.MaxCommits, root : Evidence!Roots] /\ r \in [Evidence!Commit -> Evidence!Roots]
          /\ m \in [Evidence!Commit -> Evidence!Roots]
      BY <1>3, <1>4
    <2>2. vault = [active |-> 0, head |-> h, revisions |-> r, mapped |-> m, pins |-> {},
                objects |-> {Evidence!Full(archive[1])}, admissions |-> {}, published |-> 0]
      BY <1>1
    <2> HIDE DEF h, r, m
    <2> QED BY <1>4, <2>1, <2>2 DEF EvidenceDb
  <1>6. migration \in EvidenceJob /\ migration.pc = "idle" /\ migration.todo = {}
    BY <1>1, <1>3 DEF EvidenceJob, Evidence!NoJob, Evidence!EvidenceAssumption
  <1>7. EvidenceTypes /\ CitedOK
    BY <1>1, <1>2, <1>3, <1>5, <1>6 DEF EvidenceTypes, CitedOK
  <1>8. RootsTrue /\ NeededOK
    BY <1>1, <1>2, <1>3, RootsAre DEF RootsTrue, NeededOK, Evidence!Needed
  <1>9. EvidenceJobOK /\ ActiveOK
    BY <1>1, <1>6 DEF EvidenceJobOK, ActiveOK, Evidence!At, Reading
  <1> QED BY <1>7, <1>8, <1>9 DEF EvidenceIInv

LEMMA EvidenceInvNext ==
  ASSUME Evidence!EvidenceAssumption, EvidenceIInv, [Evidence!Next]_(Evidence!evidence)
  PROVE  EvidenceIInv'
  <1>1. CASE UNCHANGED Evidence!evidence
    BY <1>1, ProvenSame DEF Evidence!evidence, EvidenceIInv, EvidenceTypes, CitedOK, RootsTrue, NeededOK, Evidence!Needed, EvidenceJobOK,
       ActiveOK, Evidence!At, Evidence!Latest
  <1>2. ASSUME NEW x \in OfEvidence.Content, Evidence!Commits(x) \/ Evidence!Admit(x) \/ Evidence!Publish(x) PROVE EvidenceIInv'
    BY <1>2, CommitsKeeps, EvidenceAdmitKeeps, EvidencePublishKeeps
  <1>3. ASSUME NEW p \in admitted, Evidence!Expire(p) PROVE EvidenceIInv'
    BY <1>3, ExpireKeeps
  <1>4. ASSUME NEW doomed \in SUBSET (vault.objects \ Evidence!Needed), Evidence!Collect(doomed) PROVE EvidenceIInv'
    BY <1>4, CollectKeeps
  <1>5. ASSUME NEW c \in Evidence!Commit, Evidence!ReadEvidence(c) PROVE EvidenceIInv'
    BY <1>5, ReadEvidenceKeeps
  <1>6. CASE Evidence!Sync \/ Evidence!Start \/ Evidence!Ingest \/ Evidence!Activate \/ Evidence!Fail \/ Evidence!Resume
    BY <1>6, SyncKeeps, StartKeeps, IngestKeeps, ActivateKeeps, EvidenceFailKeeps, ResumeKeeps
  <1>7. CASE Evidence!Import \/ Evidence!ImportPin \/ Evidence!ImportMapping \/ Evidence!PinStored
    BY <1>7, ImportKeeps, ImportPinKeeps, ImportMappingKeeps, PinStoredKeeps
  <1> QED BY <1>1, <1>2, <1>3, <1>4, <1>5, <1>6, <1>7 DEF Evidence!Next

LEMMA EvidenceInvAlways ==
  ASSUME Evidence!EvidenceAssumption
  PROVE  Evidence!Spec => []EvidenceIInv
  <1>1. Evidence!Init => EvidenceIInv
    BY EvidenceInvInit
  <1>2. EvidenceIInv /\ [Evidence!Next]_(Evidence!evidence) => EvidenceIInv'
    BY EvidenceInvNext
  <1> QED BY <1>1, <1>2, PTL DEF Evidence!Spec

(* The namespace and the job are always what storage_legacy_evidence works with. *)
THEOREM EvidenceTypeCorrect == Evidence!Spec => []Evidence!TypeOK
  <1>1. ASSUME EvidenceIInv PROVE Evidence!TypeOK
    <2>1. /\ archive \in Seq(OfEvidence.Content) /\ Evidence!Latest \in Evidence!Commit /\ admitted \subseteq Evidence!Proof /\ vault \in EvidenceDb
          /\ halted \in BOOLEAN /\ migration \in EvidenceJob
      BY <1>1 DEF EvidenceIInv, EvidenceTypes
    <2>2. archive \in UNION {[1..n -> OfEvidence.Content] : n \in Evidence!Commit}
      BY <2>1, SeqDef DEF Evidence!Latest
    <2>3. \A p \in vault.pins : p.origin \in Evidence!Roots /\ p.root \in Evidence!Roots
      BY <2>1 DEF EvidenceDb, Pinning
    <2> QED BY <2>1, <2>2, <2>3 DEF Evidence!TypeOK, EvidenceDb, EvidenceJob
  <1>2. Evidence!Spec => []EvidenceIInv BY JobsAssumption, EvidenceInvAlways
  <1> QED BY <1>1, <1>2, PTL

(* From the activation of the frontend on, the database says of every commit that a
   live admission cites what the admission expects, whatever is published, collected,
   cancelled and started again (storage_legacy_evidence, pin_evidence). *)
THEOREM AdmissionsProven == Evidence!Spec => []Evidence!AdmissionsAreProven
  <1>1. ASSUME EvidenceIInv PROVE Evidence!AdmissionsAreProven
    BY <1>1, JobsAssumption, ProvenIsSaid DEF EvidenceIInv, ActiveOK, Evidence!AdmissionsAreProven
  <1>2. Evidence!Spec => []EvidenceIInv BY JobsAssumption, EvidenceInvAlways
  <1> QED BY <1>1, <1>2, PTL

(* read_files never says of a frontend commit what another one says. *)
THEOREM CommitsTrue == Evidence!Spec => []Evidence!CommitsAreTrue
  <1>1. ASSUME EvidenceIInv PROVE Evidence!CommitsAreTrue
    BY <1>1, JobsAssumption, SaidIs, GitIs DEF Evidence!CommitsAreTrue
  <1>2. Evidence!Spec => []EvidenceIInv BY JobsAssumption, EvidenceInvAlways
  <1> QED BY <1>1, <1>2, PTL
================================================================================
