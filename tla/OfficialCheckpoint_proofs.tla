---------------------- MODULE OfficialCheckpoint_proofs ----------------------
(***************************************************************************)
(* The hourly worker for any games, counts and bounds, with the database    *)
(* and without: what the recovery step publishes loses nothing that was     *)
(* saved (without the database), receipts are true and are not repeated,    *)
(* an event is announced only of what was accepted, and no newer count is   *)
(* replaced.                                                               *)
(*                                                                         *)
(* The argument: every batch that can be merged, now or by a recovery,      *)
(* began with files that the branch has since only replaced by newer ones,  *)
(* and the branch has each game's receipt either of its base or of its      *)
(* observations (Replays).  Such a batch merges without mixing fields, and  *)
(* the result is at least as new as both sides (MergedRow, MergedEntry).    *)
(***************************************************************************)
EXTENDS OfficialCheckpoint, TLAPS

(* At time t a document has nothing from the future, and no receipt without its
   event in e. *)
KnownAt(d, t, e) ==
  /\ d \in Doc
  /\ \A g \in Game :
       /\ d.results[g].at <= t
       /\ d.dispatches[g].status = "dispatched" => <<g, d.dispatches[g].signature>> \in e
Known(d) == KnownAt(d, clock, events)

Memory ==
  [cp : Doc, base : Doc, head : Doc, todo : SUBSET Game, game : Game \cup {None},
   signature : Hot \cup {None}, after : {"recheck", "retry", "save"}, ok : Nat, due : BOOLEAN,
   stage : {"intent", "receipt"}, phase : {"batch", "stopping", "final"}]

Types ==
  /\ my \in Memory
  /\ pending = NoFile \/ pending \in Batch
  /\ saved \subseteq Game \X (1..MaxTime)
  /\ pc \in Labels /\ clock \in 0..MaxTime /\ faults \in 0..MaxFault
  /\ events \subseteq Game \X Hot

AllKnown ==
  /\ Known(remote) /\ Known(disk) /\ Known(my.cp) /\ Known(my.base) /\ Known(my.head)
  /\ pending # NoFile =>
       Known(pending.base) /\ Known(pending.observed) /\ Known(pending.acknowledged)

(* No count of d is newer than that of e. *)
Below(d, e) == \A g \in Game : d.results[g].at <= e.results[g].at

(* Observations o, made upon the files b, can be merged into the files r. *)
Fits(r, b, o) ==
  /\ Below(b, o) /\ Below(b, r)
  /\ \A g \in Game : r.dispatches[g] \in {b.dispatches[g], o.dispatches[g]}
Replays(b, o) == Fits(remote, b, o)

(* What the recovery step would replay. *)
ReplayBase ==
  IF pending = NoFile THEN my.head
  ELSE IF pending.eligible THEN pending.base ELSE pending.acknowledged
ReplayObserved == IF pending.eligible THEN pending.observed ELSE disk

Resting == {"idle", "recovered", "stuck"}
Deciding == {"gate", "artifacts", "intent", "adopt", "confirm", "send"}
Signed == Deciding \ {"gate"}
Accepting == {"adopt", "confirm", "send"}

RecoveryOK ==
  pc \notin Resting =>
    /\ Replays(ReplayBase, ReplayObserved)
    /\ ~pending.eligible => remote.dispatches = ReplayBase.dispatches
    /\ pc \in {"replay", "republish"} => pending # NoFile /\ pending.eligible

(* Where the worker stands. *)
PlaceOK ==
  /\ pc \in Deciding => my.game \in Game
  /\ pc \in Signed => my.signature \in Hot
  /\ pc \in {"artifacts", "intent", "adopt", "confirm"} => Primary
  /\ pc \in Deciding \cup {"recheck", "retry"} => my.phase = "batch"
  /\ pc = "recheck" => my.after = "recheck"
  /\ pc = "retry" => my.after = "retry"
  /\ Running /\ pc \notin Deciding \cup {"recheck", "retry"} => my.after = "save"
  /\ Running /\ my.after = "recheck" => \A g \in my.todo : my.cp.results[g].at >= 1

(* What the worker would publish. *)
WorkOK ==
  Running =>
    /\ Replays(my.base, my.cp)
    /\ my.phase = "batch" /\ pc # "acknowledge" => remote.dispatches = my.base.dispatches
    /\ ~pending.eligible => my.base = ReplayBase /\ Below(disk, my.cp)
    /\ pc = "capture" => disk = my.cp
    /\ pc \in {"intent", "refresh", "publish", "acknowledge"} =>
         /\ pending # NoFile /\ pending.eligible
         /\ pending.base = my.base /\ pending.observed = my.cp
    /\ pc = "acknowledge" =>
         Below(disk, remote) /\ Below(my.cp, disk) /\ disk.dispatches = remote.dispatches
    /\ pending.eligible /\ ~Primary =>
         /\ pending # NoFile /\ pending.observed = my.cp
         /\ my.phase = "batch" => pc \in {"refresh", "publish", "acknowledge"}

(* With the database: what is announced was accepted. *)
AcceptedOK ==
  Primary =>
    /\ pc \in Signed => my.cp.dispatches[my.game].signature = my.signature
    /\ pc \in Accepting =>
         /\ my.cp.dispatches = my.base.dispatches
         /\ \A g \in Game :
              \/ remote.results[g] = my.cp.results[g]
              \/ remote.results[g].at > my.cp.results[g].at
    /\ pc = "send" =>
         /\ ~Superseded(my.cp, my.game, my.signature)
         /\ my.cp.dispatches[my.game] # [signature |-> my.signature, status |-> "dispatched"]

(* Without it: a receipt that changed since the files were published is of a
   count that they do not announce. *)
Delivers(d, g, c) == d.dispatches[g] = [signature |-> c, status |-> "dispatched"]
FreshOK ==
  ~Primary /\ Running =>
    /\ \A g \in Game :
         my.cp.dispatches[g] # my.base.dispatches[g] =>
           my.cp.results[g].count \in Hot /\ ~Delivers(my.base, g, my.cp.results[g].count)
    /\ pc = "send" =>
         /\ my.signature = my.cp.results[my.game].count
         /\ ~Delivers(my.base, my.game, my.signature)
    /\ my.after = "save" =>
         \A g \in my.todo :
           /\ my.cp.dispatches[g] = my.base.dispatches[g]
           /\ pc \in Deciding => g # my.game

SavedOK ==
  ~Primary =>
    /\ pc \notin Resting =>
         \A f \in saved :
           f[2] <= remote.results[f[1]].at \/ f[2] <= ReplayObserved.results[f[1]].at
    /\ SavedIsPublished

IInv ==
  /\ Types /\ AllKnown /\ PlaceOK
  /\ RecoveryOK /\ WorkOK /\ AcceptedOK /\ FreshOK /\ SavedOK
--------------------------------------------------------------------------------
(* Merging *)

LEMMA FieldsAre ==
  ASSUME CheckpointAssumption, NEW r \in Row
  PROVE  /\ DOMAIN r = {"at", "count", "dated"} /\ r.at \in 0..MaxTime
         /\ r.at = 0 <=> r = NoRow
         /\ r.at # 0 => r \in [at : 1..MaxTime, count : Count, dated : BOOLEAN]
  BY DEF Row, NoRow, CheckpointAssumption

(* Rows that are not older than their base merge into one that is not older than either. *)
LEMMA MergedRow ==
  ASSUME CheckpointAssumption, NEW l \in Row, NEW b \in Row, NEW o \in Row,
         b.at <= l.at, b.at <= o.at, MergeResult(l, b, o) # Conflict
  PROVE  LET m == MergeResult(l, b, o) IN
         m \in Row /\ l.at <= m.at /\ o.at <= m.at /\ m.at \in {l.at, o.at}
  <1>1. l.at \in Nat /\ b.at \in Nat /\ o.at \in Nat
    BY FieldsAre
  <1>2. CASE Outdated(l, b, o)
    BY <1>1, <1>2 DEF MergeResult, Outdated
  <1>3. CASE ~Outdated(l, b, o) /\ Merge3(l, b, o) # Conflict
    <2>1. MergeResult(l, b, o) = Merge3(l, b, o)
      BY <1>3 DEF MergeResult, MergeFields
    <2> QED BY <1>1, <1>3, <2>1 DEF Merge3
  <1>4. CASE ~Outdated(l, b, o) /\ Merge3(l, b, o) = Conflict
    <2> DEFINE m == [f \in DOMAIN l |-> Merge3(l[f], b[f], o[f])]
    <2>1. o # b /\ l # b /\ l # o
      BY <1>4 DEF Merge3, CheckpointAssumption
    <2>2. MergeResult(l, b, o) = m /\ \A f \in DOMAIN m : m[f] # Conflict
      BY <1>4 DEF MergeResult, MergeFields
    <2>3. DOMAIN l = {"at", "count", "dated"}
      BY FieldsAre
    <2>4. /\ m["at"] = Merge3(l.at, b.at, o.at) /\ m["at"] # Conflict
          /\ m["count"] = Merge3(l.count, b.count, o.count) /\ m["count"] # Conflict
          /\ m["dated"] = Merge3(l.dated, b.dated, o.dated) /\ m["dated"] # Conflict
      BY <2>2, <2>3
    <2> HIDE DEF m
    <2>5. /\ m["at"] \in {l.at, o.at} /\ l.at <= m["at"] /\ o.at <= m["at"]
          /\ m["count"] \in {l.count, o.count} /\ m["dated"] \in {l.dated, o.dated}
      BY <1>1, <2>4 DEF Merge3
    <2>6. l.at # 0 /\ o.at # 0
      BY <1>1, <2>1, FieldsAre
    <2>7. /\ l \in [at : 1..MaxTime, count : Count, dated : BOOLEAN]
          /\ o \in [at : 1..MaxTime, count : Count, dated : BOOLEAN]
      BY <2>6, FieldsAre
    <2>8. m \in [at : 1..MaxTime, count : Count, dated : BOOLEAN]
      <3>1. m = [at |-> m["at"], count |-> m["count"], dated |-> m["dated"]]
        BY <2>3 DEF m
      <3>2. m["at"] \in 1..MaxTime /\ m["count"] \in Count /\ m["dated"] \in BOOLEAN
        BY <2>5, <2>7
      <3> QED BY <3>1, <3>2
    <2> QED BY <2>2, <2>5, <2>8 DEF Row
  <1> QED BY <1>2, <1>3, <1>4

LEMMA MergedEntry ==
  ASSUME CheckpointAssumption, NEW l \in Entry, NEW b \in Entry, NEW o \in Entry,
         l \in {b, o}
  PROVE  MergeFields(l, b, o) = o
  BY DEF MergeFields, Merge3, CheckpointAssumption

(* What is published, or committed: it holds the observations and everything newer. *)
LEMMA Merged ==
  ASSUME CheckpointAssumption, NEW t \in Nat, NEW e, NEW r, NEW b, NEW o,
         KnownAt(r, t, e), KnownAt(b, t, e), KnownAt(o, t, e),
         Fits(r, b, o), Mergeable(r, b, o)
  PROVE  LET m == MergeDoc(r, b, o) IN
         KnownAt(m, t, e) /\ Below(r, m) /\ Below(o, m) /\ m.dispatches = o.dispatches
  <1> DEFINE m == MergeDoc(r, b, o)
  <1>1. r \in Doc /\ b \in Doc /\ o \in Doc
    BY DEF KnownAt
  <1>2. ASSUME NEW g \in Game
        PROVE  /\ m.results[g] \in Row
               /\ r.results[g].at <= m.results[g].at /\ o.results[g].at <= m.results[g].at
               /\ m.results[g].at \in {r.results[g].at, o.results[g].at}
    <2>1. r.results[g] \in Row /\ b.results[g] \in Row /\ o.results[g] \in Row
      BY <1>1 DEF Doc
    <2>2. m.results[g] = MergeResult(r.results[g], b.results[g], o.results[g])
      BY DEF MergeDoc
    <2>3. /\ m.results[g] # Conflict
          /\ b.results[g].at <= r.results[g].at /\ b.results[g].at <= o.results[g].at
      BY DEF Mergeable, Fits, Below
    <2> HIDE DEF m
    <2> QED BY <2>1, <2>2, <2>3, MergedRow
  <1>3. ASSUME NEW g \in Game PROVE m.dispatches[g] = o.dispatches[g]
    <2>1. /\ r.dispatches[g] \in Entry /\ b.dispatches[g] \in Entry /\ o.dispatches[g] \in Entry
          /\ r.dispatches[g] \in {b.dispatches[g], o.dispatches[g]}
      BY <1>1 DEF Doc, Fits
    <2>2. m.dispatches[g] = MergeFields(r.dispatches[g], b.dispatches[g], o.dispatches[g])
      BY DEF MergeDoc
    <2> HIDE DEF m
    <2> QED BY <2>1, <2>2, MergedEntry
  <1>4. /\ m = [results |-> m.results, dispatches |-> m.dispatches]
        /\ m.results = [g \in Game |-> m.results[g]]
        /\ m.dispatches = [g \in Game |-> m.dispatches[g]]
    BY DEF MergeDoc
  <1>5. m.dispatches = o.dispatches
    BY <1>1, <1>3, <1>4 DEF Doc
  <1>6. m \in Doc
    <2>1. m.results \in [Game -> Row] /\ m.dispatches \in [Game -> Entry]
      BY <1>1, <1>2, <1>4, <1>5 DEF Doc
    <2> QED BY <1>4, <2>1 DEF Doc
  <1> HIDE DEF m
  <1>7. KnownAt(m, t, e)
    BY <1>2, <1>5, <1>6 DEF KnownAt
  <1>8. Below(r, m) /\ Below(o, m)
    BY <1>2 DEF Below
  <1> QED BY <1>5, <1>7, <1>8 DEF m
--------------------------------------------------------------------------------
(* What a step of the worker leaves as it was *)

LEMMA KnownStays ==
  ASSUME NEW t \in Nat, NEW u \in Nat, NEW e, NEW f, NEW d,
         t <= u, e \subseteq f, KnownAt(d, t, e), CheckpointAssumption
  PROVE  KnownAt(d, u, f)
  <1> SUFFICES ASSUME NEW g \in Game PROVE d.results[g].at <= u
    BY DEF KnownAt
  <1>1. d.results[g] \in Row /\ d.results[g].at <= t
    BY DEF KnownAt, Doc
  <1> QED BY <1>1, FieldsAre

(* A document of which one game was changed. *)
LEMMA KnownChange ==
  ASSUME NEW t, NEW e, NEW d, NEW n \in Doc, NEW g \in Game, KnownAt(d, t, e),
         \A h \in Game : h # g => n.results[h] = d.results[h] /\ n.dispatches[h] = d.dispatches[h],
         n.results[g].at <= t,
         n.dispatches[g].status = "dispatched" => <<g, n.dispatches[g].signature>> \in e
  PROVE  KnownAt(n, t, e)
  BY DEF KnownAt

LEMMA ThinkingKeeps ==
  ASSUME CheckpointAssumption, IInv, UNCHANGED <<Files, remote>>, my'.head = my.head,
         pc \notin Resting, pc' \notin Resting \cup {"replay", "republish"}
  PROVE  RecoveryOK' /\ SavedOK'
  <1>1. ReplayBase' = ReplayBase /\ ReplayObserved' = ReplayObserved
    BY DEF ReplayBase, ReplayObserved, Files
  <1> QED BY <1>1 DEF IInv, RecoveryOK, SavedOK, SavedIsPublished, Replays, Fits, Below, Files, At, Resting

LEMMA CrashKeeps ==
  ASSUME CheckpointAssumption, IInv, Crash
  PROVE  IInv'
  <1>1. pc' = "dead" /\ UNCHANGED <<Files, remote, my, events, clock>> /\ faults' \in 0..MaxFault
    BY DEF Crash, Goto, IInv, Types, CheckpointAssumption
  <1>2. RecoveryOK' /\ SavedOK'
    BY <1>1, ThinkingKeeps DEF Crash, Running, Resting
  <1>3. Types' /\ AllKnown'
    BY <1>1 DEF IInv, Types, AllKnown, Known, KnownAt, Files, Labels
  <1>4. PlaceOK' /\ WorkOK' /\ AcceptedOK' /\ FreshOK'
    BY <1>1 DEF PlaceOK, WorkOK, AcceptedOK, FreshOK, Running, Deciding, Signed, Accepting
  <1> QED BY <1>2, <1>3, <1>4 DEF IInv

LEMMA RefuseIntentKeeps ==
  ASSUME CheckpointAssumption, IInv, RefuseIntent
  PROVE  IInv'
  <1>1. pc' = "dead" /\ UNCHANGED <<Files, World, my>>
    BY DEF RefuseIntent, Goto
  <1>2. RecoveryOK' /\ SavedOK'
    BY <1>1, ThinkingKeeps DEF RefuseIntent, At, Resting, World
  <1>3. Types' /\ AllKnown'
    BY <1>1 DEF IInv, Types, AllKnown, Known, KnownAt, Files, World, Labels
  <1>4. PlaceOK' /\ WorkOK' /\ AcceptedOK' /\ FreshOK'
    BY <1>1 DEF PlaceOK, WorkOK, AcceptedOK, FreshOK, Running, Deciding, Signed, Accepting
  <1> QED BY <1>2, <1>3, <1>4 DEF IInv

LEMMA RecheckKeeps ==
  ASSUME CheckpointAssumption, IInv, NEW g \in Game, NEW exact \in BOOLEAN, Recheck(g, exact)
  PROVE  IInv'
  <1> DEFINE cp == [my.cp EXCEPT !.results[g].dated = exact]
  <1>1. /\ pc = "recheck" /\ g \in my.todo /\ UNCHANGED <<Files, World>>
        /\ my' = [my EXCEPT !.todo = @ \ {g}, !.due = TRUE, !.after = "recheck", !.game = g,
                             !.cp = cp]
        /\ pc' \in {"gate", "recheck"}
    BY DEF Recheck, At, Goto
  <1>2. /\ my \in Memory /\ my.todo \subseteq Game
        /\ my.phase = "batch" /\ my.after = "recheck" /\ my.cp.results[g].at >= 1
    BY <1>1 DEF IInv, Types, PlaceOK, Running, Memory
  <1>3. /\ cp \in Doc /\ cp.dispatches = my.cp.dispatches
        /\ \A h \in Game : /\ cp.results[h].at = my.cp.results[h].at
                           /\ cp.results[h].count = my.cp.results[h].count
    <2>1. my.cp \in Doc
      BY <1>2 DEF Memory
    <2>2. my.cp.results \in [Game -> Row] /\ my.cp.results[g] \in [at : 1..MaxTime, count : Count, dated : BOOLEAN]
      BY <1>2, <2>1, FieldsAre DEF Doc
    <2>3. [my.cp.results[g] EXCEPT !.dated = exact] \in Row
      BY <2>2 DEF Row
    <2>4. cp = [my.cp EXCEPT !.results = [my.cp.results EXCEPT ![g] = [my.cp.results[g] EXCEPT !.dated = exact]]]
      BY <2>1 DEF Doc
    <2> QED BY <2>1, <2>2, <2>3, <2>4 DEF Doc
  <1> HIDE DEF cp
  <1>4. /\ my' \in Memory /\ my'.cp = cp /\ my'.base = my.base /\ my'.head = my.head
        /\ my'.todo = my.todo \ {g} /\ my'.after = "recheck" /\ my'.game = g /\ my'.phase = "batch"
    BY <1>1, <1>2, <1>3 DEF Memory
  <1>5. RecoveryOK' /\ SavedOK'
    BY <1>1, <1>4, ThinkingKeeps DEF Resting, World
  <1>6. Types' /\ AllKnown'
    BY <1>1, <1>3, <1>4 DEF IInv, Types, AllKnown, Known, KnownAt, Files, World, Labels
  <1>7. PlaceOK'
    BY <1>1, <1>2, <1>3, <1>4 DEF IInv, PlaceOK, Running, Deciding, Signed
  <1>8. WorkOK'
    BY <1>1, <1>3, <1>4 DEF IInv, WorkOK, Running, Replays, Fits, Below, ReplayBase, Files, World
  <1>9. AcceptedOK' /\ FreshOK'
    BY <1>1, <1>2, <1>3, <1>4 DEF IInv, AcceptedOK, FreshOK, Running, Deciding, Signed, Accepting, Delivers
  <1> QED BY <1>5, <1>6, <1>7, <1>8, <1>9 DEF IInv

(* A step that changes the place of the worker and what it means to do. *)
Turns == UNCHANGED <<Files, World>> /\ my'.cp = my.cp /\ my'.base = my.base /\ my'.head = my.head

LEMMA TurningKeeps ==
  ASSUME CheckpointAssumption, IInv, Turns, Running, Running', my' \in Memory, pc' \in Labels
  PROVE  Types' /\ AllKnown' /\ RecoveryOK' /\ SavedOK'
  <1>1. RecoveryOK' /\ SavedOK'
    BY ThinkingKeeps DEF Turns, Running, Resting, World
  <1>2. Types' /\ AllKnown'
    BY DEF IInv, Turns, Types, AllKnown, Known, KnownAt, Files, World
  <1> QED BY <1>1, <1>2

LEMMA StartRetryKeeps ==
  ASSUME CheckpointAssumption, IInv, StartRetry
  PROVE  IInv'
  <1>1. /\ pc = "recheck" /\ pc' = "retry" /\ UNCHANGED <<Files, World>>
        /\ my.phase = "batch" /\ my.after = "recheck"
    BY DEF StartRetry, At, Goto, IInv, PlaceOK, Running
  <1>2. /\ my' \in Memory /\ my'.cp = my.cp /\ my'.base = my.base /\ my'.head = my.head
        /\ my'.after = "retry" /\ my'.phase = my.phase
    BY DEF StartRetry, IInv, Types, Memory
  <1>3. Types' /\ AllKnown' /\ RecoveryOK' /\ SavedOK'
    BY <1>1, <1>2, TurningKeeps DEF Turns, Running, Labels
  <1>4. PlaceOK' /\ AcceptedOK' /\ FreshOK'
    BY <1>1, <1>2 DEF IInv, PlaceOK, AcceptedOK, FreshOK, Running, Deciding, Signed, Accepting, Delivers
  <1>5. WorkOK'
    BY <1>1, <1>2 DEF IInv, WorkOK, Running, Replays, ReplayBase, Files, World
  <1> QED BY <1>3, <1>4, <1>5 DEF IInv

LEMMA RetryDispatchKeeps ==
  ASSUME CheckpointAssumption, IInv, NEW g \in Game, RetryDispatch(g)
  PROVE  IInv'
  <1>1. /\ pc = "retry" /\ pc' = "gate" /\ UNCHANGED <<Files, World>>
        /\ my.phase = "batch" /\ my.after = "retry"
    BY DEF RetryDispatch, At, Goto, IInv, PlaceOK, Running
  <1>2. /\ my' \in Memory /\ my'.cp = my.cp /\ my'.base = my.base /\ my'.head = my.head
        /\ my'.after = my.after /\ my'.phase = my.phase /\ my'.game = g
    BY DEF RetryDispatch, IInv, Types, Memory
  <1>3. Types' /\ AllKnown' /\ RecoveryOK' /\ SavedOK'
    BY <1>1, <1>2, TurningKeeps DEF Turns, Running, Labels
  <1>4. PlaceOK' /\ AcceptedOK' /\ FreshOK'
    BY <1>1, <1>2 DEF IInv, PlaceOK, AcceptedOK, FreshOK, Running, Deciding, Signed, Accepting, Delivers
  <1>5. WorkOK'
    BY <1>1, <1>2 DEF IInv, WorkOK, Running, Replays, ReplayBase, Files, World
  <1> QED BY <1>3, <1>4, <1>5 DEF IInv

LEMMA RequestFailsKeeps ==
  ASSUME CheckpointAssumption, IInv, NEW g \in Game, NEW ends \in BOOLEAN, RequestFails(g, ends)
  PROVE  IInv'
  <1>1. /\ pc = "loop" /\ pc' = "save" /\ UNCHANGED <<Files, World>>
        /\ my.phase = "batch" /\ my.after = "save"
    BY DEF RequestFails, At, Goto, IInv, PlaceOK, Running, Deciding
  <1>2. /\ my' \in Memory /\ my'.cp = my.cp /\ my'.base = my.base /\ my'.head = my.head
        /\ my'.after = my.after /\ my'.phase \in {"batch", "stopping"} /\ my'.todo = my.todo \ {g}
    BY DEF RequestFails, IInv, Types, Memory
  <1>3. Types' /\ AllKnown' /\ RecoveryOK' /\ SavedOK'
    BY <1>1, <1>2, TurningKeeps DEF Turns, Running, Labels
  <1>4. PlaceOK' /\ AcceptedOK' /\ FreshOK'
    BY <1>1, <1>2 DEF IInv, PlaceOK, AcceptedOK, FreshOK, Running, Deciding, Signed, Accepting, Delivers
  <1>5. WorkOK'
    BY <1>1, <1>2 DEF IInv, WorkOK, Running, Replays, ReplayBase, Files, World
  <1> QED BY <1>3, <1>4, <1>5 DEF IInv

LEMMA ConfirmKeeps ==
  ASSUME CheckpointAssumption, IInv, Confirm
  PROVE  IInv'
  <1>1. /\ pc = "confirm" /\ pc' \in {my.after, "send"} /\ UNCHANGED <<Files, World, my>>
        /\ Primary /\ my.phase = "batch" /\ my.after \in {"recheck", "retry", "save"} /\ my \in Memory
    BY DEF Confirm, At, Goto, IInv, Types, PlaceOK, Running, Deciding, Memory
  <1>2. Running /\ Running' /\ pc' \in Labels
    BY <1>1 DEF Running, Labels
  <1>3. Types' /\ AllKnown' /\ RecoveryOK' /\ SavedOK'
    BY <1>1, <1>2, TurningKeeps DEF Turns
  <1>4. PlaceOK' /\ FreshOK'
    BY <1>1 DEF IInv, PlaceOK, FreshOK, Running, Deciding, Signed
  <1>5. AcceptedOK'
    <2>1. CASE pc' = "send"
      <3>1. /\ ~Superseded(my.cp, my.game, my.signature)
            /\ my.cp.dispatches[my.game] # [signature |-> my.signature, status |-> "dispatched"]
        BY <1>1, <2>1 DEF Confirm, Goto
      <3> QED BY <1>1, <2>1, <3>1 DEF IInv, AcceptedOK, Deciding, Signed, Accepting, World
    <2>2. CASE pc' # "send"
      BY <1>1, <2>2 DEF AcceptedOK, Deciding, Signed, Accepting
    <2> QED BY <2>1, <2>2
  <1>6. WorkOK'
    BY <1>1, <1>2 DEF IInv, WorkOK, Replays, ReplayBase, Files, World
  <1> QED BY <1>3, <1>4, <1>5, <1>6 DEF IInv

LEMMA GateKeeps ==
  ASSUME CheckpointAssumption, IInv, Gate
  PROVE  IInv'
  <1> DEFINE g == my.game
             c == my.cp.results[g].count
             cp == [my.cp EXCEPT !.dispatches[g] = [signature |-> c, status |-> "pending"]]
  <1>1. /\ pc = "gate" /\ UNCHANGED <<Files, World>> /\ my.phase = "batch"
        /\ my.after \in {"recheck", "retry", "save"} /\ my \in Memory /\ g \in Game
        /\ my.cp \in Doc /\ my.todo \subseteq Game
    BY DEF Gate, At, IInv, Types, PlaceOK, Running, Deciding, Memory
  <1>2. CASE ~Announceable(my.cp.results[g]) \/ Delivered(my.cp, g)
    <2>1. pc' = my.after /\ UNCHANGED my
      BY <1>2 DEF Gate, Goto
    <2>2. Running /\ Running' /\ pc' \in Labels
      BY <1>1, <2>1 DEF Running, Labels
    <2>3. Types' /\ AllKnown' /\ RecoveryOK' /\ SavedOK'
      BY <1>1, <2>1, <2>2, TurningKeeps DEF Turns
    <2>4. PlaceOK' /\ FreshOK' /\ AcceptedOK'
      BY <1>1, <2>1 DEF IInv, PlaceOK, FreshOK, AcceptedOK, Running, Deciding, Signed, Accepting
    <2>5. WorkOK'
      BY <1>1, <2>1, <2>2 DEF IInv, WorkOK, Replays, ReplayBase, Files, World
    <2> QED BY <2>3, <2>4, <2>5 DEF IInv
  <1>3. CASE ~Primary /\ Announceable(my.cp.results[g]) /\ ~Delivered(my.cp, g)
    <2>1. my' = [my EXCEPT !.signature = c] /\ pc' = "send" /\ c \in Hot
      BY <1>3 DEF Gate, Goto, Announceable
    <2>2. /\ my' \in Memory /\ my'.cp = my.cp /\ my'.base = my.base /\ my'.head = my.head
          /\ my'.after = my.after /\ my'.phase = my.phase /\ my'.game = g /\ my'.signature = c
          /\ my'.todo = my.todo
      BY <1>1, <2>1 DEF Memory
    <2>3. Types' /\ AllKnown' /\ RecoveryOK' /\ SavedOK'
      BY <1>1, <2>1, <2>2, TurningKeeps DEF Turns, Running, Labels
    <2>4. ~Delivers(my.base, g, c)
      BY <1>1, <1>3 DEF IInv, FreshOK, Running, Delivers, Delivered
    <2>5. PlaceOK' /\ FreshOK' /\ AcceptedOK'
      BY <1>1, <1>3, <2>1, <2>2, <2>4
      DEF IInv, PlaceOK, FreshOK, AcceptedOK, Running, Deciding, Signed, Accepting, Delivers
    <2>6. WorkOK'
      BY <1>1, <2>1, <2>2 DEF IInv, WorkOK, Running, Replays, ReplayBase, Files, World
    <2> QED BY <2>3, <2>5, <2>6 DEF IInv
  <1>4. CASE Primary /\ Announceable(my.cp.results[g]) /\ ~Delivered(my.cp, g)
    <2>1. /\ my' = [my EXCEPT !.signature = c, !.stage = "intent", !.cp = cp]
          /\ pc' = "artifacts" /\ c \in Hot
      BY <1>1, <1>4 DEF Gate, Goto, Announceable, Memory
    <2>2. /\ cp \in Doc /\ cp.results = my.cp.results
          /\ \A h \in Game : h # g => cp.dispatches[h] = my.cp.dispatches[h]
          /\ cp.dispatches[g] = [signature |-> c, status |-> "pending"]
      <3>1. [signature |-> c, status |-> "pending"] \in Entry
        BY <2>1 DEF Entry
      <3> HIDE DEF c
      <3>2. cp = [my.cp EXCEPT !.dispatches = [my.cp.dispatches EXCEPT ![g] = [signature |-> c, status |-> "pending"]]]
        BY <1>1 DEF Doc
      <3> QED BY <1>1, <3>1, <3>2 DEF Doc
    <2> HIDE DEF cp
    <2>3. /\ my' \in Memory /\ my'.cp = cp /\ my'.base = my.base /\ my'.head = my.head
          /\ my'.after = my.after /\ my'.phase = my.phase /\ my'.game = g /\ my'.signature = c
          /\ my'.todo = my.todo
      BY <1>1, <2>1, <2>2 DEF Memory
    <2>4. RecoveryOK' /\ SavedOK'
      BY <1>1, <2>1, <2>3, ThinkingKeeps DEF Resting, World
    <2>5. Types' /\ AllKnown'
      <3>1. Known(cp)
        <4>1. KnownAt(my.cp, clock, events)
          BY DEF IInv, AllKnown, Known
        <4>2. cp.results[g].at <= clock
          BY <1>1, <2>2, <4>1 DEF KnownAt
        <4>3. cp.dispatches[g].status # "dispatched"
          BY <2>2
        <4> QED BY <1>1, <2>2, <4>1, <4>2, <4>3, KnownChange DEF Known
      <3>2. Types'
        BY <1>1, <2>1, <2>3 DEF IInv, Types, Files, World, Labels
      <3>3. AllKnown'
        BY <1>1, <2>3, <3>1 DEF IInv, AllKnown, Known, Files, World
      <3> QED BY <3>2, <3>3
    <2>6. PlaceOK' /\ FreshOK' /\ AcceptedOK'
      BY <1>1, <1>4, <2>1, <2>2, <2>3
      DEF IInv, PlaceOK, FreshOK, AcceptedOK, Running, Deciding, Signed, Accepting
    <2>7. WorkOK'
      BY <1>1, <1>4, <2>1, <2>2, <2>3 DEF IInv, WorkOK, Running, Replays, Fits, Below, ReplayBase, Files, World
    <2> QED BY <2>4, <2>5, <2>6, <2>7 DEF IInv
  <1> QED BY <1>2, <1>3, <1>4 DEF CheckpointAssumption

LEMMA PostKeeps ==
  ASSUME CheckpointAssumption, IInv, NEW accepted \in BOOLEAN, NEW answered \in BOOLEAN,
         Post(accepted, answered)
  PROVE  IInv'
  <1> DEFINE g == my.game
             c == my.signature
             status == StatusOf(accepted, answered)
             cp == [my.cp EXCEPT !.dispatches[g] = [signature |-> c, status |-> status]]
  <1>1. /\ pc = "send" /\ UNCHANGED <<remote, clock, Files>>
        /\ events' = IF accepted THEN events \cup {<<g, c>>} ELSE events
        /\ my' = [my EXCEPT !.stage = "receipt", !.cp = cp]
        /\ pc' = IF Primary THEN "artifacts" ELSE my.after
        /\ faults' \in {faults, faults + 1} /\ (faults' = faults + 1 => faults < MaxFault)
    BY DEF Post, At, Goto, IInv, Types, Memory
  <1>2. /\ my.phase = "batch" /\ my.after \in {"recheck", "retry", "save"} /\ my \in Memory
        /\ g \in Game /\ c \in Hot /\ my.cp \in Doc /\ my.todo \subseteq Game
        /\ faults' \in 0..MaxFault
    BY <1>1 DEF IInv, Types, PlaceOK, Running, Deciding, Signed, Memory, CheckpointAssumption
  <1>3. status \in {"failed", "dispatched"} /\ (status = "dispatched" => <<g, c>> \in events')
    BY <1>1 DEF StatusOf
  <1>4. /\ cp \in Doc /\ cp.results = my.cp.results
        /\ \A h \in Game : h # g => cp.dispatches[h] = my.cp.dispatches[h]
        /\ cp.dispatches[g] = [signature |-> c, status |-> status]
    <2> HIDE DEF status, c
    <2>1. [signature |-> c, status |-> status] \in Entry
      BY <1>2, <1>3 DEF Entry
    <2>2. cp = [my.cp EXCEPT !.dispatches = [my.cp.dispatches EXCEPT ![g] = [signature |-> c, status |-> status]]]
      BY <1>2 DEF Doc
    <2> QED BY <1>2, <2>1, <2>2 DEF Doc
  <1> HIDE DEF cp, status
  <1>5. /\ my' \in Memory /\ my'.cp = cp /\ my'.base = my.base /\ my'.head = my.head
        /\ my'.after = my.after /\ my'.phase = my.phase /\ my'.game = g /\ my'.signature = c
        /\ my'.todo = my.todo
    BY <1>1, <1>2, <1>4 DEF Memory
  <1>6. pc' \in {"artifacts", "recheck", "retry", "save"} /\ pc' \in Labels /\ Running /\ Running'
    BY <1>1, <1>2 DEF Labels, Running
  <1>7. RecoveryOK' /\ SavedOK'
    BY <1>1, <1>5, <1>6, ThinkingKeeps DEF Resting
  <1>8. Types' /\ AllKnown'
    <2>1. events \subseteq events' /\ clock' = clock /\ events' \subseteq Game \X Hot
      BY <1>1, <1>2 DEF IInv, Types
    <2>2. \A d : Known(d) => KnownAt(d, clock', events')
      BY <2>1 DEF Known, KnownAt
    <2>3. KnownAt(cp, clock', events')
      <3>1. KnownAt(my.cp, clock', events')
        BY <2>2 DEF IInv, AllKnown
      <3>2. cp.results[g].at <= clock'
        BY <1>2, <1>4, <3>1 DEF KnownAt
      <3>3. cp.dispatches[g].status = status /\ cp.dispatches[g].signature = c
        BY <1>4
      <3> QED BY <1>2, <1>3, <1>4, <3>1, <3>2, <3>3, KnownChange
    <2>4. Types'
      BY <1>1, <1>2, <1>5, <1>6, <2>1 DEF IInv, Types, Files
    <2>5. AllKnown'
      <3>1. /\ KnownAt(remote, clock', events') /\ KnownAt(disk, clock', events')
            /\ KnownAt(my.base, clock', events') /\ KnownAt(my.head, clock', events')
            /\ pending # NoFile =>
                 /\ KnownAt(pending.base, clock', events') /\ KnownAt(pending.observed, clock', events')
                 /\ KnownAt(pending.acknowledged, clock', events')
        BY <2>2 DEF IInv, AllKnown
      <3> QED BY <1>1, <1>5, <2>3, <3>1 DEF AllKnown, Known, Files
    <2> QED BY <2>4, <2>5
  <1>9. PlaceOK' /\ AcceptedOK'
    BY <1>1, <1>2, <1>4, <1>5 DEF IInv, PlaceOK, AcceptedOK, Running, Deciding, Signed, Accepting
  <1>10. FreshOK'
    <2>1. /\ ~Primary => c = my.cp.results[g].count /\ ~Delivers(my.base, g, c)
          /\ ~Primary /\ my.after = "save" => g \notin my.todo
      BY <1>1, <1>6 DEF IInv, FreshOK, Deciding
    <2> QED BY <1>1, <1>2, <1>4, <1>5, <1>6, <2>1 DEF IInv, FreshOK, Deciding, Delivers
  <1>11. WorkOK'
    BY <1>1, <1>2, <1>4, <1>5, <1>6 DEF IInv, WorkOK, Replays, Fits, Below, ReplayBase, Files
  <1> QED BY <1>7, <1>8, <1>9, <1>10, <1>11 DEF IInv

LEMMA ObserveKeeps ==
  ASSUME CheckpointAssumption, IInv, NEW g \in Game, NEW c \in Count, NEW exact \in BOOLEAN,
         Observe(g, c, exact)
  PROVE  IInv'
  <1> DEFINE row == [at |-> clock + 1, count |-> c, dated |-> exact]
             cp == [my.cp EXCEPT !.results[g] = row]
  <1>1. /\ pc = "loop" /\ g \in my.todo /\ my.phase = "batch" /\ clock < MaxTime /\ clock' = clock + 1
        /\ UNCHANGED <<Files, remote, events, faults>>
        /\ my' = [my EXCEPT !.todo = @ \ {g}, !.game = g, !.ok = @ + 1, !.due = Due(my.ok + 1),
                             !.cp = cp]
        /\ pc' \in {"gate", "save"}
    BY DEF Observe, At, Goto
  <1>2. /\ my \in Memory /\ my.cp \in Doc /\ my.todo \subseteq Game /\ clock \in Nat
        /\ clock' \in 1..MaxTime /\ my.after = "save" /\ Due(my.ok + 1) \in BOOLEAN
        /\ my.ok + 1 \in Nat
    BY <1>1 DEF IInv, Types, PlaceOK, Running, Deciding, Memory, CheckpointAssumption, Due
  <1>3. /\ cp \in Doc /\ cp.dispatches = my.cp.dispatches /\ cp.results[g] = row
        /\ \A h \in Game : h # g => cp.results[h] = my.cp.results[h]
    <2>1. row \in Row
      BY <1>1, <1>2 DEF Row
    <2> HIDE DEF row
    <2>2. cp = [my.cp EXCEPT !.results = [my.cp.results EXCEPT ![g] = row]]
      BY <1>2 DEF Doc
    <2> QED BY <1>2, <2>1, <2>2 DEF Doc
  <1> HIDE DEF cp
  <1>4. /\ my' \in Memory /\ my'.cp = cp /\ my'.base = my.base /\ my'.head = my.head
        /\ my'.after = my.after /\ my'.phase = my.phase /\ my'.game = g
        /\ my'.todo = my.todo \ {g}
    BY <1>1, <1>2, <1>3 DEF Memory
  <1>5. RecoveryOK' /\ SavedOK'
    BY <1>1, <1>4, ThinkingKeeps DEF Resting
  <1>6. \A d : Known(d) => KnownAt(d, clock', events')
    BY <1>1, <1>2, KnownStays DEF Known
  <1>7. KnownAt(cp, clock', events')
    <2>1. KnownAt(my.cp, clock', events')
      BY <1>6 DEF IInv, AllKnown
    <2>2. cp.results[g].at <= clock'
      BY <1>1, <1>2, <1>3
    <2>3. cp.dispatches[g].status = "dispatched" => <<g, cp.dispatches[g].signature>> \in events'
      BY <1>3, <2>1 DEF KnownAt
    <2> QED BY <1>3, <2>1, <2>2, <2>3, KnownChange
  <1>8. Types' /\ AllKnown'
    <2>1. Types'
      BY <1>1, <1>2, <1>4 DEF IInv, Types, Files, Labels
    <2>2. AllKnown'
      <3>1. /\ KnownAt(remote, clock', events') /\ KnownAt(disk, clock', events')
            /\ KnownAt(my.base, clock', events') /\ KnownAt(my.head, clock', events')
            /\ pending # NoFile =>
                 /\ KnownAt(pending.base, clock', events') /\ KnownAt(pending.observed, clock', events')
                 /\ KnownAt(pending.acknowledged, clock', events')
        BY <1>6 DEF IInv, AllKnown
      <3> QED BY <1>1, <1>4, <1>7, <3>1 DEF AllKnown, Known, Files
    <2> QED BY <2>1, <2>2
  <1>9. PlaceOK' /\ AcceptedOK'
    BY <1>1, <1>2, <1>3, <1>4 DEF IInv, PlaceOK, AcceptedOK, Running, Deciding, Signed, Accepting
  <1>10. FreshOK'
    BY <1>1, <1>2, <1>3, <1>4 DEF IInv, FreshOK, Running, Deciding, Delivers
  <1>11. Below(my.cp, cp)
    <2>1. \A h \in Game : my.cp.results[h] \in Row /\ my.cp.results[h].at <= clock
      BY <1>2 DEF IInv, AllKnown, Known, KnownAt, Doc
    <2> QED BY <1>2, <1>3, <2>1, FieldsAre DEF Below
  <1>12. \A d \in Doc : Below(d, my.cp) => Below(d, cp)
    <2> SUFFICES ASSUME NEW d \in Doc, Below(d, my.cp), NEW h \in Game
                 PROVE  d.results[h].at <= cp.results[h].at
      BY DEF Below
    <2>1. d.results[h] \in Row /\ my.cp.results[h] \in Row /\ cp.results[h] \in Row
      BY <1>2, <1>3 DEF Doc
    <2>2. d.results[h].at <= my.cp.results[h].at /\ my.cp.results[h].at <= cp.results[h].at
      BY <1>11 DEF Below
    <2> QED BY <2>1, <2>2, FieldsAre
  <1>13. WorkOK'
    <2>1. my.base \in Doc /\ disk \in Doc /\ Running /\ Running'
      BY <1>1, <1>2 DEF IInv, AllKnown, Known, KnownAt, Running
    <2>2. Fits(remote, my.base, cp)
      BY <1>3, <1>12, <2>1 DEF IInv, WorkOK, Replays, Fits
    <2>3. ~pending.eligible => Below(disk, cp)
      BY <1>12, <2>1 DEF IInv, WorkOK
    <2> QED BY <1>1, <1>4, <2>1, <2>2, <2>3 DEF IInv, WorkOK, Replays, ReplayBase, Files
  <1> QED BY <1>5, <1>8, <1>9, <1>10, <1>13 DEF IInv
--------------------------------------------------------------------------------
(* Writing the checkpoint file *)

LEMMA FactsAre ==
  ASSUME CheckpointAssumption, NEW d \in Doc
  PROVE  /\ Facts(d) \subseteq Game \X (1..MaxTime)
         /\ \A f \in Facts(d) : f[1] \in Game /\ f[2] = d.results[f[1]].at
  <1> SUFFICES ASSUME NEW g \in Game, d.results[g] # NoRow
               PROVE  d.results[g].at \in 1..MaxTime
    BY DEF Facts
  <1>1. d.results[g] \in Row
    BY DEF Doc
  <1> QED BY <1>1, FieldsAre

Writes == Write(my.cp) /\ my'.cp = my.cp /\ my'.base = my.base /\ my'.head = my.head /\ UNCHANGED World

LEMMA WritingKeeps ==
  ASSUME CheckpointAssumption, IInv, Writes, UNCHANGED pending, Running, Running',
         my' \in Memory, pc' \in Labels
  PROVE  Types' /\ AllKnown' /\ RecoveryOK' /\ SavedOK'
  <1>1. /\ my.cp \in Doc /\ disk' = my.cp /\ saved' = saved \cup Facts(my.cp)
        /\ disk \in Doc /\ remote \in Doc
    BY DEF IInv, AllKnown, Known, KnownAt, Writes, Write
  <1>2. Types'
    BY <1>1, FactsAre DEF IInv, Types, Writes, World
  <1>3. AllKnown'
    BY <1>1 DEF IInv, AllKnown, Known, Writes, World
  <1>4. ReplayBase' = ReplayBase /\ (~pending.eligible => ReplayBase = my.base /\ ReplayObserved' = my.cp)
    BY <1>1 DEF IInv, WorkOK, ReplayBase, ReplayObserved, Writes
  <1>5. pending.eligible => ReplayObserved' = ReplayObserved
    BY DEF ReplayObserved
  <1>6. RecoveryOK'
    BY <1>1, <1>4, <1>5 DEF IInv, RecoveryOK, WorkOK, Replays, Fits, Running, Resting, Writes, World
  <1>7. SavedOK'
    <2> SUFFICES ASSUME ~Primary, NEW f \in saved'
                 PROVE  f[2] <= remote.results[f[1]].at \/ f[2] <= ReplayObserved'.results[f[1]].at
      BY DEF SavedOK, SavedIsPublished, At, Running, Resting, Writes, World
    <2>1. f[1] \in Game /\ f[2] \in 1..MaxTime
      BY <1>2 DEF Types
    <2>2. /\ my.cp.results[f[1]] \in Row /\ disk.results[f[1]] \in Row /\ remote.results[f[1]] \in Row
          /\ ReplayObserved' = my.cp
      BY <1>1, <1>4, <2>1 DEF Doc, IInv, WorkOK, ReplayObserved
    <2>3. CASE f \in Facts(my.cp)
      BY <1>1, <2>1, <2>2, <2>3, FactsAre
    <2>4. CASE f \in saved
      <3>1. f[2] <= remote.results[f[1]].at \/ f[2] <= ReplayObserved.results[f[1]].at
        BY <2>4 DEF IInv, SavedOK, Running, Resting
      <3>2. pending.eligible => ReplayObserved = my.cp
        BY DEF IInv, WorkOK, ReplayObserved
      <3>3. ~pending.eligible => ReplayObserved = disk /\ disk.results[f[1]].at <= my.cp.results[f[1]].at
        BY <2>1 DEF IInv, WorkOK, ReplayObserved, Below
      <3> QED BY <2>1, <2>2, <3>1, <3>2, <3>3, FieldsAre
    <2> QED BY <1>1, <2>3, <2>4
  <1> QED BY <1>2, <1>3, <1>6, <1>7

LEMMA BelowItself ==
  ASSUME CheckpointAssumption, NEW d \in Doc
  PROVE  Below(d, d)
  <1>1. \A g \in Game : d.results[g] \in Row
    BY DEF Doc
  <1> QED BY <1>1, FieldsAre DEF Below

LEMMA StartQueueKeeps ==
  ASSUME CheckpointAssumption, IInv, StartQueue
  PROVE  IInv'
  <1>1. /\ pc = "retry" /\ pc' = "loop" /\ UNCHANGED <<pending, World>>
        /\ my.phase = "batch" /\ my.after = "retry" /\ my \in Memory /\ my.cp \in Doc
        /\ my' = [my EXCEPT !.todo = {g \in Game : my.cp.results[g] = NoRow}, !.after = "save",
                            !.due = FALSE]
    BY DEF StartQueue, At, Goto, IInv, Types, PlaceOK, Running, Memory
  <1>2. /\ my' \in Memory /\ my'.cp = my.cp /\ my'.base = my.base /\ my'.head = my.head
        /\ my'.after = "save" /\ my'.phase = my.phase
        /\ my'.todo = {g \in Game : my.cp.results[g] = NoRow}
    BY <1>1 DEF Memory
  <1>3. Running /\ Running' /\ pc' \in Labels
    BY <1>1 DEF Running, Labels
  <1>4. Types' /\ AllKnown' /\ RecoveryOK' /\ SavedOK'
    <2>1. CASE my.due
      BY <1>1, <1>2, <1>3, <2>1, WritingKeeps DEF StartQueue, Writes
    <2>2. CASE ~my.due
      BY <1>1, <1>2, <1>3, <2>2, TurningKeeps DEF StartQueue, Turns, Files
    <2> QED BY <2>1, <2>2
  <1>5. PlaceOK' /\ AcceptedOK'
    BY <1>1, <1>2 DEF IInv, PlaceOK, AcceptedOK, Running, Deciding, Signed, Accepting
  <1>6. FreshOK'
    <2>1. \A g \in Game : my.cp.results[g] = NoRow => my.cp.results[g].count \notin Hot
      BY DEF NoRow, CheckpointAssumption
    <2> QED BY <1>1, <1>2, <1>3, <2>1 DEF IInv, FreshOK, Running, Deciding, Delivers
  <1>7. WorkOK'
    <2>1. disk' \in {disk, my.cp}
      BY DEF StartQueue, Write
    <2> QED BY <1>1, <1>2, <1>3, <2>1, BelowItself DEF IInv, WorkOK, Replays, ReplayBase, World
  <1> QED BY <1>4, <1>5, <1>6, <1>7 DEF IInv

LEMMA SaveItemKeeps ==
  ASSUME CheckpointAssumption, IInv, SaveItem
  PROVE  IInv'
  <1>1. /\ pc = "save" /\ pc' \in {"capture", "loop"} /\ UNCHANGED <<pending, my, World>>
        /\ Write(my.cp) /\ disk' = my.cp /\ my \in Memory /\ my.cp \in Doc
    BY DEF SaveItem, At, Goto, Write, IInv, Types, Memory
  <1>2. Running /\ Running' /\ pc' \in Labels
    BY <1>1 DEF Running, Labels
  <1>3. Types' /\ AllKnown' /\ RecoveryOK' /\ SavedOK'
    BY <1>1, <1>2, WritingKeeps DEF Writes
  <1>4. PlaceOK' /\ AcceptedOK' /\ FreshOK'
    BY <1>1, <1>2 DEF IInv, PlaceOK, AcceptedOK, FreshOK, Running, Deciding, Signed, Accepting
  <1>5. WorkOK'
    BY <1>1, <1>2, BelowItself DEF IInv, WorkOK, Replays, ReplayBase, World
  <1> QED BY <1>3, <1>4, <1>5 DEF IInv

LEMMA FinishKeeps ==
  ASSUME CheckpointAssumption, IInv, Finish
  PROVE  IInv'
  <1>1. /\ pc = "loop" /\ pc' = "capture" /\ UNCHANGED <<pending, World>>
        /\ Write(my.cp) /\ disk' = my.cp /\ my \in Memory /\ my.cp \in Doc
        /\ my' = [my EXCEPT !.phase = "final"]
    BY DEF Finish, At, Goto, Write, IInv, Types, Memory
  <1>2. /\ my' \in Memory /\ my'.cp = my.cp /\ my'.base = my.base /\ my'.head = my.head
        /\ my'.after = my.after /\ my'.phase = "final" /\ my'.todo = my.todo
    BY <1>1 DEF Memory
  <1>3. Running /\ Running' /\ pc' \in Labels
    BY <1>1 DEF Running, Labels
  <1>4. Types' /\ AllKnown' /\ RecoveryOK' /\ SavedOK'
    BY <1>1, <1>2, <1>3, WritingKeeps DEF Writes
  <1>5. PlaceOK' /\ AcceptedOK' /\ FreshOK'
    BY <1>1, <1>2, <1>3 DEF IInv, PlaceOK, AcceptedOK, FreshOK, Running, Deciding, Signed, Accepting, Delivers
  <1>6. WorkOK'
    BY <1>1, <1>2, <1>3, BelowItself DEF IInv, WorkOK, Replays, ReplayBase, World
  <1> QED BY <1>4, <1>5, <1>6 DEF IInv

LEMMA AdoptKeeps ==
  ASSUME CheckpointAssumption, IInv, Adopt
  PROVE  IInv'
  <1>1. /\ pc = "adopt" /\ pc' \in {"confirm", my.after} /\ UNCHANGED <<pending, my, World>>
        /\ Write(my.cp) /\ disk' = my.cp /\ my \in Memory /\ my.cp \in Doc
        /\ my.after \in {"recheck", "retry", "save"} /\ Primary /\ my.phase = "batch"
    BY DEF Adopt, At, Goto, Write, IInv, Types, PlaceOK, Deciding, Memory
  <1>2. Running /\ Running' /\ pc' \in Labels
    BY <1>1 DEF Running, Labels
  <1>3. Types' /\ AllKnown' /\ RecoveryOK' /\ SavedOK'
    BY <1>1, <1>2, WritingKeeps DEF Writes
  <1>4. PlaceOK' /\ AcceptedOK' /\ FreshOK'
    BY <1>1, <1>2 DEF IInv, PlaceOK, AcceptedOK, FreshOK, Running, Deciding, Signed, Accepting, World
  <1>5. WorkOK'
    BY <1>1, <1>2, BelowItself DEF IInv, WorkOK, Replays, ReplayBase, World
  <1> QED BY <1>3, <1>4, <1>5 DEF IInv

(* The frozen batch is what the worker has, upon what it began with. *)
LEMMA FrozenIs ==
  ASSUME NEW b \in Doc, NEW o \in Doc, CheckpointAssumption
  PROVE  LET f == Frozen(b, o) IN
         /\ f \in Batch /\ f # NoFile /\ f.eligible
         /\ f.base = b /\ f.observed = o /\ f.acknowledged = Empty
  BY DEF Frozen, Batch, NoFile, NoBatch, Empty, Doc, Row, Entry

LEMMA EmptyIsKnown ==
  ASSUME CheckpointAssumption, NEW t \in Nat, NEW e
  PROVE  KnownAt(Empty, t, e)
  BY DEF KnownAt, Empty, Doc, Row, Entry, NoRow, NoEntry, CheckpointAssumption

LEMMA FreezingKeeps ==
  ASSUME CheckpointAssumption, IInv, UNCHANGED <<World, my>>, pending' = Frozen(my.base, my.cp),
         disk' = my.cp, saved' \in {saved, saved \cup Facts(my.cp)}, Running, Running', pc' \in Labels
  PROVE  Types' /\ AllKnown' /\ RecoveryOK' /\ SavedOK'
  <1>1. /\ my.base \in Doc /\ my.cp \in Doc /\ disk \in Doc /\ remote \in Doc
    BY DEF IInv, AllKnown, Known, KnownAt
  <1>2. /\ pending' \in Batch /\ pending' # NoFile /\ pending'.eligible /\ pending'.base = my.base
        /\ pending'.observed = my.cp /\ pending'.acknowledged = Empty
    BY <1>1, FrozenIs
  <1>3. Types'
    BY <1>1, <1>2, FactsAre DEF IInv, Types, World
  <1>4. AllKnown'
    <2>1. Known(Empty)
      BY EmptyIsKnown DEF Known, IInv, Types
    <2> QED BY <1>2, <2>1 DEF IInv, AllKnown, Known, World
  <1>5. ReplayBase' = my.base /\ ReplayObserved' = my.cp
    BY <1>2 DEF ReplayBase, ReplayObserved
  <1>6. RecoveryOK'
    BY <1>2, <1>5 DEF IInv, RecoveryOK, WorkOK, Replays, Fits, World
  <1>7. SavedOK'
    <2> SUFFICES ASSUME ~Primary, NEW f \in saved'
                 PROVE  f[2] <= remote.results[f[1]].at \/ f[2] <= my.cp.results[f[1]].at
      BY <1>5 DEF SavedOK, SavedIsPublished, At, Running, Resting, World
    <2>1. f[1] \in Game /\ f[2] \in 1..MaxTime
      BY <1>3 DEF Types
    <2>2. my.cp.results[f[1]] \in Row /\ disk.results[f[1]] \in Row /\ remote.results[f[1]] \in Row
      BY <1>1, <2>1 DEF Doc
    <2>3. CASE f \in Facts(my.cp)
      BY <1>1, <2>1, <2>2, <2>3, FactsAre
    <2>4. CASE f \in saved
      <3>1. f[2] <= remote.results[f[1]].at \/ f[2] <= ReplayObserved.results[f[1]].at
        BY <2>4 DEF IInv, SavedOK, Running, Resting
      <3>2. pending.eligible => ReplayObserved = my.cp
        BY DEF IInv, WorkOK, ReplayObserved
      <3>3. ~pending.eligible => ReplayObserved = disk /\ disk.results[f[1]].at <= my.cp.results[f[1]].at
        BY <2>1 DEF IInv, WorkOK, ReplayObserved, Below
      <3> QED BY <2>1, <2>2, <3>1, <3>2, <3>3, FieldsAre
    <2> QED BY <2>3, <2>4
  <1> QED BY <1>3, <1>4, <1>6, <1>7

LEMMA ArtifactsKeeps ==
  ASSUME CheckpointAssumption, IInv, Artifacts
  PROVE  IInv'
  <1>1. /\ pc = "artifacts" /\ pc' = "intent" /\ UNCHANGED <<my, World>> /\ Primary
        /\ pending' = Frozen(my.base, my.cp) /\ disk' = my.cp /\ saved' = saved \cup Facts(my.cp)
    BY DEF Artifacts, At, Goto, Write, IInv, PlaceOK
  <1>2. Running /\ Running' /\ pc' \in Labels /\ my.base \in Doc /\ my.cp \in Doc
    BY <1>1 DEF Running, Labels, IInv, AllKnown, Known, KnownAt
  <1>3. Types' /\ AllKnown' /\ RecoveryOK' /\ SavedOK'
    BY <1>1, <1>2, FreezingKeeps
  <1>4. PlaceOK' /\ AcceptedOK' /\ FreshOK'
    BY <1>1, <1>2 DEF IInv, PlaceOK, AcceptedOK, FreshOK, Running, Deciding, Signed, Accepting, World
  <1>5. WorkOK'
    BY <1>1, <1>2, FrozenIs DEF IInv, WorkOK, Replays, World
  <1> QED BY <1>3, <1>4, <1>5 DEF IInv

LEMMA CaptureKeeps ==
  ASSUME CheckpointAssumption, IInv, Capture
  PROVE  IInv'
  <1>1. /\ pc = "capture" /\ pc' = "refresh" /\ UNCHANGED <<my, World, disk, saved>>
        /\ pending' = Frozen(my.base, my.cp) /\ disk = my.cp
    BY DEF Capture, At, Goto, IInv, WorkOK, Running
  <1>2. Running /\ Running' /\ pc' \in Labels /\ my.base \in Doc /\ my.cp \in Doc
    BY <1>1 DEF Running, Labels, IInv, AllKnown, Known, KnownAt
  <1>3. Types' /\ AllKnown' /\ RecoveryOK' /\ SavedOK'
    BY <1>1, <1>2, FreezingKeeps
  <1>4. PlaceOK' /\ AcceptedOK' /\ FreshOK'
    BY <1>1, <1>2 DEF IInv, PlaceOK, AcceptedOK, FreshOK, Running, Deciding, Signed, Accepting, World, Delivers
  <1>5. WorkOK'
    BY <1>1, <1>2, FrozenIs DEF IInv, WorkOK, Replays, World
  <1> QED BY <1>3, <1>4, <1>5 DEF IInv
--------------------------------------------------------------------------------
(* The authoritative files change *)

LEMMA BelowAll ==
  ASSUME CheckpointAssumption, NEW c \in Doc, NEW d \in Doc, NEW e \in Doc,
         Below(c, d), Below(d, e)
  PROVE  Below(c, e)
  <1> SUFFICES ASSUME NEW g \in Game PROVE c.results[g].at <= e.results[g].at
    BY DEF Below
  <1>1. c.results[g] \in Row /\ d.results[g] \in Row /\ e.results[g] \in Row
    BY DEF Doc
  <1>2. c.results[g].at <= d.results[g].at /\ d.results[g].at <= e.results[g].at
    BY DEF Below
  <1> QED BY <1>1, <1>2, FieldsAre

(* A batch still fits files that were replaced by newer ones. *)
LEMMA FitsNewer ==
  ASSUME CheckpointAssumption, NEW b \in Doc, NEW o \in Doc, NEW r \in Doc, NEW n \in Doc,
         Fits(r, b, o), Below(r, n), n.dispatches = o.dispatches \/ n.dispatches = r.dispatches
  PROVE  Fits(n, b, o)
  BY BelowAll DEF Fits

LEMMA DocsAre ==
  ASSUME IInv
  PROVE  /\ remote \in Doc /\ disk \in Doc /\ my.cp \in Doc /\ my.base \in Doc /\ my.head \in Doc
         /\ pending # NoFile =>
              pending.base \in Doc /\ pending.observed \in Doc /\ pending.acknowledged \in Doc
  BY DEF IInv, AllKnown, Known, KnownAt

(* The replay of a batch that fits. *)
LEMMA MergedNow ==
  ASSUME CheckpointAssumption, IInv, NEW b, NEW o, Known(b), Known(o),
         Replays(b, o), Mergeable(remote, b, o)
  PROVE  LET m == MergeDoc(remote, b, o) IN
         /\ m \in Doc /\ Known(m) /\ Below(remote, m) /\ Below(o, m) /\ Below(b, m)
         /\ m.dispatches = o.dispatches /\ Fits(m, b, o)
  <1> DEFINE m == MergeDoc(remote, b, o)
  <1>1. clock \in Nat /\ Known(remote)
    BY DEF IInv, Types, AllKnown, CheckpointAssumption
  <1>2. KnownAt(m, clock, events) /\ Below(remote, m) /\ Below(o, m) /\ m.dispatches = o.dispatches
    BY <1>1, Merged DEF Known, Replays
  <1> HIDE DEF m
  <1>3. m \in Doc /\ b \in Doc /\ o \in Doc /\ remote \in Doc
    BY <1>1, <1>2 DEF Known, KnownAt
  <1>4. Fits(m, b, o) /\ Below(b, m)
    BY <1>2, <1>3, FitsNewer DEF Replays, Fits
  <1> QED BY <1>2, <1>3, <1>4 DEF Known, m

LEMMA BeginKeeps ==
  ASSUME CheckpointAssumption, IInv, Begin
  PROVE  IInv'
  <1> DEFINE todo == {g \in Game : remote.results[g].count \in Hot /\ remote.results[g].dated = FALSE}
  <1>1. /\ disk' = remote /\ saved' = {} /\ pending' = NoFile /\ pc' = "recheck" /\ UNCHANGED World
        /\ my' = [cp |-> remote, base |-> remote, head |-> remote, todo |-> todo,
                  game |-> None, signature |-> None, after |-> "recheck", ok |-> 0,
                  due |-> FALSE, stage |-> "intent", phase |-> "batch"]
        /\ remote \in Doc /\ Known(remote)
    BY DocsAre DEF Begin, Goto, IInv, AllKnown
  <1>2. \A g \in todo : g \in Game /\ remote.results[g].at >= 1
    <2> SUFFICES ASSUME NEW g \in Game, remote.results[g].count \in Hot
                 PROVE  remote.results[g].at >= 1
      OBVIOUS
    <2>1. remote.results[g] \in Row /\ remote.results[g] # NoRow
      BY <1>1 DEF Doc, NoRow, CheckpointAssumption
    <2> QED BY <2>1, FieldsAre
  <1> HIDE DEF todo
  <1>3. /\ my' \in Memory /\ my'.cp = remote /\ my'.base = remote /\ my'.head = remote
        /\ my'.phase = "batch" /\ my'.after = "recheck" /\ my'.todo = todo
    BY <1>1, <1>2 DEF Memory
  <1>4. ~NoFile.eligible
    BY DEF NoFile, NoBatch
  <1>5. ReplayBase' = remote /\ ReplayObserved' = remote /\ Below(remote, remote)
    BY <1>1, <1>3, <1>4, BelowItself DEF ReplayBase, ReplayObserved
  <1>6. Types' /\ AllKnown' /\ PlaceOK'
    BY <1>1, <1>2, <1>3 DEF IInv, Types, AllKnown, Known, PlaceOK, World, Labels, Deciding, Signed, Running
  <1>7. RecoveryOK' /\ WorkOK' /\ SavedOK'
    BY <1>1, <1>3, <1>4, <1>5
       DEF RecoveryOK, WorkOK, SavedOK, SavedIsPublished, At, Replays, Fits, World, Resting
  <1>8. AcceptedOK' /\ FreshOK'
    BY <1>1, <1>3 DEF AcceptedOK, FreshOK, Signed, Deciding, Accepting
  <1> QED BY <1>6, <1>7, <1>8 DEF IInv

LEMMA CommitIntentKeeps ==
  ASSUME CheckpointAssumption, IInv, CommitIntent
  PROVE  IInv'
  <1> DEFINE m == MergeDoc(remote, my.base, my.cp)
  <1>1. /\ pc = "intent" /\ pc' = "adopt" /\ Mergeable(remote, my.base, my.cp) /\ remote' = m
        /\ my' = [my EXCEPT !.cp = m, !.base = m] /\ UNCHANGED <<events, clock, faults, Files>>
    BY DEF CommitIntent, At, Goto
  <1>2. /\ Primary /\ Running /\ Running' /\ my \in Memory
        /\ Known(my.base) /\ Known(my.cp) /\ Replays(my.base, my.cp)
        /\ pending # NoFile /\ pending.eligible /\ pending.base = my.base /\ pending.observed = my.cp
    BY <1>1 DEF IInv, PlaceOK, WorkOK, Running, Types, AllKnown
  <1>3. /\ m \in Doc /\ Known(m) /\ m.dispatches = my.cp.dispatches /\ Fits(m, my.base, my.cp)
        /\ Below(m, m)
    BY <1>1, <1>2, MergedNow, BelowItself
  <1> HIDE DEF m
  <1>4. /\ my' \in Memory /\ my'.cp = m /\ my'.base = m /\ my'.head = my.head
        /\ my'.game = my.game /\ my'.signature = my.signature /\ my'.after = my.after
        /\ my'.phase = my.phase /\ my'.todo = my.todo
    BY <1>2, <1>1, <1>3 DEF Memory
  <1>5. Types' /\ AllKnown'
    BY <1>1, <1>3, <1>4 DEF IInv, Types, AllKnown, Known, Files, Labels
  <1>6. PlaceOK'
    <2>1. \A g \in Game : my.cp.results[g].at >= 1 => m.results[g].at >= 1
      <3> SUFFICES ASSUME NEW g \in Game, my.cp.results[g].at >= 1 PROVE m.results[g].at >= 1
        OBVIOUS
      <3>1. my.cp.results[g] \in Row /\ m.results[g] \in Row /\ my.cp.results[g].at <= m.results[g].at
        BY <1>1, <1>2, <1>3, MergedNow, DocsAre DEF Doc, Below, m
      <3> QED BY <3>1, FieldsAre
    <2>2. my.todo \subseteq Game
      BY <1>2 DEF Memory
    <2> QED BY <1>1, <1>2, <1>4, <2>1, <2>2 DEF IInv, PlaceOK, Deciding, Signed, Running
  <1>7. RecoveryOK' /\ SavedOK'
    BY <1>1, <1>2, <1>3
       DEF RecoveryOK, SavedOK, Replays, ReplayBase, ReplayObserved, Files
  <1>8. WorkOK'
    BY <1>1, <1>2, <1>3, <1>4 DEF WorkOK, Replays, Fits, Files
  <1>9. AcceptedOK' /\ FreshOK'
    BY <1>1, <1>2, <1>3, <1>4 DEF IInv, AcceptedOK, FreshOK, Signed, Deciding, Accepting
  <1> QED BY <1>5, <1>6, <1>7, <1>8, <1>9 DEF IInv

(* A fact of a document that was written. *)
LEMMA WrittenFacts ==
  ASSUME CheckpointAssumption, IInv, NEW d \in Doc, saved' = saved \cup Facts(d)
  PROVE  /\ saved' \subseteq Game \X (1..MaxTime)
         /\ \A f \in saved' :
              /\ f[1] \in Game /\ f[2] \in 1..MaxTime
              /\ f \in saved \/ f[2] <= d.results[f[1]].at
  <1>1. saved' \subseteq Game \X (1..MaxTime)
    BY FactsAre DEF IInv, Types
  <1>2. ASSUME NEW f \in saved', f \notin saved PROVE f[2] <= d.results[f[1]].at
    <2>1. f[1] \in Game /\ f[2] = d.results[f[1]].at /\ f[2] \in 1..MaxTime
      BY <1>1, <1>2, FactsAre
    <2> QED BY <2>1
  <1> QED BY <1>1, <1>2

LEMMA RefreshKeeps ==
  ASSUME CheckpointAssumption, IInv, Refresh
  PROVE  IInv'
  <1>1. /\ disk' = remote /\ saved' = saved \cup Facts(remote) /\ UNCHANGED <<pending, my, World>>
        /\ \/ pc = "refresh" /\ pc' = "publish"
           \/ pc = "replay" /\ pc' = "republish"
        /\ remote \in Doc /\ Known(remote)
    BY DocsAre DEF Refresh, Write, At, Goto, IInv, AllKnown
  <1>2. pending # NoFile /\ pending.eligible
    BY <1>1 DEF IInv, WorkOK, RecoveryOK, Running, Resting
  <1>3. Types' /\ AllKnown'
    BY <1>1, WrittenFacts DEF IInv, Types, AllKnown, Known, World, Labels
  <1>4. PlaceOK' /\ AcceptedOK' /\ FreshOK'
    BY <1>1 DEF IInv, PlaceOK, AcceptedOK, FreshOK, Running, Deciding, Signed, Accepting, Delivers
  <1>5. ReplayBase' = ReplayBase /\ ReplayObserved' = ReplayObserved
    BY <1>1, <1>2 DEF ReplayBase, ReplayObserved
  <1>6. RecoveryOK'
    BY <1>1, <1>2, <1>5 DEF IInv, RecoveryOK, Replays, Fits, World, Resting
  <1>7. SavedOK'
    <2> SUFFICES ASSUME ~Primary, NEW f \in saved'
                 PROVE  \/ f[2] <= remote.results[f[1]].at
                        \/ f[2] <= ReplayObserved.results[f[1]].at
      BY <1>1, <1>5 DEF SavedOK, SavedIsPublished, At, World
    <2>1. pc \notin Resting
      BY <1>1 DEF Resting
    <2> QED BY <1>1, <2>1, WrittenFacts DEF IInv, SavedOK
  <1>8. WorkOK'
    BY <1>1, <1>2 DEF IInv, WorkOK, Running, Replays, World
  <1> QED BY <1>3, <1>4, <1>6, <1>7, <1>8 DEF IInv

LEMMA PublishKeeps ==
  ASSUME CheckpointAssumption, IInv, Publish
  PROVE  IInv'
  <1> DEFINE m == MergeDoc(remote, pending.base, pending.observed)
  <1>1. /\ pc = "publish" /\ pc' = "acknowledge" /\ Mergeable(remote, pending.base, pending.observed)
        /\ remote' = m /\ disk' = m /\ saved' = saved \cup Facts(m)
        /\ UNCHANGED <<pending, my, events, clock, faults>>
    BY DEF Publish, Write, At, Goto
  <1>2. /\ Running /\ Running' /\ pending # NoFile /\ pending.eligible
        /\ pending.base = my.base /\ pending.observed = my.cp /\ Replays(my.base, my.cp)
        /\ Known(my.base) /\ Known(my.cp)
    BY <1>1 DEF IInv, WorkOK, AllKnown, Running
  <1>3. /\ m \in Doc /\ Known(m) /\ Below(remote, m) /\ Below(my.cp, m) /\ Below(m, m)
        /\ Fits(m, my.base, my.cp)
    BY <1>1, <1>2, MergedNow, BelowItself
  <1> HIDE DEF m
  <1>4. Types' /\ AllKnown'
    BY <1>1, <1>3, WrittenFacts DEF IInv, Types, AllKnown, Known, Labels
  <1>5. PlaceOK' /\ AcceptedOK' /\ FreshOK'
    BY <1>1, <1>2 DEF IInv, PlaceOK, AcceptedOK, FreshOK, Running, Deciding, Signed, Accepting, Delivers
  <1>6. ReplayBase' = my.base /\ ReplayObserved' = my.cp /\ ReplayObserved = my.cp
    BY <1>1, <1>2 DEF ReplayBase, ReplayObserved
  <1>7. RecoveryOK'
    BY <1>1, <1>2, <1>3, <1>6 DEF RecoveryOK, Replays
  <1>8. SavedOK'
    <2> SUFFICES ASSUME ~Primary, NEW f \in saved'
                 PROVE  f[2] <= m.results[f[1]].at
      BY <1>1, <1>6 DEF SavedOK, SavedIsPublished, At
    <2>1. f[1] \in Game /\ f[2] \in 1..MaxTime
      BY <1>1, <1>3, WrittenFacts
    <2>2. f \in saved => f[2] <= remote.results[f[1]].at \/ f[2] <= my.cp.results[f[1]].at
      BY <1>1, <1>6 DEF IInv, SavedOK, Resting
    <2>3. /\ remote.results[f[1]].at <= m.results[f[1]].at
          /\ my.cp.results[f[1]].at <= m.results[f[1]].at
          /\ remote.results[f[1]] \in Row /\ my.cp.results[f[1]] \in Row /\ m.results[f[1]] \in Row
      BY <1>3, <2>1, DocsAre DEF Below, Doc
    <2> QED BY <1>1, <1>3, <2>1, <2>2, <2>3, WrittenFacts, FieldsAre
  <1>9. WorkOK'
    BY <1>1, <1>2, <1>3 DEF IInv, WorkOK, Replays
  <1> QED BY <1>4, <1>5, <1>7, <1>8, <1>9 DEF IInv

LEMMA AcknowledgeKeeps ==
  ASSUME CheckpointAssumption, IInv, Acknowledge
  PROVE  IInv'
  <1>1. /\ pc = "acknowledge" /\ pc' \in {"dead", "loop"} /\ UNCHANGED <<disk, saved, World>>
        /\ pending' = [pending EXCEPT !.eligible = FALSE, !.acknowledged = disk]
        /\ my' = [my EXCEPT !.base = disk, !.cp = disk]
    BY DEF Acknowledge, At, Goto
  <1>2. /\ Running /\ pending # NoFile /\ pending.eligible /\ pending \in Batch /\ my \in Memory
        /\ pending.observed = my.cp /\ Below(disk, remote) /\ Below(my.cp, disk)
        /\ disk.dispatches = remote.dispatches /\ disk \in Doc /\ remote \in Doc /\ Known(disk)
        /\ my.after = "save" /\ Below(disk, disk) /\ my.cp \in Doc
    BY <1>1, BelowItself, DocsAre DEF IInv, WorkOK, AllKnown, Running, Types, PlaceOK, Deciding
  <1>3. /\ pending' \in Batch /\ ~pending'.eligible /\ pending'.acknowledged = disk
        /\ pending'.base = pending.base /\ pending'.observed = pending.observed
    BY <1>1, <1>2 DEF Batch
  <1>4. pending' # NoFile
    BY <1>2, <1>3 DEF NoFile, NoBatch, CheckpointAssumption
  <1>5. /\ my' \in Memory /\ my'.cp = disk /\ my'.base = disk /\ my'.head = my.head
        /\ my'.after = "save" /\ my'.todo = my.todo /\ my'.phase = my.phase
    BY <1>1, <1>2 DEF Memory
  <1>6. Types' /\ AllKnown'
    BY <1>1, <1>2, <1>3, <1>4, <1>5 DEF IInv, Types, AllKnown, Known, World, Labels
  <1>7. PlaceOK' /\ AcceptedOK' /\ FreshOK'
    BY <1>1, <1>5 DEF PlaceOK, AcceptedOK, FreshOK, Running, Deciding, Signed, Accepting
  <1>8. ReplayBase' = disk /\ ReplayObserved' = disk /\ ReplayObserved = my.cp
    BY <1>1, <1>2, <1>3, <1>4 DEF ReplayBase, ReplayObserved
  <1>9. RecoveryOK'
    BY <1>1, <1>2, <1>8 DEF RecoveryOK, Replays, Fits, World
  <1>10. SavedOK'
    <2> SUFFICES ASSUME ~Primary, NEW f \in saved
                 PROVE  f[2] <= remote.results[f[1]].at \/ f[2] <= disk.results[f[1]].at
      BY <1>1, <1>8 DEF SavedOK, SavedIsPublished, At, World
    <2>1. f[1] \in Game /\ f[2] \in 1..MaxTime
      BY DEF IInv, Types
    <2>2. f[2] <= remote.results[f[1]].at \/ f[2] <= my.cp.results[f[1]].at
      BY <1>1, <1>8 DEF IInv, SavedOK, Resting
    <2>3. /\ my.cp.results[f[1]].at <= disk.results[f[1]].at
          /\ my.cp.results[f[1]] \in Row /\ disk.results[f[1]] \in Row
      BY <1>2, <2>1 DEF Below, Doc
    <2> QED BY <2>1, <2>2, <2>3, FieldsAre
  <1>11. WorkOK'
    BY <1>1, <1>2, <1>3, <1>4, <1>5, <1>8 DEF WorkOK, Replays, Fits, World, Running
  <1> QED BY <1>6, <1>7, <1>9, <1>10, <1>11 DEF IInv

LEMMA PublishFailsKeeps ==
  ASSUME CheckpointAssumption, IInv, NEW accepted \in BOOLEAN, PublishFails(accepted)
  PROVE  IInv'
  <1> DEFINE m == MergeDoc(remote, pending.base, pending.observed)
  <1>1. /\ pc = "publish"
        /\ accepted => Mergeable(remote, pending.base, pending.observed)
        /\ remote' = IF accepted THEN m ELSE remote
        /\ disk' = pending.observed /\ saved' = saved \cup Facts(pending.observed)
        /\ my' = [my EXCEPT !.phase = IF @ = "batch" THEN "stopping" ELSE @]
        /\ pc' = IF my.phase = "final" THEN "dead" ELSE "loop"
        /\ UNCHANGED <<pending, events, clock>>
    BY DEF PublishFails, Write, At, Goto
  <1>2. /\ Running /\ pending # NoFile /\ pending.eligible /\ my.after = "save" /\ my \in Memory
        /\ pending.base = my.base /\ pending.observed = my.cp /\ Replays(my.base, my.cp)
        /\ Known(my.base) /\ Known(my.cp) /\ Known(remote) /\ my.cp \in Doc /\ remote \in Doc
    BY <1>1, DocsAre DEF IInv, WorkOK, AllKnown, Running, Types, PlaceOK, Deciding
  <1>3. /\ my' \in Memory /\ my'.cp = my.cp /\ my'.base = my.base /\ my'.head = my.head
        /\ my'.after = my.after /\ my'.todo = my.todo
        /\ my'.phase \in {"stopping", "final"}
    <2> DEFINE phase == IF my.phase = "batch" THEN "stopping" ELSE my.phase
    <2>1. my' = [my EXCEPT !.phase = phase] /\ phase \in {"stopping", "final"}
      BY <1>1, <1>2 DEF Memory
    <2> HIDE DEF phase
    <2> QED BY <1>2, <2>1 DEF Memory
  <1>4. /\ remote' \in Doc /\ Known(remote') /\ Below(remote, remote')
        /\ Fits(remote', my.base, my.cp)
    <2>1. CASE accepted
      <3>1. Mergeable(remote, my.base, my.cp) /\ remote' = MergeDoc(remote, my.base, my.cp)
        BY <1>1, <1>2, <2>1
      <3> QED BY <1>2, <3>1, MergedNow
    <2>2. CASE ~accepted
      BY <1>1, <1>2, <2>2, BelowItself DEF Replays
    <2> QED BY <2>1, <2>2
  <1>5. faults' \in 0..MaxFault
    BY DEF PublishFails, IInv, Types, CheckpointAssumption
  <1> HIDE DEF m
  <1>6. Types' /\ AllKnown'
    <2>1. saved' \subseteq Game \X (1..MaxTime)
      BY <1>1, <1>2, WrittenFacts
    <2> QED BY <1>1, <1>2, <1>3, <1>4, <1>5, <2>1 DEF IInv, Types, AllKnown, Known, Labels
  <1>7. PlaceOK' /\ AcceptedOK' /\ FreshOK'
    BY <1>1, <1>2, <1>3
       DEF IInv, PlaceOK, AcceptedOK, FreshOK, Running, Deciding, Signed, Accepting, Delivers
  <1>8. ReplayBase' = my.base /\ ReplayObserved' = my.cp /\ ReplayObserved = my.cp
    BY <1>1, <1>2 DEF ReplayBase, ReplayObserved
  <1>9. RecoveryOK'
    BY <1>1, <1>2, <1>4, <1>8 DEF RecoveryOK, Replays
  <1>10. SavedOK'
    <2> SUFFICES ASSUME ~Primary, NEW f \in saved'
                 PROVE  f[2] <= remote'.results[f[1]].at \/ f[2] <= my.cp.results[f[1]].at
      BY <1>1, <1>8 DEF SavedOK, SavedIsPublished, At
    <2>1. /\ f[1] \in Game /\ f[2] \in 1..MaxTime
          /\ f \in saved \/ f[2] <= my.cp.results[f[1]].at
      BY <1>1, <1>2, WrittenFacts
    <2>2. f \in saved => f[2] <= remote.results[f[1]].at \/ f[2] <= my.cp.results[f[1]].at
      BY <1>1, <1>8 DEF IInv, SavedOK, Resting
    <2>3. /\ remote.results[f[1]].at <= remote'.results[f[1]].at
          /\ remote.results[f[1]] \in Row /\ remote'.results[f[1]] \in Row
      BY <1>2, <1>4, <2>1 DEF Below, Doc
    <2> QED BY <2>1, <2>2, <2>3, FieldsAre
  <1>11. WorkOK'
    BY <1>1, <1>2, <1>3, <1>4 DEF WorkOK, Replays, Running
  <1> QED BY <1>6, <1>7, <1>9, <1>10, <1>11 DEF IInv
--------------------------------------------------------------------------------
(* The recovery step *)

LEMMA RecoverKeeps ==
  ASSUME CheckpointAssumption, IInv, Recover
  PROVE  IInv'
  <1>1. /\ pc = "dead" /\ pending' = NewestBatch /\ UNCHANGED <<my, disk, saved, World>>
        /\ pc' = IF NewestBatch.eligible THEN "replay" ELSE "recovered"
        /\ Replays(ReplayBase, ReplayObserved) /\ ReplayObserved \in Doc /\ disk \in Doc
    BY DocsAre DEF Recover, At, Goto, IInv, RecoveryOK, Resting, ReplayObserved, NoFile, NoBatch
  <1>2. ~NoFile.eligible
    BY DEF NoFile, NoBatch
  <1>3. Known(Empty)
    BY EmptyIsKnown DEF Known, IInv, Types
  <1>4. \/ /\ pending' = Frozen(ReplayBase, disk) /\ ~pending.eligible /\ pc' = "replay"
           /\ Known(ReplayBase)
        \/ /\ pending' = pending /\ pending # NoFile /\ pending.eligible /\ pc' = "replay"
        \/ /\ pending' = pending /\ pending # NoFile /\ ~pending.eligible /\ pc' = "recovered"
           /\ disk = ReplayBase
    <2>1. CASE pending = NoFile
      BY <1>1, <1>2, <2>1, FrozenIs, DocsAre DEF NewestBatch, ReplayBase, IInv, AllKnown
    <2>2. CASE pending # NoFile /\ pending.eligible
      BY <1>1, <2>2 DEF NewestBatch
    <2>3. CASE pending # NoFile /\ ~pending.eligible
      BY <1>1, <2>3, FrozenIs, DocsAre DEF NewestBatch, ReplayBase, IInv, AllKnown
    <2> QED BY <2>1, <2>2, <2>3
  <1>5. Known(ReplayBase) => ReplayBase \in Doc
    BY DEF Known, KnownAt
  <1>6. Types' /\ AllKnown'
    BY <1>1, <1>3, <1>4, <1>5, FrozenIs DEF IInv, Types, AllKnown, Known, World, Labels
  <1>7. PlaceOK' /\ AcceptedOK' /\ FreshOK' /\ WorkOK'
    BY <1>1 DEF PlaceOK, AcceptedOK, FreshOK, WorkOK, Running, Deciding, Signed, Accepting
  <1>8. CASE pc' = "replay"
    <2>1. /\ pending' # NoFile /\ pending'.eligible
          /\ ReplayBase' = ReplayBase /\ ReplayObserved' = ReplayObserved
      BY <1>1, <1>4, <1>5, <1>8, FrozenIs DEF ReplayBase, ReplayObserved
    <2>2. RecoveryOK'
      BY <1>1, <2>1 DEF RecoveryOK, Replays, Fits, World
    <2>3. SavedOK'
      BY <1>1, <1>8, <2>1 DEF IInv, SavedOK, SavedIsPublished, At, World, Resting
    <2> QED BY <1>6, <1>7, <2>2, <2>3 DEF IInv
  <1>9. CASE pc' = "recovered"
    <2>1. ReplayObserved = disk /\ ReplayBase = disk /\ Below(disk, remote) /\ remote \in Doc
      BY <1>1, <1>4, <1>9, DocsAre DEF ReplayObserved, Replays, Fits
    <2>2. RecoveryOK'
      BY <1>9 DEF RecoveryOK, Resting
    <2>3. SavedOK'
      <3> SUFFICES ASSUME ~Primary, NEW f \in saved PROVE remote.results[f[1]].at >= f[2]
        BY <1>1, <1>9 DEF SavedOK, SavedIsPublished, World, Resting
      <3>1. f[1] \in Game /\ f[2] \in 1..MaxTime
        BY DEF IInv, Types
      <3>2. f[2] <= remote.results[f[1]].at \/ f[2] <= disk.results[f[1]].at
        BY <1>1, <2>1 DEF IInv, SavedOK, Resting
      <3>3. /\ disk.results[f[1]].at <= remote.results[f[1]].at
            /\ disk.results[f[1]] \in Row /\ remote.results[f[1]] \in Row
        BY <1>1, <2>1, <3>1 DEF Below, Doc
      <3> QED BY <3>1, <3>2, <3>3, FieldsAre
    <2> QED BY <1>6, <1>7, <2>2, <2>3 DEF IInv
  <1> QED BY <1>1, <1>8, <1>9

LEMMA RepublishKeeps ==
  ASSUME CheckpointAssumption, IInv, Republish
  PROVE  IInv'
  <1> DEFINE m == MergeDoc(remote, pending.base, pending.observed)
  <1>1. /\ pc = "republish" /\ pc' = "recovered"
        /\ Mergeable(remote, pending.base, pending.observed)
        /\ remote' = m /\ disk' = m /\ saved' = saved \cup Facts(m)
        /\ pending' = [pending EXCEPT !.eligible = FALSE, !.acknowledged = m]
        /\ UNCHANGED <<my, events, clock, faults>>
    BY DEF Republish, Write, At, Goto
  <1>2. /\ pending # NoFile /\ pending.eligible /\ pending \in Batch
        /\ Known(pending.base) /\ Known(pending.observed)
        /\ Replays(pending.base, pending.observed) /\ ReplayObserved = pending.observed
        /\ pending.observed \in Doc
    BY <1>1, DocsAre DEF IInv, RecoveryOK, Resting, Types, AllKnown, ReplayBase, ReplayObserved
  <1>3. m \in Doc /\ Known(m) /\ Below(remote, m) /\ Below(pending.observed, m)
    BY <1>1, <1>2, MergedNow
  <1> HIDE DEF m
  <1>4. /\ pending' \in Batch /\ pending'.acknowledged = m
        /\ pending'.base = pending.base /\ pending'.observed = pending.observed
    BY <1>1, <1>2, <1>3 DEF Batch
  <1>5. Types' /\ AllKnown'
    BY <1>1, <1>2, <1>3, <1>4, WrittenFacts DEF IInv, Types, AllKnown, Known, Labels
  <1>6. PlaceOK' /\ AcceptedOK' /\ FreshOK' /\ WorkOK' /\ RecoveryOK'
    BY <1>1 DEF PlaceOK, AcceptedOK, FreshOK, WorkOK, RecoveryOK, Running, Resting,
                Deciding, Signed, Accepting
  <1>7. SavedOK'
    <2> SUFFICES ASSUME ~Primary, NEW f \in saved' PROVE m.results[f[1]].at >= f[2]
      BY <1>1 DEF SavedOK, SavedIsPublished, Resting
    <2>2. f \in saved =>
            f[2] <= remote.results[f[1]].at \/ f[2] <= pending.observed.results[f[1]].at
      BY <1>1, <1>2 DEF IInv, SavedOK, Resting
    <2>3. f[1] \in Game /\ f[2] \in 1..MaxTime
      BY <1>1, <1>3, WrittenFacts
    <2>4. /\ remote.results[f[1]].at <= m.results[f[1]].at
          /\ pending.observed.results[f[1]].at <= m.results[f[1]].at
          /\ remote.results[f[1]] \in Row /\ pending.observed.results[f[1]] \in Row
          /\ m.results[f[1]] \in Row
      BY <1>2, <1>3, <2>3, DocsAre DEF Below, Doc
    <2>5. f \in saved \/ f[2] <= m.results[f[1]].at
      BY <1>1, <1>3, WrittenFacts
    <2> QED BY <2>2, <2>3, <2>4, <2>5, FieldsAre
  <1> QED BY <1>5, <1>6, <1>7 DEF IInv

LEMMA RecoveryFailsKeeps ==
  ASSUME CheckpointAssumption, IInv, RecoveryFails
  PROVE  IInv'
  <1>1. pc' = "stuck" /\ UNCHANGED <<my, Files, remote, events, clock>> /\ faults' \in 0..MaxFault
    BY DEF RecoveryFails, Goto, IInv, Types, CheckpointAssumption
  <1>2. Types' /\ AllKnown'
    BY <1>1 DEF IInv, Types, AllKnown, Known, Files, Labels
  <1>3. PlaceOK' /\ AcceptedOK' /\ FreshOK' /\ WorkOK' /\ RecoveryOK' /\ SavedOK'
    BY <1>1 DEF PlaceOK, AcceptedOK, FreshOK, WorkOK, RecoveryOK, SavedOK, SavedIsPublished,
                At, Running, Resting, Deciding, Signed, Accepting
  <1> QED BY <1>2, <1>3 DEF IInv
--------------------------------------------------------------------------------
(* Another producer: its counts are newer than any the worker knows. *)

LEMMA OtherCommitKeeps ==
  ASSUME CheckpointAssumption, IInv, NEW g \in Game, NEW c \in Count, OtherCommit(g, c)
  PROVE  IInv' /\ Below(remote, remote')
  <1> DEFINE row == [at |-> clock + 1, count |-> c, dated |-> c \in Hot]
             n == [remote EXCEPT !.results[g] = row]
  <1>1. /\ clock < MaxTime /\ clock' = clock + 1 /\ remote' = n
        /\ UNCHANGED <<events, faults, Files, Worker>>
        /\ clock \in Nat /\ MaxTime \in Nat /\ clock' \in Nat /\ remote \in Doc /\ my.cp \in Doc
    BY DocsAre DEF OtherCommit, IInv, Types, CheckpointAssumption
  <1>2. /\ n \in Doc /\ n.dispatches = remote.dispatches /\ n.results[g] = row
        /\ \A h \in Game : h # g => n.results[h] = remote.results[h]
    <2>1. row \in Row
      BY <1>1 DEF Row
    <2> HIDE DEF row
    <2>2. n = [remote EXCEPT !.results = [remote.results EXCEPT ![g] = row]]
      BY <1>1 DEF Doc
    <2> QED BY <1>1, <2>1, <2>2 DEF Doc
  <1>3. n.results[g].at = clock + 1
    BY <1>2
  <1> HIDE DEF n
  <1>4. \A d : Known(d) => KnownAt(d, clock', events')
    BY <1>1, KnownStays DEF Known, Worker
  <1>5. \A d, h : Known(d) /\ h \in Game => d.results[h].at \in Nat /\ d.results[h].at <= clock
    <2> SUFFICES ASSUME NEW d, NEW h \in Game, Known(d)
                 PROVE  d.results[h].at \in Nat /\ d.results[h].at <= clock
      OBVIOUS
    <2>1. d.results[h] \in Row /\ d.results[h].at <= clock
      BY DEF Known, KnownAt, Doc
    <2> QED BY <2>1, FieldsAre
  <1>6. Below(remote, n)
    <2>1. \A h \in Game : remote.results[h].at \in Nat /\ remote.results[h].at <= clock
      BY <1>5 DEF IInv, AllKnown
    <2> QED BY <1>1, <1>2, <1>3, <2>1 DEF Below
  <1>7. KnownAt(n, clock', events')
    <2>1. KnownAt(remote, clock', events')
      BY <1>4 DEF IInv, AllKnown
    <2> QED BY <1>1, <1>2, <1>3, <2>1, KnownChange DEF KnownAt
  <1>8. Types' /\ AllKnown'
    <2>1. Types'
      BY <1>1 DEF IInv, Types, Files, Worker
    <2>2. AllKnown'
      <3>1. /\ KnownAt(disk, clock', events') /\ KnownAt(my.cp, clock', events')
            /\ KnownAt(my.base, clock', events') /\ KnownAt(my.head, clock', events')
            /\ pending # NoFile =>
                 /\ KnownAt(pending.base, clock', events') /\ KnownAt(pending.observed, clock', events')
                 /\ KnownAt(pending.acknowledged, clock', events')
        BY <1>4 DEF IInv, AllKnown
      <3> QED BY <1>1, <1>7, <3>1 DEF AllKnown, Known, Files, Worker
    <2> QED BY <2>1, <2>2
  <1>9. \A b, o \in Doc : Replays(b, o) => Fits(n, b, o)
    BY <1>1, <1>2, <1>6, FitsNewer DEF Replays
  <1>10. PlaceOK' /\ FreshOK'
    BY <1>1 DEF IInv, PlaceOK, FreshOK, Running, Worker
  <1>11. ReplayBase' = ReplayBase /\ ReplayObserved' = ReplayObserved
    BY <1>1 DEF ReplayBase, ReplayObserved, Files, Worker
  <1>12. ReplayBase \in Doc /\ ReplayObserved \in Doc
    BY DocsAre DEF ReplayBase, ReplayObserved, NoFile, NoBatch
  <1>13. RecoveryOK'
    BY <1>1, <1>2, <1>9, <1>11, <1>12 DEF IInv, RecoveryOK, Replays, Files, Worker
  <1>14. SavedOK'
    <2> SUFFICES ASSUME ~Primary, NEW f \in saved
                 PROVE  f[2] <= remote.results[f[1]].at => f[2] <= n.results[f[1]].at
      BY <1>1, <1>11 DEF IInv, SavedOK, SavedIsPublished, At, Files, Worker
    <2>1. f[1] \in Game /\ f[2] \in 1..MaxTime
      BY DEF IInv, Types
    <2>2. /\ remote.results[f[1]].at <= n.results[f[1]].at
          /\ remote.results[f[1]] \in Row /\ n.results[f[1]] \in Row
      BY <1>1, <1>2, <1>6, <2>1 DEF Below, Doc
    <2> QED BY <2>1, <2>2, FieldsAre
  <1>15. AcceptedOK'
    <2> SUFFICES ASSUME Primary PROVE AcceptedOK'
      BY DEF AcceptedOK
    <2>1. ASSUME pc \in Accepting, NEW h \in Game
          PROVE  n.results[h] = my.cp.results[h] \/ n.results[h].at > my.cp.results[h].at
      <3>1. CASE h = g
        BY <1>1, <1>3, <1>5, <3>1 DEF IInv, AllKnown
      <3>2. CASE h # g
        BY <1>2, <2>1, <3>2 DEF IInv, AcceptedOK
      <3> QED BY <3>1, <3>2
    <2> QED BY <1>1, <2>1 DEF IInv, AcceptedOK, Worker
  <1>16. WorkOK'
    <2>1. my.base \in Doc /\ disk \in Doc
      BY DocsAre
    <2>2. Running => Fits(n, my.base, my.cp)
      BY <1>1, <1>9, <2>1 DEF IInv, WorkOK
    <2>3. Below(disk, remote) => Below(disk, n)
      BY <1>1, <1>2, <1>6, <2>1, BelowAll
    <2> QED BY <1>1, <1>2, <1>11, <2>2, <2>3 DEF IInv, WorkOK, Replays, Running, Files, Worker
  <1> QED BY <1>1, <1>6, <1>8, <1>10, <1>13, <1>14, <1>15, <1>16 DEF IInv
--------------------------------------------------------------------------------
(* Every step *)

LEMMA InvInit ==
  ASSUME CheckpointAssumption, Init
  PROVE  IInv
  <1>1. /\ remote = Empty /\ events = {} /\ disk = Empty /\ pending = NoFile /\ saved = {}
        /\ my = [cp |-> Empty, base |-> Empty, head |-> Empty, todo |-> {}, game |-> None,
                 signature |-> None, after |-> "save", ok |-> 0,
                 due |-> FALSE, stage |-> "intent", phase |-> "batch"]
        /\ pc = "idle" /\ clock = 0 /\ faults = 0
    BY DEF Init
  <1>2. KnownAt(Empty, 0, events) /\ Empty \in Doc
    BY EmptyIsKnown DEF KnownAt
  <1> HIDE DEF Empty
  <1>3. my \in Memory /\ my.cp = Empty /\ my.base = Empty /\ my.head = Empty
    BY <1>1, <1>2 DEF Memory
  <1>4. Types /\ AllKnown
    BY <1>1, <1>2, <1>3 DEF Types, AllKnown, Known, Labels, CheckpointAssumption
  <1>5. PlaceOK /\ RecoveryOK /\ WorkOK /\ AcceptedOK /\ FreshOK /\ SavedOK
    BY <1>1 DEF PlaceOK, RecoveryOK, WorkOK, AcceptedOK, FreshOK, SavedOK, SavedIsPublished,
                At, Running, Resting, Deciding, Signed, Accepting
  <1> QED BY <1>4, <1>5 DEF IInv

LEMMA WorkerKeeps ==
  ASSUME CheckpointAssumption, IInv, WorkerStep
  PROVE  IInv'
  <1>1. CASE Begin \/ StartRetry \/ StartQueue \/ SaveItem \/ Finish \/ Gate \/ Confirm
    BY <1>1, BeginKeeps, StartRetryKeeps, StartQueueKeeps, SaveItemKeeps, FinishKeeps,
       GateKeeps, ConfirmKeeps
  <1>2. CASE \E g \in Game, e \in BOOLEAN : Recheck(g, e) \/ RequestFails(g, e)
    BY <1>2, RecheckKeeps, RequestFailsKeeps
  <1>3. CASE \E g \in Game : RetryDispatch(g)
    BY <1>3, RetryDispatchKeeps
  <1>4. CASE \E g \in Game, c \in Count, e \in BOOLEAN : Observe(g, c, e)
    BY <1>4, ObserveKeeps
  <1>5. CASE \E a, n \in BOOLEAN : Post(a, n)
    BY <1>5, PostKeeps
  <1>6. CASE Artifacts \/ CommitIntent \/ RefuseIntent \/ Adopt
    BY <1>6, ArtifactsKeeps, CommitIntentKeeps, RefuseIntentKeeps, AdoptKeeps
  <1>7. CASE Capture \/ Refresh \/ Publish \/ Acknowledge
    BY <1>7, CaptureKeeps, RefreshKeeps, PublishKeeps, AcknowledgeKeeps
  <1>8. CASE \E a \in BOOLEAN : PublishFails(a)
    BY <1>8, PublishFailsKeeps
  <1>9. CASE Recover \/ Republish \/ RecoveryFails
    BY <1>9, RecoverKeeps, RepublishKeeps, RecoveryFailsKeeps
  <1> QED BY <1>1, <1>2, <1>3, <1>4, <1>5, <1>6, <1>7, <1>8, <1>9 DEF WorkerStep

LEMMA InvStutter ==
  ASSUME IInv, UNCHANGED vars
  PROVE  IInv'
  <1>1. UNCHANGED <<remote, events, disk, pending, saved, my, pc, clock, faults>>
    BY DEF vars
  <1>2. Types' /\ AllKnown' /\ PlaceOK'
    BY <1>1 DEF IInv, Types, AllKnown, Known, PlaceOK, Running
  <1>3. RecoveryOK' /\ WorkOK'
    BY <1>1 DEF IInv, RecoveryOK, WorkOK, Replays, ReplayBase, ReplayObserved, Running
  <1>4. AcceptedOK' /\ FreshOK' /\ SavedOK'
    BY <1>1 DEF IInv, AcceptedOK, FreshOK, SavedOK, SavedIsPublished, ReplayObserved, At, Running
  <1> QED BY <1>2, <1>3, <1>4 DEF IInv

LEMMA InvNext ==
  ASSUME CheckpointAssumption, IInv, [Next]_vars
  PROVE  IInv'
  BY WorkerKeeps, CrashKeeps, OtherCommitKeeps, InvStutter DEF Next

LEMMA InvAlways ==
  ASSUME CheckpointAssumption
  PROVE  Spec => []IInv
  <1>1. Init => IInv
    BY InvInit
  <1>2. IInv /\ [Next]_vars => IInv'
    BY InvNext
  <1> QED BY <1>1, <1>2, PTL DEF Spec

(* The authoritative files are only replaced by files as new or newer. *)
LEMMA FilesGrow ==
  ASSUME CheckpointAssumption, IInv, [Next]_vars
  PROVE  Below(remote, remote')
  <1>1. Below(remote, remote)
    BY BelowItself, DocsAre
  <1>2. CASE Publish \/ Republish \/ \E a \in BOOLEAN : PublishFails(a)
    <2> DEFINE m == MergeDoc(remote, pending.base, pending.observed)
    <2>1. \/ remote' = remote
          \/ /\ pc \in {"publish", "republish"} /\ remote' = m
             /\ Mergeable(remote, pending.base, pending.observed)
      BY <1>2 DEF Publish, Republish, PublishFails, At
    <2>2. CASE remote' = remote
      BY <1>1, <2>2
    <2>3. CASE pc \in {"publish", "republish"} /\ remote' = m
               /\ Mergeable(remote, pending.base, pending.observed)
      <3>1. /\ pending # NoFile /\ pending.eligible
            /\ Replays(pending.base, pending.observed)
        BY <2>3 DEF IInv, WorkOK, RecoveryOK, ReplayBase, ReplayObserved, Running, Resting
      <3> QED BY <2>3, <3>1, MergedNow DEF IInv, AllKnown
    <2> QED BY <2>1, <2>2, <2>3
  <1>3. CASE CommitIntent
    <2>1. /\ Replays(my.base, my.cp) /\ Mergeable(remote, my.base, my.cp)
          /\ remote' = MergeDoc(remote, my.base, my.cp)
      BY <1>3 DEF CommitIntent, IInv, WorkOK, Running, At
    <2> QED BY <2>1, MergedNow DEF IInv, AllKnown
  <1>4. CASE \E g \in Game, c \in Count : OtherCommit(g, c)
    BY <1>4, OtherCommitKeeps
  <1>5. CASE UNCHANGED remote
    BY <1>1, <1>5
  <1>6. \/ CommitIntent \/ Publish \/ Republish \/ \E a \in BOOLEAN : PublishFails(a)
        \/ \E g \in Game, c \in Count : OtherCommit(g, c)
        \/ UNCHANGED remote
    BY DEF Next, WorkerStep, Begin, Recheck, RequestFails, StartRetry, RetryDispatch, StartQueue,
           Observe, SaveItem, Finish, Gate, Confirm, Post, Artifacts, RefuseIntent, Adopt, Capture,
           Refresh, Acknowledge, Recover, RecoveryFails, Crash, Files, World, vars
  <1> QED BY <1>2, <1>3, <1>4, <1>5, <1>6
--------------------------------------------------------------------------------
(* What the runs check *)

(* Every file and the memory hold values of their types, and no marker of a
   conflict is ever written (merge_official_checkpoint). *)
THEOREM TypeCorrect ==
  ASSUME CheckpointAssumption
  PROVE  Spec => []TypeOK
  <1>1. IInv => TypeOK
    BY DocsAre DEF IInv, Types, Memory, TypeOK
  <1> QED BY <1>1, InvAlways, PTL

(* Without the database, whatever a checkout ever saved is in the branch, or
   something newer is, once the recovery step has succeeded: after a crash at any
   step, a publication whose answer was lost, and commits of other producers
   (persist_official_checkpoint). *)
THEOREM SavedAlways ==
  ASSUME CheckpointAssumption, ~Primary
  PROVE  Spec => []SavedIsPublished
  <1>1. IInv => SavedIsPublished
    BY DEF IInv, SavedOK
  <1> QED BY <1>1, InvAlways, PTL

(* With the database, an event is posted only of an intent and a count that were
   accepted, unless a newer count came after (dispatch_content_event). *)
THEOREM AnnouncedAlways ==
  ASSUME CheckpointAssumption
  PROVE  Spec => []AnnouncedIsAccepted
  <1>1. ASSUME IInv PROVE AnnouncedIsAccepted
    <2> SUFFICES ASSUME Primary, pc = "send" PROVE AnnouncedIsAccepted
      BY DEF AnnouncedIsAccepted, At
    <2>1. /\ my.game \in Game /\ my.phase = "batch"
          /\ my.cp.dispatches[my.game].signature = my.signature
          /\ my.cp.dispatches = my.base.dispatches /\ remote.dispatches = my.base.dispatches
          /\ ~Superseded(my.cp, my.game, my.signature)
          /\ \/ remote.results[my.game] = my.cp.results[my.game]
             \/ remote.results[my.game].at > my.cp.results[my.game].at
      BY <1>1 DEF IInv, PlaceOK, WorkOK, AcceptedOK, Running, Deciding, Signed, Accepting
    <2> QED BY <2>1 DEF AnnouncedIsAccepted, Superseded
  <1> QED BY <1>1, InvAlways, PTL

(* No event is posted again once its receipt is durable: not by a retry, not after
   a crash, not by a later run (retry_pending_content_dispatches). *)
THEOREM ResentNever ==
  ASSUME CheckpointAssumption
  PROVE  Spec => []NeverResent
  <1>1. ASSUME IInv PROVE NeverResent
    <2> SUFFICES ASSUME pc = "send"
                 PROVE  remote.dispatches[my.game] # [signature |-> my.signature, status |-> "dispatched"]
      BY DEF NeverResent, At
    <2>1. my.phase = "batch" /\ remote.dispatches = my.base.dispatches
      BY <1>1 DEF IInv, PlaceOK, WorkOK, Running, Deciding
    <2>2. CASE Primary
      BY <1>1, <2>1, <2>2 DEF IInv, AcceptedOK, Accepting
    <2>3. CASE ~Primary
      BY <1>1, <2>1, <2>3 DEF IInv, FreshOK, Running, Delivers
    <2> QED BY <2>2, <2>3
  <1> QED BY <1>1, InvAlways, PTL

(* A durable receipt is of an event that GitHub has accepted. *)
THEOREM ReceiptsAlways ==
  ASSUME CheckpointAssumption
  PROVE  Spec => []ReceiptIsTrue
  <1>1. IInv => ReceiptIsTrue
    BY DEF IInv, AllKnown, Known, KnownAt, ReceiptIsTrue
  <1> QED BY <1>1, InvAlways, PTL

(* No step, of the worker or of its recovery, puts an older count over a newer
   one, however late the batch it publishes (merge_official_checkpoint). *)
THEOREM NewerAlways ==
  ASSUME CheckpointAssumption
  PROVE  Spec => NewerSurvives
  <1>1. ASSUME IInv, [Next]_vars PROVE KeepsNewer
    <2>1. Below(remote, remote') /\ remote \in Doc /\ remote' \in Doc
      BY <1>1, FilesGrow, InvNext DEF IInv, AllKnown, Known, KnownAt
    <2>2. \A g \in Game : remote.results[g] \in Row /\ remote'.results[g] \in Row
      BY <2>1 DEF Doc
    <2> QED BY <2>1, <2>2, FieldsAre DEF Below, KeepsNewer
  <1> QED BY <1>1, InvAlways, PTL DEF Spec, NewerSurvives
================================================================================
