--------------------------- MODULE OfficialCheckpoint ---------------------------
(* The hourly Followers worker, its frozen checkpoints and the final recovery:
   run_official_batch, dispatch_content_event, persist_dispatch_state,
   OfficialCheckpointPersistence.persist and jobs/persist_official_checkpoint.

   One runner at a time (the workflow's concurrency group), other producers of
   the same files, a runner whose process dies at any step but whose checkout
   survives until the recovery step.  A checkpoint is abstracted to the official
   result and the dispatch receipt of every game; the signature of an event is
   the count it announces; the queue is the set of games without a result. *)
EXTENDS Integers, FiniteSets, TLC

CONSTANTS
  Game,        \* AppIDs
  Count, Hot,  \* follower counts, and those of 5000 and more
  None, Conflict,
  Primary,     \* TRUE when the database is the primary store
  SaveEvery,   \* --save-every
  MaxTime,     \* bound: observations, by anybody
  MaxFault     \* bound: crashes, failed posts and failed writes

NoRow == [at |-> 0, count |-> None, dated |-> None]
NoEntry == [signature |-> None, status |-> None]

Row == [at : 1..MaxTime, count : Count, dated : BOOLEAN] \cup {NoRow}
Entry == [signature : Hot, status : {"pending", "failed", "dispatched"}] \cup {NoEntry}
Doc == [results : [Game -> Row], dispatches : [Game -> Entry]]
Empty == [results |-> [g \in Game |-> NoRow], dispatches |-> [g \in Game |-> NoEntry]]

CheckpointAssumption ==
  /\ Hot \subseteq Count /\ None \notin Count \cup {"dispatched"} \cup Doc
  /\ Conflict # None /\ Conflict \notin Row \cup Entry
  /\ Primary \in BOOLEAN
  /\ SaveEvery \in Nat \ {0} /\ MaxTime \in Nat /\ MaxFault \in Nat

(* The frozen recovery batch; the acknowledged revision stands for its files. *)
Batch == [base : Doc, observed : Doc, eligible : BOOLEAN, acknowledged : Doc]
NoBatch == [base |-> Empty, observed |-> Empty, eligible |-> FALSE, acknowledged |-> Empty]
NoFile == [NoBatch EXCEPT !.acknowledged = None]

VARIABLES
  remote,   \* the authoritative files: the database, or the main branch
  events,   \* the events GitHub has accepted
  disk,     \* the checkpoint file in the runner's checkout
  pending,  \* the recovery batch beside it
  saved,    \* every observation this checkout has held (for the properties)
  my,       \* the worker's memory
  pc, clock, faults

vars == <<remote, events, disk, pending, saved, my, pc, clock, faults>>
--------------------------------------------------------------------------------
(* merge_json_three_way, and merge_official_checkpoint on top of it *)

Merge3(l, b, o) == IF o = b THEN l ELSE IF l \in {b, o} THEN o ELSE Conflict

FieldByField(l, b, o) == [f \in DOMAIN l |-> Merge3(l[f], b[f], o[f])]     \* a slip
MergeFields(l, b, o) ==
  LET m == [f \in DOMAIN l |-> Merge3(l[f], b[f], o[f])]
  IN IF Merge3(l, b, o) # Conflict THEN Merge3(l, b, o)
     ELSE IF \E f \in DOMAIN m : m[f] = Conflict THEN Conflict ELSE m

(* An older local count gives way to a newer one; the reverse is a conflict. *)
Outdated(l, b, o) == o # b /\ l # b /\ NoRow \notin {l, o} /\ l.at > o.at
LocalWins(l, b, o) == IF o = b THEN l ELSE o                              \* a slip
MergeResult(l, b, o) == IF Outdated(l, b, o) THEN l ELSE MergeFields(l, b, o)

MergeDoc(l, b, o) ==
  [results |-> [g \in Game |-> MergeResult(l.results[g], b.results[g], o.results[g])],
   dispatches |-> [g \in Game |->
                     MergeFields(l.dispatches[g], b.dispatches[g], o.dispatches[g])]]

Mergeable(l, b, o) ==
  \A g \in Game : /\ MergeDoc(l, b, o).results[g] # Conflict
                  /\ MergeDoc(l, b, o).dispatches[g] # Conflict
--------------------------------------------------------------------------------
(* The worker *)

Facts(d) == {<<g, d.results[g].at>> : g \in {h \in Game : d.results[h] # NoRow}}
Write(d) == disk' = d /\ saved' = saved \cup Facts(d)

At(l) == pc = l
Goto(l) == pc' = l
Worker == <<my, pc>>
Files == <<disk, pending, saved>>
World == <<remote, events, clock, faults>>

Init ==
  /\ remote = Empty /\ events = {}
  /\ disk = Empty /\ pending = NoFile /\ saved = {}
  /\ my = [cp |-> Empty, base |-> Empty, head |-> Empty, todo |-> {}, game |-> None,
           signature |-> None, after |-> "save", ok |-> 0,
           due |-> FALSE, stage |-> "intent", phase |-> "batch"]
  /\ pc = "idle" /\ clock = 0 /\ faults = 0

(* A run checks out (and hydrates) the authoritative files: begin_persistence. *)
Begin ==
  /\ pc \in {"idle", "recovered", "stuck"}
  /\ disk' = remote /\ saved' = {} /\ pending' = NoFile
  /\ my' = [cp |-> remote, base |-> remote, head |-> remote,
            todo |-> {g \in Game : /\ remote.results[g].count \in Hot
                                   /\ remote.results[g].dated = FALSE},
            game |-> None, signature |-> None, after |-> "recheck", ok |-> 0,
            due |-> FALSE, stage |-> "intent", phase |-> "batch"]
  /\ Goto("recheck")
  /\ UNCHANGED World

(* reverify_pending_store_dates: an exact date makes the row announceable. *)
Recheck(g, exact) ==
  /\ At("recheck") /\ g \in my.todo
  /\ my' = [my EXCEPT !.todo = @ \ {g}, !.due = TRUE, !.after = "recheck", !.game = g,
                      !.cp.results[g].dated = exact]
  /\ Goto(IF exact THEN "gate" ELSE "recheck")
  /\ UNCHANGED <<Files, World>>

(* retry_pending_content_dispatches: every qualified count not yet dispatched. *)
WaitsForIt(d, g) ==                                                       \* a slip
  d.dispatches[g] = [signature |-> d.results[g].count, status |-> "pending"]
Delivered(d, g) == d.dispatches[g] = [signature |-> d.results[g].count, status |-> "dispatched"]
Unattempted(d, g) == d.results[g].count \in Hot /\ d.dispatches[g] = NoEntry  \* a slip
Undelivered(d, g) == d.results[g].count \in Hot /\ ~Delivered(d, g)

StartRetry ==
  /\ At("recheck") /\ my.todo = {}
  /\ my' = [my EXCEPT !.todo = {g \in Game : Undelivered(my.cp, g)}, !.after = "retry"]
  /\ Goto("retry")
  /\ UNCHANGED <<Files, World>>

RetryDispatch(g) ==
  /\ At("retry") /\ g \in my.todo
  /\ my' = [my EXCEPT !.todo = @ \ {g}, !.due = TRUE, !.game = g]
  /\ Goto("gate")
  /\ UNCHANGED <<Files, World>>

(* The rechecked state is saved before the queue is made. *)
StartQueue ==
  /\ At("retry") /\ my.todo = {}
  /\ IF my.due THEN Write(my.cp) ELSE UNCHANGED <<disk, saved>>
  /\ my' = [my EXCEPT !.todo = {g \in Game : my.cp.results[g] = NoRow}, !.after = "save",
                      !.due = FALSE]
  /\ Goto("loop")
  /\ UNCHANGED <<pending, World>>

Due(n) == n % SaveEvery = 0

(* One request answered with a count; the Store then has an exact date or not. *)
Observe(g, c, exact) ==
  /\ At("loop") /\ g \in my.todo /\ my.phase = "batch"
  /\ clock < MaxTime /\ clock' = clock + 1
  /\ exact => c \in Hot
  /\ my' = [my EXCEPT !.todo = @ \ {g}, !.game = g, !.ok = @ + 1, !.due = Due(my.ok + 1),
                      !.cp.results[g] = [at |-> clock + 1, count |-> c, dated |-> exact]]
  /\ Goto(IF exact THEN "gate" ELSE "save")
  /\ UNCHANGED <<Files, remote, events, faults>>

(* A request without a count is checkpointed at once.  An unusable group leaves
   the batch running, any other failure ends it. *)
RequestFails(g, ends) ==
  /\ At("loop") /\ g \in my.todo /\ my.phase = "batch"
  /\ my' = [my EXCEPT !.todo = @ \ {g}, !.due = TRUE,
                      !.phase = IF ends THEN "stopping" ELSE @]
  /\ Goto("save")
  /\ UNCHANGED <<Files, World>>

(* The rest of one iteration: save the file, publish when it is due. *)
SaveItem ==
  /\ At("save")
  /\ Write(my.cp)
  /\ Goto(IF my.due THEN "capture" ELSE "loop")
  /\ UNCHANGED <<pending, my, World>>

(* No game, request or time is left: the final save and publication. *)
Finish ==
  /\ At("loop")
  /\ Write(my.cp)
  /\ my' = [my EXCEPT !.phase = "final"]
  /\ Goto("capture")
  /\ UNCHANGED <<pending, World>>
--------------------------------------------------------------------------------
(* dispatch_content_event *)

Announceable(row) == row.count \in Hot /\ row.dated = TRUE

Gate ==
  LET g == my.game
      c == my.cp.results[g].count
  IN /\ At("gate")
     /\ IF ~Announceable(my.cp.results[g]) \/ Delivered(my.cp, g)
        THEN Goto(my.after) /\ UNCHANGED my
        ELSE IF Primary
        THEN /\ my' = [my EXCEPT !.signature = c, !.stage = "intent",
                         !.cp.dispatches[g] = [signature |-> c, status |-> "pending"]]
             /\ Goto("artifacts")
        ELSE my' = [my EXCEPT !.signature = c] /\ Goto("send")
     /\ UNCHANGED <<Files, World>>

(* After the intent is acknowledged: is it still the accepted observation? *)
NotChecked(d, g, c) == d.results[g] = NoRow /\ c = None                    \* a slip
Superseded(d, g, c) == ~Announceable(d.results[g]) \/ d.results[g].count # c

Confirm ==
  /\ At("confirm")
  /\ Goto(IF \/ my.cp.dispatches[my.game] = [signature |-> my.signature, status |-> "dispatched"]
             \/ Superseded(my.cp, my.game, my.signature)
          THEN my.after ELSE "send")
  /\ UNCHANGED <<my, Files, World>>

(* Only GitHub's 204 is a delivery. *)
AnyAnswer(accepted, answered) ==                                          \* a slip
  IF accepted \/ answered THEN "dispatched" ELSE "failed"
StatusOf(accepted, answered) == IF accepted /\ answered THEN "dispatched" ELSE "failed"

(* The post: accepted, refused, or accepted with its answer lost. *)
Post(accepted, answered) ==
  LET g == my.game
  IN /\ At("send")
     /\ IF accepted /\ answered THEN UNCHANGED faults
        ELSE faults < MaxFault /\ faults' = faults + 1
     /\ events' = IF accepted THEN events \cup {<<g, my.signature>>} ELSE events
     /\ my' = [my EXCEPT !.stage = "receipt",
                         !.cp.dispatches[g] = [signature |-> my.signature,
                                               status |-> StatusOf(accepted, answered)]]
     /\ Goto(IF Primary THEN "artifacts" ELSE my.after)
     /\ UNCHANGED <<remote, clock, Files>>
--------------------------------------------------------------------------------
(* persist_dispatch_state *)

Frozen(base, observed) ==
  [base |-> base, observed |-> observed, eligible |-> TRUE, acknowledged |-> Empty]

(* Replayable evidence first. *)
Artifacts ==
  /\ At("artifacts")
  /\ Write(my.cp)
  /\ pending' = Frozen(my.base, my.cp)
  /\ Goto("intent")
  /\ UNCHANGED <<my, World>>

(* The compare-and-set loop merges with whatever is newest, or gives up. *)
CommitIntent ==
  LET merged == MergeDoc(remote, my.base, my.cp)
  IN /\ At("intent")
     /\ Mergeable(remote, my.base, my.cp)
     /\ remote' = merged
     /\ my' = [my EXCEPT !.cp = merged, !.base = merged]
     /\ Goto("adopt")
     /\ UNCHANGED <<events, clock, faults, Files>>

(* An error leaves run_official_batch: the process ends. *)
RefuseIntent ==
  /\ At("intent")
  /\ ~Mergeable(remote, my.base, my.cp)
  /\ Goto("dead")
  /\ UNCHANGED <<my, Files, World>>

Adopt ==
  /\ At("adopt")
  /\ Write(my.cp)
  /\ Goto(IF my.stage = "intent" THEN "confirm" ELSE my.after)
  /\ UNCHANGED <<pending, my, World>>
--------------------------------------------------------------------------------
(* OfficialCheckpointPersistence.persist and publish_pending *)

Capture ==
  /\ At("capture")
  /\ pending' = Frozen(my.base, disk)
  /\ Goto("refresh")
  /\ UNCHANGED <<disk, saved, my, World>>

(* The checkout is reset to the newest files before the replay. *)
Refresh ==
  /\ pc \in {"refresh", "replay"}
  /\ Write(remote)
  /\ Goto(IF At("refresh") THEN "publish" ELSE "republish")
  /\ UNCHANGED <<pending, my, World>>

Publish ==
  LET merged == MergeDoc(remote, pending.base, pending.observed)
  IN /\ At("publish")
     /\ Mergeable(remote, pending.base, pending.observed)
     /\ remote' = merged
     /\ Write(merged)
     /\ Goto("acknowledge")
     /\ UNCHANGED <<pending, my, events, clock, faults>>

(* The worker adopts the merged files, its own and the other producers'. *)
Acknowledge ==
  /\ At("acknowledge")
  /\ pending' = [pending EXCEPT !.eligible = FALSE, !.acknowledged = disk]
  /\ my' = [my EXCEPT !.base = disk, !.cp = disk]
  /\ Goto(IF my.phase = "final" THEN "dead" ELSE "loop")
  /\ UNCHANGED <<disk, saved, World>>

(* A conflict, or an error before or after the files were accepted: the frozen
   files come back, and the batch stops. *)
PublishFails(accepted) ==
  LET possible == Mergeable(remote, pending.base, pending.observed)
  IN /\ At("publish")
     /\ accepted => possible
     /\ IF possible THEN faults < MaxFault /\ faults' = faults + 1 ELSE UNCHANGED faults
     /\ remote' = IF accepted THEN MergeDoc(remote, pending.base, pending.observed) ELSE remote
     /\ Write(pending.observed)
     /\ my' = [my EXCEPT !.phase = IF @ = "batch" THEN "stopping" ELSE @]
     /\ Goto(IF my.phase = "final" THEN "dead" ELSE "loop")
     /\ UNCHANGED <<pending, events, clock>>
--------------------------------------------------------------------------------
(* jobs/persist_official_checkpoint, after the worker's process has ended *)

(* Which batch to publish: the unacknowledged one, or what was saved since. *)
FrozenBatch ==                                                            \* a slip
  IF pending = NoFile THEN Frozen(my.head, disk) ELSE pending
NewestBatch ==
  IF pending = NoFile THEN Frozen(my.head, disk)
  ELSE IF pending.eligible \/ disk = pending.acknowledged THEN pending
  ELSE Frozen(pending.acknowledged, disk)

Recover ==
  /\ At("dead")
  /\ pending' = NewestBatch
  /\ Goto(IF NewestBatch.eligible THEN "replay" ELSE "recovered")
  /\ UNCHANGED <<my, disk, saved, World>>

Republish ==
  LET merged == MergeDoc(remote, pending.base, pending.observed)
  IN /\ At("republish")
     /\ Mergeable(remote, pending.base, pending.observed)
     /\ remote' = merged
     /\ Write(merged)
     /\ pending' = [pending EXCEPT !.eligible = FALSE, !.acknowledged = merged]
     /\ Goto("recovered")
     /\ UNCHANGED <<my, events, clock, faults>>

(* The batch is then only kept as an artifact of the workflow. *)
RecoveryFails ==
  /\ At("republish")
  /\ IF Mergeable(remote, pending.base, pending.observed)
     THEN faults < MaxFault /\ faults' = faults + 1 ELSE UNCHANGED faults
  /\ Goto("stuck")
  /\ UNCHANGED <<my, Files, remote, events, clock>>
--------------------------------------------------------------------------------
(* The environment *)

Running == pc \notin {"idle", "dead", "replay", "republish", "recovered", "stuck"}

(* The worker's process ends: killed, timed out, or an error nobody catches. *)
Crash ==
  /\ Running
  /\ faults < MaxFault /\ faults' = faults + 1
  /\ Goto("dead")
  /\ UNCHANGED <<remote, events, clock, my, Files>>

(* Another producer commits a newer count of a game. *)
OtherCommit(g, c) ==
  /\ clock < MaxTime /\ clock' = clock + 1
  /\ remote' = [remote EXCEPT !.results[g] =
                  [at |-> clock + 1, count |-> c, dated |-> c \in Hot]]
  /\ UNCHANGED <<events, faults, Files, Worker>>

WorkerStep ==
  \/ Begin
  \/ \E g \in Game, e \in BOOLEAN : Recheck(g, e) \/ RequestFails(g, e)
  \/ StartRetry \/ (\E g \in Game : RetryDispatch(g)) \/ StartQueue
  \/ \E g \in Game, c \in Count, e \in BOOLEAN : Observe(g, c, e)
  \/ SaveItem \/ Finish
  \/ Gate \/ Confirm \/ (\E a, n \in BOOLEAN : Post(a, n))
  \/ Artifacts \/ CommitIntent \/ RefuseIntent \/ Adopt
  \/ Capture \/ Refresh \/ Publish \/ Acknowledge \/ (\E a \in BOOLEAN : PublishFails(a))
  \/ Recover \/ Republish \/ RecoveryFails

Next == WorkerStep \/ Crash \/ (\E g \in Game, c \in Count : OtherCommit(g, c))

Spec == Init /\ [][Next]_vars

(* The workflow runs every hour and its steps are not suspended. *)
FairSpec == Spec /\ WF_vars(WorkerStep)
--------------------------------------------------------------------------------
(* Properties *)

Labels == {"idle", "recheck", "retry", "loop", "gate", "artifacts", "intent", "adopt", "confirm",
           "send", "save", "capture", "refresh", "publish", "acknowledge", "dead", "replay",
           "republish", "recovered", "stuck"}

(* The values the files and the memory hold; above all, no conflict marker is
   ever written (merge_official_checkpoint raises instead). *)
TypeOK ==
  /\ remote \in Doc /\ disk \in Doc
  /\ events \subseteq Game \X Hot
  /\ pending = NoFile \/ pending \in Batch
  /\ saved \subseteq Game \X (1..MaxTime)
  /\ my.cp \in Doc /\ my.base \in Doc /\ my.todo \subseteq Game
  /\ pc \in Labels /\ clock \in 0..MaxTime /\ faults \in 0..MaxFault

KeepsNewer == \A g \in Game : remote'.results[g].at >= remote.results[g].at

(* A late or replayed batch never puts an older count over a newer one
   (merge_official_checkpoint). *)
NewerSurvives == [][KeepsNewer]_vars

(* What this checkout ever saved is in the authoritative files, or something
   newer is, once the recovery step succeeds: "preserving every newer local
   observation before reset" (persist_official_checkpoint). *)
SavedIsPublished ==
  At("recovered") => \A f \in saved : remote.results[f[1]].at >= f[2]

(* "An external event may only refer to an acknowledged master/result"
   (dispatch_content_event): with the database, the intent and the announced
   count are accepted before the post, unless a newer count came after. *)
AnnouncedIsAccepted ==
  Primary /\ At("send") =>
    /\ remote.dispatches[my.game].signature = my.signature
    /\ \/ /\ Announceable(remote.results[my.game])
          /\ remote.results[my.game].count = my.signature
       \/ remote.results[my.game].at > my.cp.results[my.game].at

(* No event is posted again once its receipt is durable, whatever was retried. *)
NeverResent ==
  At("send") =>
    remote.dispatches[my.game] # [signature |-> my.signature, status |-> "dispatched"]

(* A durable receipt is true: GitHub has accepted that event. *)
ReceiptIsTrue ==
  \A g \in Game : remote.dispatches[g].status = "dispatched" =>
                    <<g, remote.dispatches[g].signature>> \in events

AllAnnounced == \A g \in Game : Announceable(remote.results[g]) => Delivered(remote, g)

(* Every accepted count that qualifies is announced in the end, or replaced:
   what a crash or a refused post left undone is retried by a later run
   (retry_pending_content_dispatches). *)
QualifiedIsAnnounced == []<>AllAnnounced
================================================================================
