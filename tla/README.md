# Game trend radar backend: TLA+ models and proofs

This directory holds a formal model of the backend: how collected data becomes
a committed snapshot in the primary database (Turso), how it reaches the standby
(D1) and the public Git branches, how the jobs that collect it share checkpoints
and survive their own deaths, and how the authority moved from Git to the
database. It contains TLA+ modules, TLC configurations and TLAPS proofs. Paths
below are relative to the repository; `radar_core` is
`src/packages/radar-core/src/radar_core`.

Status: the store with its lease, replication and projection, and the stateful
jobs beside it are modelled and checked. Proved for all constants are the safety of the
store, of replication, of the public projection and of the cutover with its evidence, that
the store and the lease implement their abstract specifications, and of every job beside them
its types and the safety properties that the runs check. Only liveness is left to the runs.
Section 3 has what is left.

## 1. The system

Hourly and daily GitHub Actions jobs of several repositories collect data about
games. Since the cutover to database authority they read and write *namespaces*
(sources) in one SQL database, through HTTP requests of one statement each.
Everything else follows from the database:

    collectors, workers            maintenance workflow (hourly)
          |  publish_patch           |  sync_replica      |  project_source
          v                          v                    v
    primary (Turso) -- outbox --> standby (D1)      public Git branches --> site
          |  operations, evidence, projections
          +-- garbage_collect, daily backup release

There is no server process: every component is a short-lived job, and all
coordination is by rows of the database (one lease row, one head row per
source), by Git's fast-forward rule and by the concurrency groups of the
workflows. Jobs overlap, are killed by time budgets, and see requests fail after
they took effect. Most of them keep a checkpoint, freeze what they have collected
as a batch, and merge that batch into whatever the checkpoint has become; the
batch survives as an artifact and may be submitted again.

| Component | State | Operations | Hard parts |
| --- | --- | --- | --- |
| primary document store (`storage/primary_store.py`, `storage/documents.py`) | lease, heads, objects, chunks, outbox, operations, projections, evidence | `publish_patch`, `pin_evidence`, `release_evidence`, `acknowledge_projection`, `_ack`, `garbage_collect` | a client suspended past its lease; statements that execute late or twice; a collector with a stale plan |
| storage lease (`primary_store.Lease`, `storage/sql.py`) | owner, fence, expiry by the database clock; a client's attempts and budget | acquire, renew, release | lost answers, late statements, bounded waiting |
| replication (`documents.sync_replica`, `scripts/storage_sync.py`) | standby's heads, graphs and metadata | `sync_replica`, `install_metadata`, `verify_heads` | overlapping passes; lost acknowledgements; collection at both ends |
| Git projection (`publication.py`, `storage/primary.py`, `scripts/storage_project.py`) | checkouts, public branch, pending operations | `publish_with_retry`, `GitPrimary`, `project_source` | racing pushes; death between commit, push and acknowledgement |
| publication to shared branches (`publication.py`) | work tree, index, branch | `publish_with_retry`, `GitPublication` | pushes given up that still arrive; files of other owners |
| legacy ingestion, activation, cutover (`scripts/storage_sync.py`, `scripts/database_primary_control.py`, `scripts/storage_legacy_evidence.py`) | source policy, runtime flags, imported evidence | `ingest`, `activate_primary`, `cutover`, `resume`, `import_legacy_evidence` | a writer that is still running; a control job that stops half way |
| backup and restore (`storage/backup_release.py`) | exports, releases, restored database | `publish_backup`, `restore_backup` | uploads with lost answers, two exporters |
| official Followers worker (`radar_backend/application/official_followers.py`) | checkpoint, master, recovery batch | `run_official_batch`, `persist_official_checkpoint` | death between an observation and its publication |
| official queue (`domain/official_queue.py`, `domain/twitch_official_queue.py`) | pending rows, attempts | `make_queue`, Twitch reconciliation | rotation and priority without starvation |
| cooldowns (`state/growth_checkpoint.py`, `state/official_followers.py`) | shared 429 deadline | `CooldownStore`, `merge_growth_checkpoint` | replayed batches against newer failures |
| official group resolution (`application/official_groups.py`) | group receipts, API cooldown | the hourly and the growth collector | answers about rows that have changed |
| follower checkpoint (`collectors/steam_upcoming.py`, `adapters/github_contents_checkpoint.py`) | remote checkpoint, local cache | `qualify`, `merge_remote`, `persist_database_follower_checkpoint` | conflict, retry, repeated batch |
| daily candidates (`application/candidates.py`, `publication/daily_state.py`) | four progress files and a cache | `execute_pipeline`, freeze, publish, replay | resumption, resets, stitching two passes |
| growth collection (`application/growth.py`, `publication/growth.py`) | checkpoint, public history, report | collection, two deliveries, the report | a report about a catalogue that has moved |
| Twitch intake (`application/twitch_intake.py`) | import state, master rows | `collect`, `dispatch`, application of batches | evidence written by others in between |
| content dispatch (`application/content_dispatch.py`) | dispatch registry | `dispatch_content_event` | at least once, superseded intents |
| public catalogue (`application/public_shards.py`, `publication/steam.py`, `scripts/audit_published_release_dates.py`) | public files | `build`, `publish_catalog`, audit | a frozen master over newer public files |
| recent launches (`scripts/publish_steam_preview.py`) | caches of proofs, the preview | the weekly preview | failure half way, counts reused |
| merges (`state/official_merge.py`, `publication/official_checkpoint.py`, `state/growth_checkpoint.py`) | none (pure) | three-way merges | old workers against newer evidence |
| titles, metadata, job results, source scopes, scheduler status, candidate supervisor, other collectors and scripts | none or files | transformations, HTTP | not modelled (section 7) |

What makes each correct:

* **Store.** The head, every pinned snapshot, every operation Git has not shown
  and every event the standby has not acknowledged can always be read. A source
  is an append-only history; an operation takes effect at most once, on top of
  the generation it was merged with. Events are acknowledged in order without
  gaps.
* **Lease.** A client that believes it holds the lease by some number is the only
  one with that number, and a write is accepted only in the tenure it belongs to.
* **Replication.** An event is acknowledged only when the standby has that
  generation or a later one; the standby is always a state the primary had, can
  be decoded, never goes back and raises no false alarm; the backlog drains.
* **Projection, shared branches.** The public files are always those of one
  committed generation and never of an older one than before; an operation counts
  as projected only when a public commit shows it; what is pending is shown in
  the end. A publisher changes no file it does not own, and what a push was
  acknowledged for is on the branch.
* **Cutover.** A source never has two kinds of writers; whatever Git said when
  it lost its authority is in the database, the evidence of admissions included.
* **Backup.** A receipt names only whole files; a proven backup is not replaced.
* **Worker, merges, checkpoints.** What was recorded is published once; merging
  is insensitive to replay and never loses newer evidence; no worker shortens
  another's cooldown; what a collector was told is saved is saved.
* **Queue, groups.** Every candidate gets its turn and none is lost; a known group
  is not forgotten; a refused API is left alone for as long as it asked.
* **Daily screening, growth.** A handoff holds the files of one pass; progress
  survives; a screening that starts is finished; a report says "complete" only
  when the day's games are covered and public.
* **Content dispatch, Twitch.** Every qualified result is announced at least once,
  never with a superseded payload after a newer one was accepted; a receipt is of
  something that was sent.
* **Catalogue, launches.** The lists agree with one another and with the adult
  ledger, newer dates and counts survive; a launch is shown on a proof only.

## 2. Modules

| Module | Models | Notes |
| --- | --- | --- |
| `VersionedSource` | what the store promises about one source | abstract specification: `Effect`, `NoEffect` |
| `PrimaryStore` | the store of one activated source, one action per SQL statement | refines `VersionedSource` |
| `PrimaryStoreInv` | the inductive invariant `IInv` of `PrimaryStore` | checked by run `pin`, used by the proofs |
| `FencedLease` | what the lease promises | abstract specification |
| `StorageLease` | the lease over its transport, with clocks | refines `FencedLease` |
| `PrimaryStore_proofs`, `Replication_proofs`, `GitProjection_proofs`, `Cutover_proofs`, `OfficialCheckpoint_proofs`, `Jobs_proofs`, `SteamQueues_proofs`, `Workers_proofs` | proofs | section 6 |
| `Replication` | passes from the primary to the standby, both collectors | primary calls are single steps |
| `GitProjection` | `publish_with_retry` over a `GitPrimary`, `project_source`, the public branch | primary calls are single steps |
| `OwnedPublication` | the same loop without a database: index, work tree, scopes | several publishers on one branch |
| `Cutover` | control job, import, writers and their flags | |
| `LegacyEvidence` | evidence of the admissions through the cutover | |
| `BackupRelease` | export, release, restoration | |
| `OfficialCheckpoint` | the hourly Followers worker, its checkpoints, announcements and recovery | one runner at a time, other producers |
| `OfficialQueue` | the queue of that worker | liveness |
| `CommunityCooldown` | the shared cooldown under merges and replays | |
| `GroupResolution` | the groups of the games | |
| `FollowerCheckpoint` | the older Followers collectors over one checkpoint | Git and database |
| `DailyCandidates` | the daily screening and its handoff | liveness |
| `GrowthReport` | the daily growth collection and its report | |
| `TwitchIntake` | admission of games that Twitch found | |
| `PublicCatalog` | the public catalogue and its other writers | |
| `RecentLaunches` | the release calendar's launches | |
| `Jobs` | an instance each of `GrowthReport`, `FollowerCheckpoint`, `BackupRelease`, `RecentLaunches`, `OwnedPublication`, `PublicCatalog` and `LegacyEvidence` | what `Jobs_proofs` is about |
| `SteamQueues` | an instance each of `DailyCandidates`, `OfficialQueue`, `CommunityCooldown`, `TwitchIntake` and `GroupResolution` | what `SteamQueues_proofs` is about |
| `Workers` | all the jobs beside the store and the lease | composition of the other modules; extends `Jobs`, `SteamQueues` and `StorageLease` |
| `MCPrimaryStore`, `MCReplication`, `MCWorkers` | instances for the passing runs | section 4 |
| `MCGitProjection`, `MCOfficialCheckpoint`, `MCDailyCandidates`, `MCCommunityCooldown` | instances for the findings | section 5 |

The definitions marked "a slip" are plausible mistakes of the operator that
follows or precedes them (a dropped fence, an acknowledgement of one event instead
of all up to it, a root set without pins). No action uses them. They confirm that
each property fails when the definition is exchanged for its slip, that is, that
the property depends on what the code does.

### PrimaryStore

State: `lease` is the row of `radar_leases`; `head` of `radar_sources`; `objects`,
`chunks`, `outbox`, `operations`, `projections` and `evidence` the tables of those
names; `wire` the head CAS statements that were sent and may still be evaluated;
`pc` and `my` the position and local values of each client.

Each client runs a call: `PublishPatch`, `GarbageCollect`, `Acknowledge` (the
primary's side of `sync_replica`), `AcknowledgeProjection`, `PinEvidence`,
`ReleaseEvidence`. A call acquires the lease (`Acquire`) and then executes its
statements one by one; each checks what the schema's triggers check: a valid
proof (`Valid`, `_valid` in the code), and for stamps and deletes a live lease of
a collecting purpose (`GcLive`). `Leave` is the end of the `with` block, normal
or by any exception, at any point, with a release that may be lost; dying is the
same as far as the database can tell. `Expire` is time: a lease may run out
between any two statements, so a client may always turn out to be fenced at its
next write, and nothing tells it before. `Deliver` evaluates a head CAS that was
sent, possibly late and possibly again, because `_advance` reads the head after
an error and the transport repeats requests.

Abstractions and why they are sound:

* one source. The lease and the collector are global, but another source only
  adds roots; sharing objects between sources has the same effect as sharing them
  between generations of one.
* A fence stands for the pair (owner, fence): every takeover increments it.
* An object has one chunk with its name. Chunk order inside one object and
  groups of fifty digests per statement are collapsed.
* Capture times are left out: `publish_patch` clamps them to the head's, so they
  never reject a CAS.
* Readers hold "read" leases; they write nothing and their tenure is an idle one.
* Evidence is the set of pinned manifests; `EVIDENCE_CONFLICT`,
  `OPERATION_CONFLICT` and argument checks reject calls without a change.
  Pins select one path. Pinning again what is already pinned changes nothing.
* A manifest history row (`radar_revisions`) never decides anything in an
  activated source.

### Replication

State of the primary: `history` (the manifest of each generation, which receipts
preserve), `outbox`, `acked`, `pending`, `pins`. State of the standby: `rhead`,
`stored` (complete graphs), `rpending`, `rpins`. `reader` and `rholder` are the passes
that hold the live lease of the primary and of the standby.

A pass is `CaptureHeads`, `CaptureEvents`, then per source `BeginReplicate`,
`CompareAhead` or `CompareBehind`, `PutGraph`, `Readback`, `Advance`, `Ack`; then the
sweep `ReadMetadata`, `ReadRoots`, `PutRoots`, `ReadbackRoots`, `InstallOperation`,
`InstallEvidence`, `SelectReleased`, `DropEvidence`; then `CountPending` and
`VerifyHeads`. `FailSource` and `FailSweep` are the `except StorageError` branches:
forced when a guard of the next statement cannot hold any more, otherwise one of
`MaxFault` errors. `Advance` may lose its response. `Crash` kills a pass.
`LapseStandby` and `LapsePrimary` let a lease run out under its holder.

The primary's operations are the steps of `PrimaryStore` seen as calls, which is
what `ImplementsSource` and `RetainedAlways` justify. A manifest stands for its
whole graph: `_put_graph` and `_graph` are one step each, and the standby's
collector removes one graph per step in any order. The state `alarm` is reached
where the code raises `REPLICA_AHEAD`, `REPLICA_CONFLICT` or `REPLICA_MISMATCH`.
Sources activated before receipts existed have no receipt for their first
generation only; sources with a long legacy history are not covered. The copy of
the source policy and of the projections table is left out (the latter names no
roots).

### GitProjection

State: `history` and `receipts` of the database, `projections`, the branch `remote`,
and each job's position and checkout. A revision is the sequence of its commits,
so equality, ancestry and fast-forward are Git's. Only managed files are kept: the
tree of a commit is a tree of the database. `OtherCommit` is any push of
unmanaged files. Publishers run `publish_with_retry` with a frozen batch:
`BeginPublication`, `Fetch`, `Hydrate`, one of `CommitOperation`, `CommitRepeated`,
`CommitStale`, then `ProjectCommitted`, `PushAccepted` or `PushRejected`,
`ListPending`, `AcknowledgeProjection`, `Finish`. The maintenance job's
`project_source` is the same without the commit. A push may be accepted without an
answer; `Crash` kills a job anywhere; the same batch may be submitted again.
`PROJECTION_MISMATCH` cannot arise because receipts identify every later generation.
The mode without a database and the checks of path scopes are in `OwnedPublication`.

### OfficialCheckpoint

State: `remote` is the authoritative checkpoint (the database, or the main
branch); `disk` and `pending` are the checkpoint file and the recovery batch in the
runner's checkout, which survive the worker's process; `my` is that process's memory
(`cp` its checkpoint, `base` the publisher's baseline); `events` is what GitHub
accepted. `saved` records, for the properties only, what the file has held.

A run is `Begin`, the Store rechecks (`Recheck`), the retried announcements
(`RetryDispatch`), then the loop of `run_official_batch`: `Observe` or `RequestFails`,
the announcement if the count qualifies, `SaveItem`, and when due a publication
`Capture`, `Refresh`, `Publish` or `PublishFails`, `Acknowledge`; at last `Finish`. An
announcement is `Gate`, with the database `Artifacts`, `CommitIntent` or `RefuseIntent`,
`Adopt` and `Confirm`, then `Post` and the same persistence for the receipt. The
workflow's last step is `Recover`, `Refresh`, `Republish` or `RecoveryFails`. `Crash` ends
the process between any two steps. `OtherCommit` is another producer, which commits
a newer count.

A publication (a merge inside `publish_with_retry`) is one step on `remote`, and the
compare-and-set loop of `persist_dispatch_state` too: that is what `PrimaryStore` and
`GitProjection` show of them. A checkpoint keeps each game's result (observation
time, count, whether its date is exact) and its dispatch receipt; the merge is the
code's, field by field, conflicts included. The master list follows the same
merge rule and is left out, as are attempt events and the limits of 25 rechecks and
retries per run; cooldowns and the order of the queue are `CommunityCooldown`'s and
`OfficialQueue`'s. The baseline that
recovery reads from `HEAD` is taken to be the hydrated files. Nothing protects the
checkout from the loss of the whole runner: then only the workflow's artifact is
left (`stuck` is the state in which recovery has failed).

### StorageLease and FencedLease

State: `now` is the database's clock, `row` the row of `radar_leases`, `sessions` the
`Lease` objects with the number they believe in and the time of their last renewal
as they reckon it, `wire` the statements that were sent and may still be executed,
`writer` the number of the last write the triggers accepted. A session enters
`maintenance` (`Enter`), sends `acquire`, `renew`, `check`, `recover`, `write` and
`release` statements, each answered (`Answer`), unanswered (`NoAnswer`: executed, late,
or never) or given up (`OutOfTime`), uses its lease (`Use`) and leaves (`Exit`).
`Late` executes a statement of a session that has gone on; `Tick` may come between any
two steps, so that delays are arbitrary, a superset of those the timeouts allow, and a
Retry-After is passing time. `begun` is the start of both the wait and the client's
budget. A "write" stands for any fenced statement. `FencedLease` is what the other
modules assume: tenures that do not overlap, each with a number of its own.
`PrimaryStore`'s lease covers an acquisition that is executed late: there it is a client
that acquires and dies.

### OwnedPublication

State: `log`, the trees of the branch; `wire`, pushes whose client gave up; and per
publisher a checkout with its head, index and work tree, the attempt and the receipt.
An attempt is `Refresh`, `Apply` (other code, which may touch by mistake what the
publisher does not own), `StageCommit` with the scope checks, and `Push`, which is
accepted, refused, or unanswered (`PushTimesOut`, `Late`); then `Retry` or the receipt.
`OtherCommit` is anyone else. JSON validity, symlinks and the deletion of a file by a
batch are left out; the database case is `GitProjection`.

### Cutover

State: the two `flags` of each repository and whether its reviewed workflow is deployed,
the runs of its `writers`, the import's run `sync`, what the writers have saved in `git`,
and the `sources` of the database. The control job is `Start` (after `validate_deployments`),
`Pause`, `Drain`, `Import`, `Activate`, `Inspect`, `Flag`, `Verify`, `Unpause`, and `Stop`
anywhere; an operator starts it again with `cutover` or `resume`. A run has the workflow of
the commit that triggered it, and evaluates the variables when its job begins (`Begun`),
which is when its authority is decided. `drain()` asks for the runs in progress before the
queued ones, so a run of an older workflow that begins in between would be missed; the
model takes a reviewed workflow to be deployed while none is queued (`Deploy`). "prepare",
secrets and the parsing of Git objects are left out.

### LegacyEvidence

The evidence of the Twitch admissions: `git` is what each commit of the frontend says,
`proofs` the live admissions and the commit each cites, `db` the frontend's namespace (head,
revisions, pins, objects) and the imported admissions, `job` the control job's part that
imports and pins them. `Sync` is the ordinary import, `Collect` the collector, which may
delete any objects that nothing needs, `Publish` a later operation. Manifests are named by
their contents; limits of size, time and requests, and an unknown generation, are `Fail`.
Draining and flags are `Cutover`'s. The frontend is activated first, as in the code. The
checks that a pin is stored, that nothing is active yet and that the two answers agree are
defence in depth: no behaviour of the model needs them.

### BackupRelease

State: `heads` of the sources, the `exports` made, the `releases` of each day with three
assets and a receipt, the run `job`, the export that a receipt was given for (`kept`), and
the `restorers` with their common `output`. A run reads the heads, the metadata and the
sources (`ReadHeads`, `ReadMetadata`, `Export`) while writers go on, looks for the day's release
or creates it, removes and uploads assets, confirms them and writes the receipt. Answers may
be lost, uploads broken, the run may die, and a release may be `Damage`d from outside. A
restorer imports and renames. Compression and the transport of private releases are abstracted.

### OfficialQueue

One hour at a time goes through the workflow's steps: `SyncTwitch`, `ResolveGroups`,
`MakeQueue`, `Ask` (every kind of answer), `SaveCounts`, `FinalSave`, `SyncTwitch`; `Die` ends
it anywhere. The day's screening (`List`) and the Twitch importer (`Report`) change their lists
at any time. `Before` is the code's sort key: unfailed games first, then the oldest failure,
Twitch before the others. The position of an attempt in the list stands for its time.

### CommunityCooldown

The fields that say how long Community must be left alone, merged by
`merge_growth_checkpoint`. A worker reads, asks or is refused, freezes its fields as a batch
and saves them; a kept batch may be submitted again at any time. A refusal ends the batch, but
for the growth collection's 429, which only blocks its next games. The failure counters only
lengthen the wait, which is chosen; the two spellings of the deadline are one field.
`FailureIsKept` is the docstring of the merge, which finding 5 refutes; `AnswersAreKept` says
what is true of it: of the workers' own saves it holds, and no batch takes a success back.

### GroupResolution

State: `state`, the published checkpoint (queue rows with their receipts, growth identities,
the API's cooldown), and the running collector `asking`. `StartHourly` and `StartGrowth` freeze
the rows, `Ask` asks in order until the API stops it, `EndBatch` is the time budget, `ApplyBatch`
applies what was found to the newest checkpoint, `SaveGrowth` merges the growth collection's own
receipts; `Redate`, `List`, `Leave`, `Count` are others who write the same rows. The askers
share a concurrency group. The hourly batch is recomputed on the newest checkpoint, hence one
step. A row's edition stands for its fingerprint; a missing key retries after one unit;
`AnotherPass` keeps the budget of requests. `Backoff` doubles from failure to failure up to its
longest wait.

### FollowerCheckpoint

Several collectors share a checkpoint, over the Contents API or the database (`primary`). One
fetches, reuses or is refused, and saves every few observations: `Read`, `Write` with a lost
answer or a `Conflict`, and `Exit`. The merge keeps the newest observation. `observed` records,
for the properties only, what each collector saw. The local cache file, merged at the start, and
a repeated receipt within one second are left out.

### DailyCandidates

State: the `published` files, those on `disk`, the `run`, a `kept` batch, the day and the
exclusion `ledger`. A run is `Start` (by a slot or an operator), `Reset`, `Capture`, some `Pass`es
of `execute_pipeline` (each may die between two of its files: `PassDies`), `Freeze`, `Publish`;
`Replay` submits the kept batch again; `Exclude` adds a game to the ledger. The head window of
states older than `fresh_state`, and the repair of the first bulk parser, are left out.

### GrowthReport

State: the public `catalog`, `identity` and `counted` of the checkpoint, `shown` of the public
history, the running `collector` with its report, and the stamped `verdict`. Rows are measured
(`Row`) through groups that may change meanwhile; the report goes through two deliveries
(`DeliverCheckpoint`, `Publish`), each recomputing it on what has become durable, and a failed
delivery leaves it incomplete. `Again` is another pass of `growth_daily`. Rows and identities
saved at once are the database's mode. `truth` is what the deliveries met, for the property.

### TwitchIntake

State: what Twitch `discovered`, the Steam `master`, the `adult` ledger, the importer's state
`intake`, its cooldown, the `job`, and what the content backend was sent. `Start` freezes;
`Unasked`, `Verify`, `Exclude`, `Fail`, `Limit` are the outcomes for one game; `Apply` applies the
batch to the newest rows; `Freeze`, `Post` and `Save` announce admitted rows and keep receipts.
Dates, counts, adult evidence and discoveries change at any time. The HTTP adapter is left out.

### PublicCatalog

State: the private `master`, the `public` files, the `publisher` with its frozen copy and what
it built, the `auditor`. A publication is `Freeze`, then `Fetch` and `Push` until a push is
accepted; `Refresh` (the site's own backend) and `AuditPushes` are the others. `Built` is the
merge of the frozen rows with the public ones, `Origins` the activity origins. Games shown with
fewer than 5000 Followers, the cut at 1000 events and the layout of the shards are left out. An
existing row that cannot be published drops its newer date; the withdrawal of a date by the
audit does not bind a master row that shows the date in full; the audit's lists omit titles of
Twitch games: the model does the same.

### RecentLaunches

State: the `store`, the Followers checkpoint `cached`, the committed state `saved`, the public
`preview` and the `job`. A run tracks followed games, searches for launches, reuses or asks for
counts, admits and drops (`Search`, `Drop`, `Reuse`, `Ask`, `Admit`), saves its state and then
publishes; it may stop anywhere. `counts` records what was counted, for the property. The two
freshness limits of 20 and 24 hours are one `DayLength`. A followed game that is announced
again for a later date returns to the announcements, and stays among the launches until its
old date leaves the month.

### Jobs and Workers

These components share no variable as far as they are modelled: each takes the merges and
publications of the others as changes of its own environment. A behaviour in which all are
at work is therefore one of each alone, interleaved, and an invariant, an action property or
a liveness property of one component holds in it iff it holds of that component alone.
`Workers` has an instance of each (`Jobs` declares seven of them, `SteamQueues` five): `scenario` names the one at
work, the variables of the others are "off". What an instance is given is a constant, and
`MCWorkers` only gives values. The properties of `Workers` join the modules' properties that say the
same of different components:

| Property | Conjuncts |
| --- | --- |
| `NewerSurvives` | hourly counts, projected trees, dates and counts of the catalogue, proven backups |
| `ReceiptIsTrue` | receipts of the hourly worker and of the Twitch job, activity origins, what the database says of a commit |
| `AcknowledgedIsSaved` | follower checkpoint, backup |
| `AcknowledgedIsPublic` | projections, owned files |
| `EvidenceIsKept` | Twitch evidence, launches, groups |
| `FailureIsKept` | the Community cooldown, the API's cooldown |
| `OneAuthority` | writers of a source, owners of a file |
| `NothingIsLeftBehind` | what writers saved, what admissions rest on |

## 3. Plan

Done: everything in the table of section 2. What is left, in order of its worth:

1. The merge and the cut of the hourly worker's attempt events, whose times order the queue.
2. `verify_snapshots`, the local SQLite export and the D1 client's differences.

## 4. Runs

| Run | Configuration | Question | Instance |
| --- | --- | --- | --- |
| publish | `MCPublish` | does the store implement `VersionedSource`? | two publishers, three operations (one undoes another), 4 leases |
| acknowledge | `MCAcknowledge` | are events collected in order? what do acknowledged Git revisions mean? | publisher, courier, collector with `max_delete` 1, two revisions, 4 leases |
| pin | `MCPin` | is everything promised readable? is `IInv` invariant? | publisher, collector, courier, pinner, two operations, two files initially, 3 leases |
| overlap | `MCOverlap` | do overlapping passes keep the standby right? | two passes, three generations, one fault, one lapse |
| drain | `MCDrain` | does the backlog drain? can the standby's metadata name a missing graph? | two sources, one pass, `max_events` 1, one fault; pins while one source publishes |
| jobs | `MCJobs` | are the jobs beside the store safe? | sixteen scenarios, below |
| recover | `MCRecover` | does what must happen happen in the end? | four scenarios, below |
| lapse | `MCLapse` | does success mean verified when a read lease lapses? | finding 1 |
| undo | `MCUndo` | is what is pending shown when operations undo each other? | finding 2 |
| interrupt | `MCInterrupt` | does recovery keep what was saved, with the database? | finding 3 |
| stall | `MCStall` | is a screening finished when a game is excluded meanwhile? | finding 4 |
| erase | `MCErase` | is a failure kept when batches are submitted again? | finding 5 |

The scenarios of `jobs` (3.1 million states together) and of `recover` (0.7 million):

| Scenario | Module | Instance |
| --- | --- | --- |
| git | `OfficialCheckpoint`, no database | two games, two counts, three observations, two faults, a publication every two |
| database | `OfficialCheckpoint`, database | three counts of which two qualify, two observations, two faults |
| race, lossy | `GitProjection` | two publishers; three batches that undo one another, or two and a lost answer |
| repair | `GitProjection` | a publisher and the maintenance job; two faults in `recover`, one and a foreign commit in `jobs` |
| daily | `DailyCandidates` | two games, a window of one, four passes, two days, an operator's run, a fault |
| queue | `OfficialQueue` | a frozen game and one both listed and tracked, one request an hour, three events |
| cooldown | `CommunityCooldown` | waits of 1 and 2, four times, one kept batch, one loss |
| growth | `GrowthReport` | two games, days of two hours, receipts of two hours, an upset, an edit |
| followers | `FollowerCheckpoint` | two collectors, one game, a save every two, two attempts, four times, a failure |
| twitch | `TwitchIntake` | one game, seven times, three updates by others, a mishap |
| cutover | `Cutover` | two repositories, two sources (one shared by both writers), three control jobs |
| backup | `BackupRelease` | one source of two generations, two days, two exports, two restorers, two troubles |
| catalog | `PublicCatalog` | two games, two days, two publications of two attempts, one foreign push |
| lease | `StorageLease` | two sessions, a life of 2, a wait of 3, two attempts, a lost answer |
| launches | `RecentLaunches` | one game, days of two, five times, two runs, a change |
| owned | `OwnedPublication` | two publishers of two files each, one of them shared, a trouble |
| groups | `GroupResolution` | two games, one request a run, waits of 1 and 2, three times, an edit, a dead run |
| evidence | `LegacyEvidence` | two contents, two commits, two admissions, three control jobs |

Bounds, and why they are enough for the questions:

* `MaxFence` 4 (3 in `MCPin`) allows as many tenures: the shortest failures of the
  store need a writer or collector whose lease lapsed, a second tenure that
  changes what it relied on, and sometimes a third that observes it. The proofs
  remove the bound for `RetainedComplete`.
* Two paths and two contents make one content shared by generations, revived
  after it became garbage, and absent files; `o3` undoes `o1`, so that a
  manifest repeats under a new generation.
* `MaxGeneration` 3: a target, a generation beyond it, and one beyond what was
  captured. Two passes are what the two triggers of the workflow can start.
* Faults, lapses, losses and foreign commits: one or two are enough to have a failure
  inside the recovery from a failure. Two attempts are a first and a last one.
* Observations and clocks: one observation in a batch, one after its publication, and one
  by another producer between them; a deadline that ends while a batch is kept; a count
  that becomes too old between two runs.
* Two games make a conflict in one visible in the other. Where a rule concerns one game
  only (Twitch admission, launches, follower records) one suffices.
* Three control jobs: one that stops half way, one that stops in the repair, one that ends it.
* A life of 2 and a wait of 3 in `StorageLease` let a session acquire, renew, be forgotten and
  wait beyond another's tenure; the proofs remove these bounds.

`CHECK_DEADLOCK FALSE` is set because the bounded resources end: leases, clocks, generations,
attempts, faults, days.

Symmetry is used for interchangeable Git revisions (`acknowledge`) and passes (`overlap`),
never where a liveness property is checked. In the hourly worker's scenarios the games are
interchangeable, and `FirstOfG1` lets the first observation be of the first game; a behaviour
whose first observation is of the other is one of these with the names exchanged, and no
property names a game. `MCDrain` restricts the primary's clients (`OneConcern`): while something
is pinned only one source has published. It never disables a step of a pass, so every behaviour
it keeps is a behaviour of the model.

Fairness, always weak:

* `Replication`: each pass's steps; the workflow is scheduled hourly and a job runs until it ends.
* `GitProjection`: the maintenance job's steps only; a publisher may stop for ever.
* `OfficialCheckpoint` with the database: the worker and its workflow, which cron starts every hour.
* `DailyCandidates`: the steps of a run that has begun, and the six-hourly check of a slot (`SlotCheck`).
  An operator's runs, replays and exclusions are not fair.
* `OfficialQueue`: the start of the next hour, the steps of an hour that has begun, and the end of a
  cooldown, which is time. What is listed or tracked may change or not.

Errors are finite in number, which is what "retried until it succeeds" needs. No fairness is
assumed elsewhere.

## 5. Findings

1. *Success without verification* (run `lapse`, property `SyncVerified`). The
   documentation says that a sync is confirmed only after the complete data was
   read back (`docs/database-storage.md`, "D1 必須讀回並驗證完整資料後才確認同步成功").
   `sync_replica` reads `metadata_snapshot` and then `retained_roots` under one read
   lease of 120 seconds that is neither renewed nor checked between the two. If it
   lapses there and a projection is acknowledged in between, an operation is
   installed as pending although its graph was not copied. The pass reports
   success, and the standby's collector stops with `MISSING_OBJECT` until the next
   sweep. Without a lapse the property's invariant form `StandbyRootsDecode` holds
   (run `drain`, theorem `RootsAlways`).
2. *An undone operation stays pending* (run `undo`, property `PendingIsShown`). When
   operations whose pushes failed return the source to the tree of an
   acknowledged revision, hydrating commits nothing, the old revision is pushed
   again and offered for the new generation, and `acknowledge_projection` answers
   `PROJECTION_CONFLICT`, at every run, until some operation changes a file. The
   documentation promises that the maintenance job publishes what is pending.
   Without undoing the property holds (run `recover`).
3. *Observations lost after an announcement* (run `interrupt`, property
   `SavedIsPublished`). With the database, `persist_dispatch_state` leaves a recovery
   batch that nothing marks as acknowledged. When the runner stops after saving
   later observations and before the next publication, the recovery step replays
   that batch and resets the checkpoint file, and the later observations are gone,
   contrary to the comment in `jobs/persist_official_checkpoint.py` ("preserving every
   newer local observation before reset"). Without a database the property holds
   (run `jobs`, theorem `SavedAlways`).
4. *A screening that cannot finish* (run `stall`, property `PrescreenFinishes`). The cursor of
   the third-party screening is an index into the rows that the exclusion ledger leaves. A game
   that enters the ledger while the screening is under way moves the rows behind it, the next
   window skips one of them, and `prescreen_window_complete` never holds: the phase stays
   "prefilter" for the rest of the day, contrary to the recovery checks described in
   `.github/workflows/steam-two-phase.yml`. While the ledger is unchanged every screening is
   finished (`PrescreenFinishesUnchanged`, run `recover`).
5. *A success that erases a newer failure* (run `erase`, property `FailureIsKept`). A temporary
   error leaves a deadline and no time of its own. The merge protects that deadline only while
   the newest failure is absent or the one of the batch's baseline. After an older 429 was merged
   from another kept batch, or by an earlier save of the batch itself, submitting the batch of a
   success again clears the deadline of an error that came later, contrary to the docstring of
   `merge_growth_checkpoint` ("a stale success cannot erase a newer failure"). One kept batch is
   enough: a growth collection that begins under a deadline, saves a 429 and then has a success
   whose saves all fail. As long as no batch is kept the property holds (run `jobs`, theorem `AnswersKept`).

`drain()` has one more gap that no run shows: it asks for runs in progress before it asks for queued
ones. A run of a workflow that does not heed the pause, queued under an older commit, is missed
when it begins between the two questions. The model excludes it in `Deploy`.

## 6. Proofs

`PrimaryStore_proofs` proves, for any sets of clients, operations, paths and
contents, any `ChangeOf`, and any bounds:

* `TypeCorrect`: `Spec => []TypeOK`;
* `InvAlways`: `Spec => []IInv`;
* `RetainedAlways`: `Spec => []RetainedComplete`;
* `ChunksAlways`: `Spec => []ObjectsHaveChunks`;
* `StampedAlways`: `Spec => []StampedIsGarbage`;
* `SuffixAlways`: `Spec => []QueueIsSuffix`;
* `ResolvesAlways`: `Spec => []ProjectionResolves`;
* `StoreIsVersioned`: `Spec => ImplementsSource`.

The only assumption is `ConstantsAssumption` of `PrimaryStore`: what the constants
range over, that the initial tree is a tree, that no Git revision is the empty
value, and that `max_delete` is positive (the code rejects others). The sets need
not be finite, and the roles need not be disjoint.

`RetainedComplete` is not inductive: a collector's plan, a publisher's staging and
a CAS on its way all carry promises about the future. `IInv` (in
`PrimaryStoreInv`) makes them explicit. Its central idea is the *tenure* of the
live lease. Within one tenure only the holder can add a root or delete a row.
While a writer holds it, nothing is deleted, so what it read, found or staged
stays readable until its CAS (`Merged`, `Frozen`, `Staged`, `WireOK`). While a
collector holds it, no root is added, roots only shrink, so what it planned to
delete stays garbage until deleted (`Planned`, `StampedUnrooted`). When a tenure
ends, its promises end too: fences keep its late statements from taking effect
(`FencesOK`, `StampsOK`). The exception is the DELETE of evidence, which no trigger
guards; it only removes roots and is harmless (`RootsShrink`).

The proof has one lemma per conjunct of `IInv` and kind of step (calls, leasing,
statements, deliveries): `Fences...`, `Jobs...`, `Wire...`, `Stamps...`, `Tenure...`,
`Garbage...`, `Retained...`, and joins them in `InvNext`. Types come first. Run `pin`
checks the same `IInv` on an instance.

The last part adds `LedgerInv`, which is inductive together with `IInv`.
`QueueIsSuffix` needs no help: acknowledging takes a prefix, collecting takes only what is
acknowledged, and a new event is the last. `ProjectionResolves` needs `ShownOK`: a courier
between its check and its update offers a commit for a generation that contains its operation,
and while its tenure lasts nobody else can give that commit another meaning. The refinement maps
the abstract history to the receipts that made the generations (`History`, `Published`).
`HistoryOK` says that each generation after the first was made by exactly one operation, so the
history is a sequence (`HistoryShape`) that only grows (`EntriesStay`). `MergedOK` says that a
tree merged into a generation remains that generation's successor as long as the head has not
moved, for clients and for CAS statements on their way, fenced or not: the head row never
changes without its generation. An evaluated CAS is then the step `Effect` (`SourceEffect`), the
receipt of an unchanged tree is `NoEffect` (`SourceNoEffect`, where the tenure is needed: the
receipt names the head that was read), and every other step is a stutter (`SourceStutters`).

The second part of `Workers_proofs` proves of the lease, from `LeaseAssumption` (there is a
session, times and counts are natural numbers):

* `LeaseTypeCorrect`: `LeaseSpec => []LeaseTypeOK`;
* `TenureAlways`: `LeaseSpec => []TenureIsOwn`;
* `LeaseIsFenced`: `LeaseSpec => ImplementsLease`.

All that happens in the database is `Execute`, so the argument is about one statement. An
acquisition increments the number of the row, hence a new tenure has a number that no session
and no statement on its way carries; a renewal or a release is obeyed only with the owner and
the number of the row. Therefore numbers are never above the row's, and whoever has the row's
number is its owner (`TenureIsOwn`, which is inductive together with the types). The
refinement maps the row's number to the tenures, and a live row to the holder: taking is the
acquisition of a row that is not live, ending is a release or time, a write is one that
`Valid` accepts.

`Replication_proofs` proves, from `ReplicationAssumption` (the pins are manifests, generations
and batches are positive numbers, no pass is the empty value), for any sources, passes and
manifests and any number of faults and lapses:

* `TypeCorrect`: `Spec => []TypeOK`;
* `AckedAlways`: `Spec => []AckedIsOnStandby`;
* `HistoryAlways`: `Spec => []StandbyIsHistory`;
* `DecodeAlways`: `Spec => []StandbyHeadsDecode`;
* `AlarmNever`: `Spec => []NoFalseAlarm`;
* `BackNever`: `Spec => NeverBack`;
* `RootsAlways`: `Spec /\ [](lapses = 0) => []StandbyRootsDecode`.

None of them is inductive alone: what a pass does to the standby depends on what it read
statements ago. `PassOK` says what it has made sure of at each statement, in terms of facts that
only grow: generations are never rewritten (`HistoryGrows`) and the standby's heads only advance
(`HeadsAdvance`), hence they remain true while other passes work (`PassStays`, `HeadsStay`). The
exception is the copied graph, which the standby's collector may take away; it stays only while
the pass holds the standby's lease (`Holds`), and that is why `PassOK` claims it only then. A
pass whose lease lapsed can no longer advance a head, because the trigger compares it
(`AdvanceKeeps`). `RootsAlways` needs its hypothesis, as finding 1 shows. Its invariant
`RootsInv` says of a sweep that between its two reads the primary stands still, for it has the
primary's lease, so that the operations and the evidence it is going to install are among the
roots that it copies, and stay copied while it holds the standby's.

`GitProjection_proofs` proves, from `ProjectionAssumption` (merging gives a tree, the
maintenance jobs are not publishers, there is at least one attempt):

* `TypeCorrect`: `Spec => []TypeOK`;
* `CommittedAlways`: `Spec => []PublicIsCommitted`;
* `AcknowledgedAlways`: `Spec => []AcknowledgedIsPublic`;
* `PublishedAlways`: `Spec => []PublishedIsAcknowledged`;
* `PublicAscends`: `Spec => PublicNeverBack`.

`PublicIsCommitted` speaks of the branch only, but what is pushed is a checkout. The invariant
therefore says of every checkout that it shows generations in ascending order (`Good`), which
holds because a generation is read after the branch was fetched: it is at least the one that the
checkout ends with. `JobOK` and `OwnOK` say what a job knows at each step; tables and branch only
grow (`Extends`), so they survive the steps of others (`JobStays`, `OwnStays`). The fast-forward
of a push makes the checkout an extension of the branch (`PushExtends`), and nothing is
acknowledged but a revision that the branch contains (`ShownOK`).

`Cutover_proofs` proves, from `CutoverAssumption` (there is a repository and a source, the bounds
are natural numbers):

* `TypeCorrect`: `Spec => []TypeOK`;
* `AuthorityAlways`: `Spec => []OneAuthority`;
* `LeftBehindNever`: `Spec => []NothingIsLeftBehind`.

`OneAuthority` needs to know why nobody runs between the activation of the first source and that
of the last. While every repository heeds the variables and is paused, no run that was not
working begins to work (`Calm`). So `drain()`, which looks at the repositories one after the
other, establishes `Quiet` at its end although each answer is old by then (`DrainKeeps`). `Quiet`
lasts from there to the last activation; Git does not move in it, hence what the final import has
read is all there is (`Ready`), and it also holds when the control job stops with only some
sources active (`Safe`): nobody runs until the cutover is started again and ends.

`OfficialCheckpoint_proofs` proves, from `CheckpointAssumption` (counts that qualify are
counts, the empty and the conflict value are no records, a publication is due after one
observation or more):

* `TypeCorrect`: `Spec => []TypeOK`;
* `SavedAlways`: `~Primary` implies `Spec => []SavedIsPublished`;
* `AnnouncedAlways`: `Spec => []AnnouncedIsAccepted`;
* `ResentNever`: `Spec => []NeverResent`;
* `ReceiptsAlways`: `Spec => []ReceiptIsTrue`;
* `NewerAlways`: `Spec => NewerSurvives`.

A worker, a recovery and a stale artifact all merge a batch into files that others have
changed. The invariant says of each batch that can still be merged that it `Fits`: it began with
files that the branch has since only replaced by newer ones, and the branch has each game's
dispatch record either of the batch's base or of its observations. Such a batch merges without
mixing fields and gives something at least as new as both sides (`MergedRow`, `MergedEntry`).
`RecoveryOK` says it of the batch that a recovery would use, `WorkOK` of the one the worker would
publish; `AcceptedOK` and `FreshOK` say what is settled at each step of an announcement, with the
database and without. `SavedAlways` has its hypothesis because finding 3 refutes it otherwise.

`Jobs_proofs` is about the seven instances of `Jobs`, from `JobsAssumption` (the assumptions of
the seven modules: the bounds are numbers, the sets that are counted are finite). One section a
job, each with its invariant:

| Theorems | Invariant, and why it is needed |
| --- | --- |
| `GrowthTypeCorrect`, `CompleteAlways` (`CompleteIsCovered`) | `GrowthBound`: when a report is stamped its two deliveries have bound it to the checkpoint and the catalogue that they met, and what it counts has been shown. A verdict "complete" then follows from the report alone, whatever the catalogue has become. |
| `FollowerTypeCorrect`, `CheckpointAlways` (`AcknowledgedIsSaved`) | `Recorded`: a collector's records carry all that it observed and are what it writes. `AgreesWith`: a write that is accepted has read the checkpoint as it is, so the merge loses nothing; a collector with nothing to save finds all it observed in the checkpoint. |
| `BackupTypeCorrect`, `WholeAlways` (`KeptIsWhole`), `BackupsAlways` (`KeepsBackups`) | `ReadingOK`: the operations were read between the heads that are exported and those of now, so an export is coherent. `DeliveryOK`: a run changes a release only while no receipt of it is kept, and gives one when the three files are whole. The types need a count: a run that has not exported yet has room for its damages (`FewDamages`). |
| `LaunchTypeCorrect`, `RecentAlways` (`RecentIsProven`), `LaunchesAlways` (`KeepsLaunches`) | `Backed`, `Proven`: each measure and each row in the job, its state or the preview goes back to a count that was made. `Excused`: a committed launch is at hand, or what excuses its absence is known to the run and stays so until it saves. |
| `FilesTypeCorrect`, `PushedAlways` (`AcknowledgedIsPublic`), `ScopeAlways` (`StaysInScope`) | `GoodPush`: what is pushed, now or late, is a batch merged into the tree of its base, because staging refuses all else; the branch accepts it only on the newest commit, so no commit takes a batch out again (`GoodLog`). |
| `CatalogAlways` (`CatalogAgrees`), `NewerAlways` (`KeepsNewer`) | `Past`: a public row without a full date is of the days before, so the files made of the rows agree with what is dropped or left. `PublisherOK`: a commit that still fits was built on the newest files. `AuditorOK`: an audit that sees the newest commit has seen every verified date. |
| `CatalogTypeCorrect`, `OriginsTrue` (`OriginsAreTrue`) | `TellsInv`: what the publication under way has told is settled, that is, merging with its source no longer changes the date, and public unless an audit or an exclusion has removed it (`Delivered`); so a retry tells again only what an audit removed (`Repeats`). An audit that sees an event of the publication began after all that the publication knows (`Telling`). |
| `EvidenceTypeCorrect`, `AdmissionsProven` (`AdmissionsAreProven`), `CommitsTrue` (`CommitsAreTrue`) | `RootsTrue`: every manifest that the database names for a commit has the contents of that commit, so nothing else is ever said of it. Before the frontend is activated the job has imported and pinned every commit that a live admission cites (`EvidenceJobOK`); what is pinned is needed and hence not collected (`NeededOK`), so it is still there when the head has moved on (`ActiveOK`). |

`OriginsAreTrue` selects events from a sequence that only grows at its end, so that no
induction over it is needed: the proof says of each step which events it adds (`Follows`,
`AddsRow`), and counts them with the theorems about finite sets.

`SteamQueues_proofs` is about the five instances of `SteamQueues`, from `SteamQueuesAssumption`
(the assumptions of the five modules: bounds, waits and times are numbers, the sets that are
counted are finite):

| Theorems | Invariant, and why it is needed |
| --- | --- |
| `DailyTypeCorrect`, `HandoffAlways` (`HandoffIsCoherent`), `ProgressAlways` (`ProgressIsKept`) | Three generations of files can become the published ones: those of the branch, of the checkout, of the kept batch. Each belongs together (`SoundFiles`: a phase beyond the gate has one, a finished screening covers every eligible game but the excluded), a batch replaces the four files at once or none of them, and what a batch or a checkout will replace is what it was made from (`Extends`). A game that entered the ledger later is one of those that a finished screening may have `left`. |
| `QueueTypeCorrect`, `CandidateAlways` (`CandidateIsKept`) | `KeepsRows`: the hour saves its own copy of the checkpoint over the durable one, so the copy has every ordinary candidate of the durable one from the moment it is taken to its last save; whatever changes the durable one belongs to other steps of the hour. |
| `CooldownTypeCorrect`, `AnswersKept` (`AnswersAreKept`) | `KnownInv`: what a worker or a batch takes for its baseline's success is not after its own, hence no merge takes a success back. `AloneInv`: as long as no batch is kept, what is durable is the worker's baseline or what the worker has made of it, a refusal set each deadline (`Told`), and a shorter one comes with a success after that refusal (`Settles`). |
| `EvidenceAlways` (`EvidenceIsKept`) | `EvidenceOK`: what the job froze was observed by then, so each merged field is the later of the two. `NoRecords`: the batch of a dispatch holds receipts and no rows, so that saving it takes nothing back. |
| `IntakeTypeCorrect`, `ReceiptsTrue` (`ReceiptIsTrue`) | `ReceiptsInv`: what a dispatch is about to save is as true as what is saved, for each of its receipts goes back to an event that was accepted (`AllSent`), and a merge that changes the signature drops the receipt. |
| `IdentityAlways` (`IdentityIsKept`) | `AskingOK`: an answer carries the time of its request, and a growth run owns a well-formed checkpoint; so an accepted receipt is newer than both that are merged, and the merge never drops a group or its receipt. |
| `GroupsTypeCorrect`, `CooldownServed` (`CooldownIsServed`) | `Served`: a run that may still ask, or was answered, found the API open, and a refusal ends its asking; the growth run's own checkpoint shows the API as it is. So what it carries replaces no running cooldown. |

Two facts of the library's operators had to be proved for these: that a finite set of numbers
has a greatest element (`MaximumIs`) and a set of numbers a least one (`MinimumIs`), from the
well-foundedness of the numbers.

The first part of `Workers_proofs`, from the assumptions of all modules together
(`WorkersAssumption`, `JobsAssumption`, `SteamQueuesAssumption`, `LeaseAssumption`), carries these results to `Workers`. A
behaviour of `Workers` in which one instance is at work is a behaviour of that instance
(`GitWorks`, `RaceWorks`, `CatalogWorks` and so on), since `scenario` never changes
(`ScenarioStays`); the lease rests in all scenarios but its own (`LeaseWorks`). Hence every invariant and every action property of the runs `jobs` and `recover`:

| Property | Theorem | Property | Theorem |
| --- | --- | --- | --- |
| `TypesOK` | `TypesStay` | `NothingIsLeftBehind` | `LeftBehindNever` |
| `SavedIsPublished` | `SavedAlways` | `CompleteIsCovered` | `CoveredAlways` |
| `AnnouncedIsAccepted` | `AnnouncedAlways` | `RecentIsProven` | `ProvenAlways` |
| `ReceiptIsTrue` | `ReceiptsStayTrue` | `CatalogAgrees` | `CommitsAgree` |
| `PublicIsCommitted` | `PublicAlways` | `NewerSurvives` | `NewerStays` |
| `PublishedIsAcknowledged` | `PublishedAlways` | `EvidenceIsKept` | `EvidenceStays` |
| `AcknowledgedIsPublic` | `AcknowledgedAlways` | `HandoffIsCoherent` | `CoherentAlways` |
| `AcknowledgedIsSaved` | `KeptAlways` | `ProgressIsKept` | `ProgressKept` |
| `OneAuthority` | `AuthorityAlways` | `CandidateIsKept` | `CandidateKept` |
| `TenureIsOwn`, `ImplementsLease` | `TenureAlways`, `LeaseIsFenced` | `FailureIsKept` | `FailureStays` |

Only model-checked: liveness (`EventsDrain`, `PendingIsShown`, `QualifiedIsAnnounced`,
`PrescreenFinishesUnchanged`, `EveryoneIsAsked`), which is out of the prover's reach, and the
findings of section 5, which are counterexamples. `StandbyRootsDecode` is proved under the
hypothesis that finding 1 shows to be needed.

## 7. Not modelled

* Byte-level encodings (gzip, base64, SHA-256), HTTP and authentication, argument and path
  validation: what the modelled properties need of them is that they fail rather than return
  wrong bytes. The same holds of the D1 client, `verify_snapshots` and the local SQLite export.
* Source scopes, titles, metadata and release-date rules, job results: pure functions and values
  without state; the modules model what they decide.
* The scheduler's dashboard is read-only. `dispatch_content_refresh_events.py` is a manual replay that
  keeps no state. `steam_candidate_supervisor.py` is started by hand, is refused once the database is
  primary, and only continues `DailyCandidates`. `update_steam_daily.py` is retired.
* HTTP collection of the other collectors, the Twitch adapter and its staged metadata,
  `repair_steam_master_store_dates.py`, one-off probes and experiments.
* The merge and the cut of attempt events (`OfficialQueue` has the list of one worker); reports'
  statistics and layouts.

`PROJECT.json` lists each component with its status, and each hazard with the properties that
cover it.
