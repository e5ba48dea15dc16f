-------------------------------- MODULE Workers --------------------------------
(***************************************************************************)
(* The jobs beside the store: an instance of each.  As far as they are      *)
(* modelled they share no state, so a behaviour in which all are at work is *)
(* one of each alone, and what holds of one alone holds in it.  One is at   *)
(* work, named by scenario, and the variables of the others are "off".  The *)
(* hourly worker has two scenarios: without the database ("git") and with   *)
(* it ("database").  So has the projection: two publishers whose batches    *)
(* undo one another ("race", and "lossy" with a failure), and a publisher   *)
(* and the maintenance job ("repair").  The instances that Jobs and         *)
(* SteamQueues declare are at work here too.                                *)
(***************************************************************************)
EXTENDS Integers, Sequences, StorageLease, Jobs, SteamQueues

CONSTANTS
  Scenarios,                     \* those that are explored
  Undoing(_, _), Growing(_, _),  \* what a batch makes of the files
  nothing, conflict

VARIABLES
  scenario,
  authority, events, checkout, pending, saved, my, pc, observations, faults,
  history, receipts, projections, branch, place, mine, others, setbacks,
  flags, control, writers, sync, git, sources
--------------------------------------------------------------------------------
(* What each of the other instances is given. *)
OfGit == Given.git
OfDatabase == Given.database
OfRace == Given.race
OfLossy == Given.lossy
OfRepair == Given.repair
OfCutover == Given.cutover

Git == INSTANCE OfficialCheckpoint_proofs WITH
  None <- nothing, Conflict <- conflict, remote <- authority, disk <- checkout,
  clock <- observations, Game <- OfGit.Game, Count <- OfGit.Count, Hot <- OfGit.Hot,
  Primary <- FALSE, SaveEvery <- OfGit.SaveEvery, MaxTime <- OfGit.MaxTime,
  MaxFault <- OfGit.MaxFault
Database == INSTANCE OfficialCheckpoint_proofs WITH
  None <- nothing, Conflict <- conflict, remote <- authority, disk <- checkout,
  clock <- observations, Game <- OfDatabase.Game, Count <- OfDatabase.Count,
  Hot <- OfDatabase.Hot, Primary <- TRUE, SaveEvery <- OfDatabase.SaveEvery,
  MaxTime <- OfDatabase.MaxTime, MaxFault <- OfDatabase.MaxFault
Race == INSTANCE GitProjection_proofs WITH
  remote <- branch, pc <- place, my <- mine, faults <- setbacks, Publisher <- OfRace.Publisher,
  Repair <- OfRace.Repair, Op <- OfRace.Op, Tree <- OfRace.Tree, Merge <- Undoing,
  InitialTree <- OfRace.InitialTree, MaxAttempt <- OfRace.MaxAttempt,
  MaxOther <- OfRace.MaxOther, MaxFault <- OfRace.MaxFault
Lossy == INSTANCE GitProjection_proofs WITH
  remote <- branch, pc <- place, my <- mine, faults <- setbacks,
  Publisher <- OfLossy.Publisher, Repair <- OfLossy.Repair, Op <- OfLossy.Op,
  Tree <- OfLossy.Tree, Merge <- Undoing, InitialTree <- OfLossy.InitialTree,
  MaxAttempt <- OfLossy.MaxAttempt, MaxOther <- OfLossy.MaxOther, MaxFault <- OfLossy.MaxFault
Repair == INSTANCE GitProjection_proofs WITH
  remote <- branch, pc <- place, my <- mine, faults <- setbacks,
  Publisher <- OfRepair.Publisher, Repair <- OfRepair.Repair, Op <- OfRepair.Op,
  Tree <- OfRepair.Tree, Merge <- Growing, InitialTree <- OfRepair.InitialTree,
  MaxAttempt <- OfRepair.MaxAttempt, MaxOther <- OfRepair.MaxOther,
  MaxFault <- OfRepair.MaxFault
Cutover == INSTANCE Cutover_proofs WITH
  Repos <- OfCutover.Repos, Sources <- OfCutover.Sources, Writes <- OfCutover.Writes,
  MaxWrites <- OfCutover.MaxWrites, MaxControls <- OfCutover.MaxControls,
  MaxImports <- OfCutover.MaxImports

ASSUME WorkersAssumption ==
  /\ Git!CheckpointAssumption /\ Database!CheckpointAssumption
  /\ Race!ProjectionAssumption /\ Lossy!ProjectionAssumption /\ Repair!ProjectionAssumption
  /\ Cutover!CutoverAssumption
--------------------------------------------------------------------------------
Is(name) == scenario = name
AtHour == Is("git") \/ Is("database")
Projecting == Is("race") \/ Is("lossy") \/ Is("repair")

NoHourly ==
  /\ authority = "off" /\ events = "off" /\ checkout = "off" /\ pending = "off" /\ saved = "off"
  /\ my = "off" /\ pc = "off" /\ observations = "off" /\ faults = "off"
NoProjection ==
  /\ history = "off" /\ receipts = "off" /\ projections = "off" /\ branch = "off"
  /\ place = "off" /\ mine = "off" /\ others = "off" /\ setbacks = "off"
NoDaily ==
  /\ published = "off" /\ disk = "off" /\ run = "off" /\ kept = "off" /\ day = "off"
  /\ ledger = "off" /\ manual = "off" /\ stamps = "off" /\ mishaps = "off"
NoQueue ==
  official = "off" /\ batch = "off" /\ listing = "off" /\ fate = "off" /\ slips = "off"
NoCooldown ==
  /\ community = "off" /\ asker = "off" /\ unsent = "off" /\ minute = "off" /\ losses = "off"
  /\ refusals = "off"
NoGrowth ==
  /\ catalog = "off" /\ identity = "off" /\ counted = "off" /\ shown = "off"
  /\ collector = "off" /\ truth = "off" /\ verdict = "off" /\ hour = "off" /\ upsets = "off"
  /\ edits = "off"
NoFollowers ==
  /\ primary = "off" /\ remote = "off" /\ collectors = "off" /\ clock = "off"
  /\ trouble = "off" /\ observed = "off"
NoTwitch ==
  /\ discovered = "off" /\ master = "off" /\ adult = "off" /\ intake = "off" /\ steam = "off"
  /\ job = "off" /\ backend = "off" /\ time = "off" /\ updates = "off" /\ failures = "off"
NoCutover ==
  /\ flags = "off" /\ control = "off" /\ writers = "off" /\ sync = "off" /\ git = "off"
  /\ sources = "off"

NoBackup ==
  /\ heads = "off" /\ backupDay = "off" /\ exports = "off" /\ releases = "off"
  /\ backup = "off" /\ proven = "off" /\ restorers = "off" /\ output = "off"
  /\ damages = "off"
NoCatalog ==
  /\ private = "off" /\ blocked = "off" /\ public = "off" /\ today = "off" /\ ticks = "off"
  /\ publisher = "off" /\ auditor = "off" /\ unheard = "off" /\ arrivals = "off"
  /\ strangers = "off" /\ publications = "off"
NoLaunches ==
  /\ moment = "off" /\ store = "off" /\ cached = "off" /\ launched = "off"
  /\ preview = "off" /\ preparer = "off" /\ counts = "off" /\ rounds = "off" /\ news = "off"
NoOwned ==
  /\ mainline = "off" /\ late = "off" /\ trees = "off" /\ vouchers = "off"
  /\ neighbours = "off" /\ accidents = "off"
NoGroups ==
  /\ table = "off" /\ asking = "off" /\ tick = "off" /\ changes = "off" /\ died = "off"
NoEvidence ==
  /\ archive = "off" /\ admitted = "off" /\ vault = "off" /\ halted = "off"
  /\ migration = "off"

Init ==
  /\ scenario \in Scenarios
  /\ IF Is("git") THEN Git!Init ELSE IF Is("database") THEN Database!Init ELSE NoHourly
  /\ IF Is("race") THEN Race!Init ELSE IF Is("lossy") THEN Lossy!Init
     ELSE IF Is("repair") THEN Repair!Init ELSE NoProjection
  /\ IF Is("daily") THEN Daily!Init ELSE NoDaily
  /\ IF Is("queue") THEN Queue!Init ELSE NoQueue
  /\ IF Is("cooldown") THEN Cooldown!Init ELSE NoCooldown
  /\ IF Is("growth") THEN Growth!Init ELSE NoGrowth
  /\ IF Is("followers") THEN Followers!Init ELSE NoFollowers
  /\ IF Is("twitch") THEN Twitch!Init ELSE NoTwitch
  /\ IF Is("cutover") THEN Cutover!Init ELSE NoCutover
  /\ IF Is("backup") THEN Backup!Init ELSE NoBackup
  /\ IF Is("catalog") THEN Catalog!Init ELSE NoCatalog
  /\ IF Is("launches") THEN Launches!Init ELSE NoLaunches
  /\ IF Is("owned") THEN Files!Init ELSE NoOwned
  /\ IF Is("groups") THEN Groups!Init ELSE NoGroups
  /\ IF Is("evidence") THEN Evidence!Init ELSE NoEvidence
  /\ LeaseInit
--------------------------------------------------------------------------------
hourlyVars == <<authority, events, checkout, pending, saved, my, pc, observations, faults>>
dailyVars == <<published, disk, run, kept, day, ledger, manual, stamps, mishaps>>
queueVars == <<official, batch, listing, fate, slips>>
cooldownVars == <<community, asker, unsent, minute, losses, refusals>>
growthVars == <<catalog, identity, counted, shown, collector, truth, verdict, hour, upsets,
  edits>>
followersVars == <<primary, remote, collectors, clock, trouble, observed>>
twitchVars == <<discovered, master, adult, intake, steam, job, backend, time, updates,
  failures>>
cutoverVars == <<flags, control, writers, sync, git, sources>>
projectionVars == <<history, receipts, projections, branch, place, mine, others, setbacks>>
backupVars == <<heads, backupDay, exports, releases, backup, proven, restorers, output,
  damages>>
catalogVars == <<private, blocked, public, today, ticks, publisher, auditor, unheard,
  arrivals, strangers, publications>>
launchesVars == <<moment, store, cached, launched, preview, preparer, counts, rounds, news>>
ownedVars == <<mainline, late, trees, vouchers, neighbours, accidents>>
groupsVars == <<table, asking, tick, changes, died>>
evidenceVars == <<archive, admitted, vault, halted, migration>>
vars == <<scenario, hourlyVars, projectionVars, dailyVars, queueVars, cooldownVars,
          growthVars, followersVars, twitchVars, cutoverVars, backupVars, catalogVars,
          launchesVars, ownedVars, groupsVars, evidenceVars, leaseVars>>

(* The games are interchangeable: let the first observation be of the first one. *)
FirstOf(h) ==
  observations' = 1 =>
    \A g \in h.Game \ {h.First} :
      authority'.results[g] = Git!NoRow /\ checkout'.results[g] = Git!NoRow /\ my'.cp.results[g] = Git!NoRow

Next ==
  \/ /\ Is("git") /\ Git!Next /\ FirstOf(OfGit)
     /\ UNCHANGED <<scenario, projectionVars, dailyVars, queueVars, cooldownVars,
                    growthVars, followersVars, twitchVars, cutoverVars, backupVars,
                    catalogVars, launchesVars, ownedVars, groupsVars, evidenceVars,
                    leaseVars>>
  \/ /\ Is("database") /\ Database!Next /\ FirstOf(OfDatabase)
     /\ UNCHANGED <<scenario, projectionVars, dailyVars, queueVars, cooldownVars,
                    growthVars, followersVars, twitchVars, cutoverVars, backupVars,
                    catalogVars, launchesVars, ownedVars, groupsVars, evidenceVars,
                    leaseVars>>
  \/ /\ Is("race") /\ Race!Next
     /\ UNCHANGED <<scenario, hourlyVars, dailyVars, queueVars, cooldownVars, growthVars,
                    followersVars, twitchVars, cutoverVars, backupVars, catalogVars,
                    launchesVars, ownedVars, groupsVars, evidenceVars, leaseVars>>
  \/ /\ Is("lossy") /\ Lossy!Next
     /\ UNCHANGED <<scenario, hourlyVars, dailyVars, queueVars, cooldownVars, growthVars,
                    followersVars, twitchVars, cutoverVars, backupVars, catalogVars,
                    launchesVars, ownedVars, groupsVars, evidenceVars, leaseVars>>
  \/ /\ Is("repair") /\ Repair!Next
     /\ UNCHANGED <<scenario, hourlyVars, dailyVars, queueVars, cooldownVars, growthVars,
                    followersVars, twitchVars, cutoverVars, backupVars, catalogVars,
                    launchesVars, ownedVars, groupsVars, evidenceVars, leaseVars>>
  \/ /\ Is("daily") /\ Daily!Next
     /\ UNCHANGED <<scenario, hourlyVars, projectionVars, queueVars, cooldownVars,
                    growthVars, followersVars, twitchVars, cutoverVars, backupVars,
                    catalogVars, launchesVars, ownedVars, groupsVars, evidenceVars,
                    leaseVars>>
  \/ /\ Is("queue") /\ Queue!Next
     /\ UNCHANGED <<scenario, hourlyVars, projectionVars, dailyVars, cooldownVars,
                    growthVars, followersVars, twitchVars, cutoverVars, backupVars,
                    catalogVars, launchesVars, ownedVars, groupsVars, evidenceVars,
                    leaseVars>>
  \/ /\ Is("cooldown") /\ Cooldown!Next
     /\ UNCHANGED <<scenario, hourlyVars, projectionVars, dailyVars, queueVars, growthVars,
                    followersVars, twitchVars, cutoverVars, backupVars, catalogVars,
                    launchesVars, ownedVars, groupsVars, evidenceVars, leaseVars>>
  \/ /\ Is("growth") /\ Growth!Next
     /\ UNCHANGED <<scenario, hourlyVars, projectionVars, dailyVars, queueVars,
                    cooldownVars, followersVars, twitchVars, cutoverVars, backupVars,
                    catalogVars, launchesVars, ownedVars, groupsVars, evidenceVars,
                    leaseVars>>
  \/ /\ Is("followers") /\ Followers!Next
     /\ UNCHANGED <<scenario, hourlyVars, projectionVars, dailyVars, queueVars,
                    cooldownVars, growthVars, twitchVars, cutoverVars, backupVars,
                    catalogVars, launchesVars, ownedVars, groupsVars, evidenceVars,
                    leaseVars>>
  \/ /\ Is("twitch") /\ Twitch!Next
     /\ UNCHANGED <<scenario, hourlyVars, projectionVars, dailyVars, queueVars,
                    cooldownVars, growthVars, followersVars, cutoverVars, backupVars,
                    catalogVars, launchesVars, ownedVars, groupsVars, evidenceVars,
                    leaseVars>>
  \/ /\ Is("cutover") /\ Cutover!Next
     /\ UNCHANGED <<scenario, hourlyVars, projectionVars, dailyVars, queueVars,
                    cooldownVars, growthVars, followersVars, twitchVars, backupVars,
                    catalogVars, launchesVars, ownedVars, groupsVars, evidenceVars,
                    leaseVars>>
  \/ /\ Is("backup") /\ Backup!Next
     /\ UNCHANGED <<scenario, hourlyVars, projectionVars, dailyVars, queueVars,
                    cooldownVars, growthVars, followersVars, twitchVars, cutoverVars,
                    catalogVars, launchesVars, ownedVars, groupsVars, evidenceVars,
                    leaseVars>>
  \/ /\ Is("catalog") /\ Catalog!Next
     /\ UNCHANGED <<scenario, hourlyVars, projectionVars, dailyVars, queueVars,
                    cooldownVars, growthVars, followersVars, twitchVars, cutoverVars,
                    backupVars, launchesVars, ownedVars, groupsVars, evidenceVars, leaseVars>>
  \/ /\ Is("launches") /\ Launches!Next
     /\ UNCHANGED <<scenario, hourlyVars, projectionVars, dailyVars, queueVars,
                    cooldownVars, growthVars, followersVars, twitchVars, cutoverVars,
                    backupVars, catalogVars, ownedVars, groupsVars, evidenceVars, leaseVars>>
  \/ /\ Is("owned") /\ Files!Next
     /\ UNCHANGED <<scenario, hourlyVars, projectionVars, dailyVars, queueVars,
                    cooldownVars, growthVars, followersVars, twitchVars, cutoverVars,
                    backupVars, catalogVars, launchesVars, groupsVars, evidenceVars,
                    leaseVars>>
  \/ /\ Is("groups") /\ Groups!Next
     /\ UNCHANGED <<scenario, hourlyVars, projectionVars, dailyVars, queueVars,
                    cooldownVars, growthVars, followersVars, twitchVars, cutoverVars,
                    backupVars, catalogVars, launchesVars, ownedVars, evidenceVars,
                    leaseVars>>
  \/ /\ Is("evidence") /\ Evidence!Next
     /\ UNCHANGED <<scenario, hourlyVars, projectionVars, dailyVars, queueVars,
                    cooldownVars, growthVars, followersVars, twitchVars, cutoverVars,
                    backupVars, catalogVars, launchesVars, ownedVars, groupsVars, leaseVars>>
  \/ /\ Is("lease") /\ LeaseNext
     /\ UNCHANGED <<scenario, hourlyVars, projectionVars, dailyVars, queueVars,
                    cooldownVars, growthVars, followersVars, twitchVars, cutoverVars,
                    backupVars, catalogVars, launchesVars, ownedVars, groupsVars,
                    evidenceVars>>

Spec == Init /\ [][Next]_vars

(* The workflows are scheduled and their steps are not suspended; a cooldown
   ends. *)
FairSpec ==
  /\ Spec
  /\ WF_hourlyVars(Is("database") /\ Database!WorkerStep)
  /\ \A r \in OfRepair.Repair : WF_projectionVars(Is("repair") /\ Repair!Step(r))
  /\ WF_dailyVars(Is("daily") /\ Daily!RunStep)
  /\ WF_dailyVars(Is("daily") /\ Daily!SlotCheck)
  /\ WF_queueVars(Is("queue") /\ Queue!Start)
  /\ WF_queueVars(Is("queue") /\ Queue!HourStep)
  /\ WF_queueVars(Is("queue") /\ Queue!CoolDown)
--------------------------------------------------------------------------------
(* Properties: those of the modules, each where its variables exist. *)

TypesOK ==
  /\ Is("git") => Git!TypeOK
  /\ Is("database") => Database!TypeOK
  /\ Is("race") => Race!TypeOK
  /\ Is("lossy") => Lossy!TypeOK
  /\ Is("repair") => Repair!TypeOK
  /\ Is("daily") => Daily!TypeOK
  /\ Is("queue") => Queue!TypeOK
  /\ Is("cooldown") => Cooldown!TypeOK
  /\ Is("growth") => Growth!TypeOK
  /\ Is("followers") => Followers!TypeOK
  /\ Is("twitch") => Twitch!TypeOK
  /\ Is("cutover") => Cutover!TypeOK
  /\ Is("backup") => Backup!TypeOK
  /\ Is("catalog") => Catalog!TypeOK
  /\ Is("launches") => Launches!TypeOK
  /\ Is("owned") => Files!TypeOK
  /\ Is("groups") => Groups!TypeOK
  /\ Is("evidence") => Evidence!TypeOK
  /\ LeaseTypeOK

(* Nothing newer that is public or proven is replaced by something older: a
   Followers observation of the hourly worker (keeps_newer in official_merge),
   a projected tree (git_projection), a date or a count of the public catalogue
   (keep_newer_release, require_current_followers), a proven backup or a restored
   database (backup_release, storage_restore). *)
NewerSurvives ==
  [][/\ Is("git") => Git!KeepsNewer
     /\ Is("database") => Database!KeepsNewer
     /\ Projecting => Race!NeverBack
     /\ Is("catalog") => Catalog!KeepsNewer
     /\ Is("backup") => Backup!KeepsBackups]_vars

(* No record claims what did not happen: the hourly worker's receipts, the Twitch
   job's content receipts, the activity origins of the public catalogue, what the
   database says of a frontend commit.  And what the hourly worker's receipts claim
   is not done again. *)
ReceiptIsTrue ==
  /\ Is("git") => Git!ReceiptIsTrue /\ Git!NeverResent
  /\ Is("database") => Database!ReceiptIsTrue /\ Database!NeverResent
  /\ Is("twitch") => Twitch!ReceiptIsTrue
  /\ Is("catalog") => Catalog!OriginsAreTrue
  /\ Is("evidence") => Evidence!CommitsAreTrue

(* What was acknowledged is there: a follower checkpoint that a collector was told
   was saved, the three files of a backup whose receipt was published. *)
AcknowledgedIsSaved ==
  /\ Is("followers") => Followers!AcknowledgedIsSaved
  /\ Is("backup") => Backup!KeptIsWhole

(* OfficialCheckpoint, without the database and with it. *)
SavedIsPublished == Is("git") => Git!SavedIsPublished
AnnouncedIsAccepted == Is("database") => Database!AnnouncedIsAccepted
QualifiedIsAnnounced == []<>(Is("database") => Database!AllAnnounced)

(* GitProjection and, for what was acknowledged, OwnedPublication. *)
PublicIsCommitted == Projecting => Race!PublicIsCommitted
AcknowledgedIsPublic ==
  /\ Is("race") => Race!AcknowledgedIsPublic
  /\ Is("lossy") => Lossy!AcknowledgedIsPublic
  /\ Is("repair") => Repair!AcknowledgedIsPublic
  /\ Is("owned") => Files!AcknowledgedIsPublic
PublishedIsAcknowledged == Is("repair") => Repair!PublishedIsAcknowledged
PendingIsShown == \A o \in OfRepair.Op : []<>(Is("repair") => o \notin Repair!Pending)

(* DailyCandidates *)
HandoffIsCoherent == Is("daily") => Daily!HandoffIsCoherent
ProgressIsKept == [][Is("daily") => Daily!KeepsProgress]_vars
PrescreenFinishesUnchanged ==
  []<>(Is("daily") => Daily!HandedOffUnchanged)

(* OfficialQueue *)
CandidateIsKept == [][Is("queue") => Queue!KeepsCandidates]_vars
EveryoneIsAsked == \A g \in Queue!Game : []<>(Is("queue") => Queue!HasItsTurn(g))

(* A worker's own saves shorten the shared cooldown only for a success that is
   newer than its refusal, and no batch takes a success back (CommunityCooldown);
   no update replaces the running cooldown of the groups' API by a shorter one
   (GroupResolution).  A complete day covers every game (GrowthReport). *)
FailureIsKept ==
  [][/\ Is("cooldown") => Cooldown!KeepsAnswers
     /\ Is("groups") => Groups!ServesCooldown]_vars
CompleteIsCovered == [][Is("growth") => Growth!CoversTheDay]_vars

(* What was proven of a game stays: the Twitch job's evidence, a launch of the
   release calendar, the identity of its group. *)
EvidenceIsKept ==
  [][/\ Is("twitch") => Twitch!KeepsEvidence
     /\ Is("launches") => Launches!KeepsLaunches
     /\ Is("groups") => Groups!KeepsIdentity]_vars

(* A source of the database has one kind of writer; a file of a shared branch is
   changed by its owners only. *)
OneAuthority ==
  /\ Is("cutover") => Cutover!OneAuthority
  /\ Is("owned") => Files!StaysInScope

(* What Git said is in the database when it is the authority: what the writers
   saved, and what the admissions rest on. *)
NothingIsLeftBehind ==
  /\ Is("cutover") => Cutover!NothingIsLeftBehind
  /\ Is("evidence") => Evidence!AdmissionsAreProven

(* PublicCatalog, RecentLaunches; TenureIsOwn and ImplementsLease are StorageLease's. *)
CatalogAgrees == Is("catalog") => Catalog!CatalogAgrees
RecentIsProven == Is("launches") => Launches!RecentIsProven
================================================================================
