---------------------------------- MODULE Jobs ----------------------------------
(***************************************************************************)
(* Seven of the jobs beside the store, an instance of each: the growth     *)
(* reports, the follower checkpoints, the backups, the recent launches, the *)
(* pushes of generated files, the public catalogue and the evidence of the  *)
(* admissions.  Workers composes them with the others, Jobs_proofs holds    *)
(* what is proved of them.                                                 *)
(***************************************************************************)
EXTENDS Integers, Sequences

CONSTANT Given  \* the parameters of every instance

VARIABLES
  catalog, identity, counted, shown, collector, truth, verdict, hour, upsets, edits,
  primary, remote, collectors, clock, trouble, observed,
  heads, backupDay, exports, releases, backup, proven, restorers, output, damages,
  moment, store, cached, launched, preview, preparer, counts, rounds, news,
  mainline, late, trees, vouchers, neighbours, accidents,
  private, blocked, public, today, ticks, publisher, auditor, unheard, arrivals, strangers,
  publications,
  archive, admitted, vault, halted, migration
--------------------------------------------------------------------------------
OfGrowth == Given.growth
OfFollowers == Given.followers
OfBackup == Given.backup
OfLaunches == Given.launches
OfOwned == Given.owned
OfCatalog == Given.catalog
OfEvidence == Given.evidence

Growth == INSTANCE GrowthReport WITH
  Game <- OfGrowth.Game, DayLength <- OfGrowth.DayLength, Validity <- OfGrowth.Validity,
  MaxHour <- OfGrowth.MaxHour, MaxUpset <- OfGrowth.MaxUpset, MaxEdit <- OfGrowth.MaxEdit
Followers == INSTANCE FollowerCheckpoint WITH
  Collector <- OfFollowers.Collector, App <- OfFollowers.App, Every <- OfFollowers.Every,
  Lifetime <- OfFollowers.Lifetime, Attempts <- OfFollowers.Attempts,
  MaxClock <- OfFollowers.MaxClock, MaxTrouble <- OfFollowers.MaxTrouble
Backup == INSTANCE BackupRelease WITH
  day <- backupDay, job <- backup, kept <- proven, mishaps <- damages,
  Source <- OfBackup.Source, Restorer <- OfBackup.Restorer,
  MaxGeneration <- OfBackup.MaxGeneration, MaxDay <- OfBackup.MaxDay,
  MaxExport <- OfBackup.MaxExport, MaxTrouble <- OfBackup.MaxTrouble
Launches == INSTANCE RecentLaunches WITH
  clock <- moment, saved <- launched, job <- preparer, runs <- rounds, Game <- OfLaunches.Game,
  DayLength <- OfLaunches.DayLength, FirstWeek <- OfLaunches.FirstWeek,
  RecentDays <- OfLaunches.RecentDays, MaxClock <- OfLaunches.MaxClock,
  MaxRuns <- OfLaunches.MaxRuns, MaxNews <- OfLaunches.MaxNews
Files == INSTANCE OwnedPublication WITH
  log <- mainline, wire <- late, checkouts <- trees, receipts <- vouchers,
  others <- neighbours, trouble <- accidents, Publisher <- OfOwned.Publisher,
  Path <- OfOwned.Path, Scope <- OfOwned.Scope, MaxAttempts <- OfOwned.MaxAttempts,
  MaxOther <- OfOwned.MaxOther, MaxTrouble <- OfOwned.MaxTrouble
Catalog == INSTANCE PublicCatalog WITH
  master <- private, time <- ticks, others <- strangers, Game <- OfCatalog.Game,
  MaxToday <- OfCatalog.MaxToday, MaxTime <- OfCatalog.MaxTime,
  MaxAttempts <- OfCatalog.MaxAttempts, MaxOthers <- OfCatalog.MaxOthers,
  MaxFreeze <- OfCatalog.MaxFreeze
Evidence == INSTANCE LegacyEvidence WITH
  git <- archive, proofs <- admitted, db <- vault, paused <- halted, job <- migration,
  Content <- OfEvidence.Content, MaxCommits <- OfEvidence.MaxCommits,
  MaxProofs <- OfEvidence.MaxProofs, MaxJobs <- OfEvidence.MaxJobs,
  MaxPublished <- OfEvidence.MaxPublished

ASSUME JobsAssumption ==
  /\ Growth!GrowthAssumption /\ Followers!FollowerAssumption /\ Backup!BackupAssumption
  /\ Launches!LaunchAssumption /\ Files!PublicationAssumption
  /\ Catalog!CatalogAssumption /\ Evidence!EvidenceAssumption
================================================================================
