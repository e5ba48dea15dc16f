------------------------------ MODULE SteamQueues ------------------------------
(***************************************************************************)
(* The jobs that ask Steam about what is queued, an instance of each: the   *)
(* daily candidates, the candidates of the hourly worker, the cooldown of   *)
(* the community pages, the admission of what Twitch discovered and the     *)
(* identities of the groups.  Workers composes them with the others,        *)
(* SteamQueues_proofs holds what is proved of them.                         *)
(***************************************************************************)
EXTENDS Integers, Sequences

CONSTANTS OfDaily, OfQueue, OfCooldown, OfTwitch, OfGroups  \* the parameters of each

VARIABLES
  published, disk, run, kept, day, ledger, manual, stamps, mishaps,
  official, batch, listing, fate, slips,
  community, asker, unsent, minute, losses, refusals,
  discovered, master, adult, intake, steam, job, backend, time, updates, failures,
  table, asking, tick, changes, died
--------------------------------------------------------------------------------
Daily == INSTANCE DailyCandidates WITH
  App <- OfDaily.App, Listing <- OfDaily.Listing, Band <- OfDaily.Band,
  Window <- OfDaily.Window, MaxPass <- OfDaily.MaxPass, Budget <- OfDaily.Budget,
  MaxDay <- OfDaily.MaxDay, MaxManual <- OfDaily.MaxManual, MaxStamp <- OfDaily.MaxStamp,
  MaxLedger <- OfDaily.MaxLedger, MaxFault <- OfDaily.MaxFault
Queue == INSTANCE OfficialQueue WITH
  Frozen <- OfQueue.Frozen, Listed <- OfQueue.Listed, Tracked <- OfQueue.Tracked,
  Cached <- OfQueue.Cached, MaxRequests <- OfQueue.MaxRequests, MaxEvents <- OfQueue.MaxEvents,
  KeptEvents <- OfQueue.KeptEvents, MaxSlip <- OfQueue.MaxSlip
Cooldown == INSTANCE CommunityCooldown WITH
  now <- minute, Wait <- OfCooldown.Wait, MaxNow <- OfCooldown.MaxNow,
  MaxUnsent <- OfCooldown.MaxUnsent, MaxLoss <- OfCooldown.MaxLoss
Twitch == INSTANCE TwitchIntake WITH
  content <- backend, Title <- OfTwitch.Title, MaxTime <- OfTwitch.MaxTime,
  MaxUpdates <- OfTwitch.MaxUpdates, MaxMishaps <- OfTwitch.MaxMishaps
Groups == INSTANCE GroupResolution WITH
  state <- table, App <- OfGroups.App, FromTwitch <- OfGroups.FromTwitch,
  Accepted <- OfGroups.Accepted, Requests <- OfGroups.Requests, Short <- OfGroups.Short,
  Long <- OfGroups.Long, MaxTime <- OfGroups.MaxTime, MaxEdit <- OfGroups.MaxEdit,
  MaxLoss <- OfGroups.MaxLoss

ASSUME SteamQueuesAssumption ==
  /\ Daily!DailyAssumption /\ Queue!QueueAssumption /\ Cooldown!CooldownAssumption
  /\ Twitch!TwitchAssumption /\ Groups!GroupAssumption
================================================================================
