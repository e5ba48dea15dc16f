------------------------------- MODULE MCWorkers -------------------------------
(* Small instances of the jobs beside the store, for TLC. *)
EXTENDS Workers, TLC

CONSTANTS
  MaxForeign, MaxSetback,  \* BOUNDS of the maintenance job's instance
  g1, g2, low, high, higher, c1, c2, p1, p2, r1, f1, f2

Trees == SUBSET {f1, f2}
MCGrowing(o, t) == IF o = "o1" THEN t \cup {f1} ELSE t \cup {f2}
MCUndoing(o, t) == IF o = "o2" THEN t \ {f1} ELSE t \cup {f1}
OwnedBy == p1 :> {1, 2} @@ p2 :> {2, 3}

MCDaily ==
  [App |-> {1, 2}, Listing |-> {{1, 2}}, Band |-> {"high"}, Window |-> 1, MaxPass |-> 4,
   Budget |-> 2, MaxDay |-> 2, MaxManual |-> 1, MaxStamp |-> 1, MaxLedger |-> 1,
   MaxFault |-> 1]
MCQueue ==
  [Frozen |-> {1}, Listed |-> {2}, Tracked |-> {2}, Cached |-> {2}, MaxRequests |-> 1,
   MaxEvents |-> 3, KeptEvents |-> 2, MaxSlip |-> 1]
MCCooldown == [Wait |-> {1, 2}, MaxNow |-> 4, MaxUnsent |-> 1, MaxLoss |-> 1]
MCTwitch == [Title |-> {1}, MaxTime |-> 7, MaxUpdates |-> 3, MaxMishaps |-> 1]
MCGroups ==
  [App |-> {1, 2}, FromTwitch |-> {2}, Accepted |-> {1}, Requests |-> 1, Short |-> 1,
   Long |-> 2, MaxTime |-> 3, MaxEdit |-> 1, MaxLoss |-> 1]
MCGiven ==
  [git |-> [First |-> g1, Game |-> {g1, g2}, Count |-> {low, high}, Hot |-> {high},
      SaveEvery |-> 2, MaxTime |-> 3, MaxFault |-> 2],
   database |-> [First |-> g1, Game |-> {g1, g2}, Count |-> {low, high, higher},
      Hot |-> {high, higher}, SaveEvery |-> 2, MaxTime |-> 2, MaxFault |-> 2],
   race |-> [Publisher |-> {p1, p2}, Repair |-> {}, Op |-> {"o1", "o2", "o3"},
      Tree |-> Trees, InitialTree |-> {}, MaxAttempt |-> 2, MaxOther |-> 0, MaxFault |-> 0],
   lossy |-> [Publisher |-> {p1, p2}, Repair |-> {}, Op |-> {"o1", "o2"}, Tree |-> Trees,
      InitialTree |-> {}, MaxAttempt |-> 2, MaxOther |-> 0, MaxFault |-> 1],
   repair |-> [Publisher |-> {p1}, Repair |-> {r1}, Op |-> {"o1", "o2"}, Tree |-> Trees,
      InitialTree |-> {}, MaxAttempt |-> 2, MaxOther |-> MaxForeign,
      MaxFault |-> MaxSetback],
   growth |-> [Game |-> {g1, g2}, DayLength |-> 2, Validity |-> 2, MaxHour |-> 3,
      MaxUpset |-> 1, MaxEdit |-> 1],
   followers |-> [Collector |-> {c1, c2}, App |-> {1}, Every |-> 2, Lifetime |-> 1,
      Attempts |-> 2, MaxClock |-> 4, MaxTrouble |-> 1],
   cutover |-> [Repos |-> 2, Sources |-> 2, Writes |-> <<{1, 2}, {2}>>, MaxWrites |-> 2,
      MaxControls |-> 3, MaxImports |-> 2],
   backup |-> [Source |-> {1}, Restorer |-> {1, 2}, MaxGeneration |-> 2, MaxDay |-> 2,
      MaxExport |-> 2, MaxTrouble |-> 2],
   catalog |-> [Game |-> {g1, g2}, MaxToday |-> 2, MaxTime |-> 2, MaxAttempts |-> 2,
      MaxOthers |-> 1, MaxFreeze |-> 2],
   launches |-> [Game |-> {g1}, DayLength |-> 2, FirstWeek |-> 0, RecentDays |-> 1,
      MaxClock |-> 5, MaxRuns |-> 2, MaxNews |-> 1],
   owned |-> [Publisher |-> {p1, p2}, Path |-> {1, 2, 3}, Scope |-> OwnedBy,
      MaxAttempts |-> 2, MaxOther |-> 1, MaxTrouble |-> 1],
   evidence |-> [Content |-> {low, high}, MaxCommits |-> 2, MaxProofs |-> 2, MaxJobs |-> 3,
      MaxPublished |-> 1]]
================================================================================
