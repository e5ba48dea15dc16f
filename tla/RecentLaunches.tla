----------------------------- MODULE RecentLaunches -----------------------------
(***************************************************************************)
(* The preview of the release calendar (scripts/publish_steam_preview.py    *)
(* and its workflow): which games are announced, and which have just been   *)
(* launched.  A game that was followed before its launch is shown for a     *)
(* month; one that nobody followed must have been counted above the         *)
(* threshold in its first week.  What proves that is private state, which   *)
(* the workflow commits before it publishes the preview.  The Store and the *)
(* calendar go on while a run works; one run at a time works.               *)
(***************************************************************************)
EXTENDS Integers

CONSTANTS
  Game,
  DayLength,   \* clock ticks of a day; so long may a count be used again
  FirstWeek, RecentDays,
  MaxClock,    \* BOUND on the clock
  MaxRuns,     \* BOUND on the runs
  MaxNews      \* BOUND on the changes of the Store and of the checkpoint

LaunchAssumption ==
  {DayLength, MaxClock} \subseteq Nat \ {0} /\ {FirstWeek, RecentDays, MaxRuns, MaxNews} \subseteq Nat

VARIABLES
  clock,
  store,    \* what the Store shows: the release date, and whether it is out
  cached,   \* the Followers checkpoint
  saved,    \* the committed state of earlier runs
  preview,  \* the public preview
  job,
  counts,   \* the counts above the threshold: game, count and day
  runs, news

vars == <<clock, store, cached, saved, preview, job, counts, runs, news>>
--------------------------------------------------------------------------------
(* Followers: too few, enough for a launch (3001), enough to be followed (5000). *)
Count == 0..2
Few == 0
Many == 2

Day(t) == (t - 1) \div DayLength + 1
Date == 1..Day(MaxClock)

NoCount == [count |-> Few, at |-> 0]
NoRow == [source |-> "none", start |-> 0, count |-> Few, qualified |-> 0]
None(x) == [g \in Game |-> x]
NoJob ==
  [pc |-> "idle", at |-> 1, released |-> None(NoRow), checks |-> None(NoCount),
   cached |-> None(NoCount), upcoming |-> {}, tracked |-> {}, processed |-> {}, todo |-> {},
   game |-> CHOOSE g \in Game : TRUE, exact |-> 0, count |-> NoCount]

InFirstWeek(start, day) == start <= day /\ day <= start + FirstWeek
InMonth(start, day) == day - RecentDays <= start /\ start <= day

Init ==
  /\ clock = 1
  /\ store \in [Game -> [day : {1}, out : BOOLEAN] \cup [day : Date, out : {FALSE}]]
  /\ cached = None(NoCount)
  /\ saved = [released |-> None(NoRow), checks |-> None(NoCount)]
  /\ preview = [upcoming |-> {}, recent |-> None(NoRow), day |-> 1]
  /\ job = NoJob
  /\ counts = {}
  /\ runs = 0 /\ news = 0
--------------------------------------------------------------------------------
(* The world *)

Tick ==
  /\ clock < MaxClock /\ clock' = clock + 1
  /\ UNCHANGED <<store, cached, saved, preview, job, counts, runs, news>>

Made(g, n) ==
  counts' = IF n = Few THEN counts ELSE counts \cup {[game |-> g, count |-> n, day |-> Day(clock)]}

News == news < MaxNews /\ news' = news + 1 /\ UNCHANGED <<clock, saved, preview, job, runs>>

(* The Store moves a date, launches a game or withdraws it. *)
StoreChanges(g) ==
  /\ News
  /\ \E day \in Date, out \in BOOLEAN :
       /\ store[g] # [day |-> day, out |-> out]
       /\ out => day <= Day(clock)
       /\ store' = [store EXCEPT ![g] = [day |-> day, out |-> out]]
  /\ UNCHANGED <<cached, counts>>

(* Another job counts the Followers. *)
CheckpointChanges(g) ==
  /\ News
  /\ \E n \in Count :
       cached' = [cached EXCEPT ![g] = [count |-> n, at |-> clock]] /\ Made(g, n)
  /\ UNCHANGED store
--------------------------------------------------------------------------------
(* The run *)

Outside == UNCHANGED <<clock, store, cached, news>>
Quiet == UNCHANGED <<saved, preview, counts, runs>> /\ Outside
At(pc) == job.pc = pc
today == Day(job.at)

(* What the list of recent launches may still show. *)
AnyLaunch(row, day) == row # NoRow /\ row.count > Few /\ InMonth(row.start, day)   \* a slip
Recent(row, day) ==
  /\ row # NoRow /\ row.count > Few
  /\ InMonth(row.start, day)
  /\ row.source = "direct" => InFirstWeek(row.start, Day(row.qualified))
Pruned(rows, day) == [g \in Game |-> IF Recent(rows[g], day) THEN rows[g] ELSE NoRow]
Retained(g) == job.released[g] # NoRow

Start ==
  /\ At("idle") /\ runs < MaxRuns /\ runs' = runs + 1
  /\ job' = [NoJob EXCEPT !.pc = "tracked", !.at = clock, !.cached = cached,
               !.released = Pruned(saved.released, Day(clock)), !.checks = saved.checks,
               !.tracked = {g \in Game : cached[g].count = Many}]
  /\ UNCHANGED <<saved, preview, counts>> /\ Outside

(* A followed game, as the Store shows it now, if it answers with a full date
   (within a year, as all dates here are). *)
Tracked(g) ==
  /\ At("tracked") /\ g \in job.tracked
  /\ LET seen == store[g]
         row == [source |-> "tracked", start |-> seen.day, count |-> Many, qualified |-> 0]
         rest == [job EXCEPT !.tracked = @ \ {g}]
         done == [rest EXCEPT !.processed = @ \cup {g}]
     IN \/ job' = rest
        \/ /\ seen.out /\ InMonth(seen.day, today)
           /\ job' = [done EXCEPT !.released[g] = row]
        \/ /\ ~seen.out /\ seen.day >= today
           /\ job' = [done EXCEPT !.upcoming = @ \cup {g}]
        \/ /\ ~seen.out /\ seen.day < today
           /\ job' = [done EXCEPT !.released[g] = NoRow]
  /\ Quiet

Search ==
  /\ At("tracked") /\ job.tracked = {}
  /\ \E found \in SUBSET Game :
       job' = [job EXCEPT !.pc = "candidates", !.todo = found \ job.processed]
  /\ Quiet

Dropped(was, g) ==
  [was EXCEPT !.pc = "candidates", !.todo = @ \ {g},
              !.game = NoJob.game, !.exact = 0, !.count = NoCount]
Launched(g) == store[g].out /\ InFirstWeek(store[g].day, today)
Drop(g) == Dropped(job, g)

(* The Store must show that a candidate is out and in its first week, before
   anybody is asked for its Followers. *)
Candidate(g) ==
  /\ At("candidates") /\ g \in job.todo
  /\ LET Considered(exact) == job' = [job EXCEPT !.pc = "count", !.game = g, !.exact = exact]
     IN \/ Retained(g) /\ Considered(0)
        \/ ~Retained(g) /\ Launched(g) /\ Considered(store[g].day)
        \/ ~Retained(g) /\ job' = Drop(g)
  /\ Quiet

(* The latest count that is fresh; before the launch it proves nothing. *)
Usable(g) ==
  {m \in {job.cached[g], job.checks[g]} :
     /\ m.at # 0 /\ m.at >= job.cached[g].at /\ m.at >= job.checks[g].at
     /\ job.at - m.at < DayLength
     /\ Day(m.at) >= job.exact}

(* What a count leads to, for the game at hand. *)
Counted(was, m) ==
  LET g == job.game
  IN IF m.count = Few THEN [Dropped(was, g) EXCEPT !.released[g] = NoRow]
     ELSE IF Retained(g)
     THEN [Dropped(was, g) EXCEPT !.released[g].count = m.count]
     ELSE [was EXCEPT !.pc = "admit", !.count = m]

Reuse ==
  /\ At("count")
  /\ \E m \in Usable(job.game) : job' = Counted(job, m)
  /\ Quiet

(* Who does not answer is left for another run. *)
Ask ==
  /\ At("count") /\ Usable(job.game) = {}
  /\ \/ job' = Drop(job.game) /\ UNCHANGED counts
     \/ \E n \in Count :
          LET m == [count |-> n, at |-> clock]
          IN /\ job' = Counted([job EXCEPT !.checks[job.game] = m], m)
             /\ Made(job.game, n)
  /\ UNCHANGED <<saved, preview, runs>> /\ Outside

(* The Store is read again: it may show something else by now. *)
Admit ==
  /\ At("admit")
  /\ LET g == job.game
         row == [source |-> "direct", start |-> store[g].day, count |-> job.count.count,
                 qualified |-> job.count.at]
     IN \/ job' = Drop(g)
        \/ /\ Launched(g) /\ InMonth(store[g].day, today)
           /\ job' = [Drop(g) EXCEPT !.released[g] = row]
  /\ Quiet

(* All are done, the time of the scan is up, or its requests are: candidates wait
   in an order that favours those that no run has looked at. *)
ScanEnds ==
  /\ At("candidates") \/ (At("count") /\ Usable(job.game) = {})
  /\ job' = [Drop(job.game) EXCEPT !.pc = "finish", !.todo = {}]
  /\ Quiet

Finish ==
  /\ At("finish")
  /\ LET rows == Pruned(job.released, today)
     IN job' = [job EXCEPT !.pc = "save", !.released = rows,
                  !.checks = [g \in Game |->
                    IF job.at - @[g].at < DayLength \/ job.released[g] # NoRow THEN @[g] ELSE NoCount]]
  /\ Quiet

(* The workflow commits the state, then publishes; it may end at either. *)
Save ==
  /\ At("save")
  /\ \/ /\ saved' = [released |-> job.released, checks |-> job.checks]
        /\ job' \in {[job EXCEPT !.pc = "publish"], NoJob}
     \/ job' = NoJob /\ UNCHANGED saved
  /\ UNCHANGED <<preview, counts, runs>> /\ Outside

Publish ==
  /\ At("publish")
  /\ preview' \in {preview, [upcoming |-> job.upcoming, recent |-> job.released, day |-> today]}
  /\ job' = NoJob
  /\ UNCHANGED <<saved, counts, runs>> /\ Outside

Next ==
  \/ Tick
  \/ \E g \in Game : StoreChanges(g) \/ CheckpointChanges(g) \/ Tracked(g) \/ Candidate(g)
  \/ Start \/ Search \/ Reuse \/ Ask \/ Admit \/ ScanEnds \/ Finish \/ Save \/ Publish

Spec == Init /\ [][Next]_vars
--------------------------------------------------------------------------------
Measure == [count : Count, at : 0..MaxClock]
Row == [source : {"none", "direct", "tracked"}, start : Date \cup {0}, count : Count,
        qualified : 0..MaxClock]

(* Every variable has its type. *)
TypeOK ==
  /\ clock \in 1..MaxClock
  /\ store \in [Game -> [day : Date, out : BOOLEAN]]
  /\ cached \in [Game -> Measure]
  /\ saved \in [released : [Game -> Row], checks : [Game -> Measure]]
  /\ preview \in [upcoming : SUBSET Game, recent : [Game -> Row], day : Date]
  /\ job.released \in [Game -> Row] /\ job.checks \in [Game -> Measure]
  /\ counts \subseteq [game : Game, count : Count, day : Date]
  /\ runs \in 0..MaxRuns /\ news \in 0..MaxNews

(* What is shown as a recent launch was counted for it: as a game that nobody
   followed, above the threshold and in the first week of the launch that is
   shown; else as one that was followed.  And what proves it is saved. *)
RecentIsProven ==
  \A g \in Game : preview.recent[g] # NoRow =>
    LET row == preview.recent[g]
    IN /\ InMonth(row.start, preview.day)
       /\ \E c \in counts :
            /\ c.game = g
            /\ IF row.source = "direct" THEN c.count > Few /\ InFirstWeek(row.start, c.day)
               ELSE c.count = Many

(* A launch that is proven stays for its month, unless a later count is below the
   threshold or the Store shows it as not yet out: also when its first week is
   long over, and when a run finds no time or no answer for it. *)
KeepsLaunches ==
  \A g \in Game :
    saved.released[g] # NoRow /\ saved'.released[g] = NoRow =>
      \/ ~InMonth(saved.released[g].start, today)
      \/ job.checks[g].count = Few /\ job.checks[g].at # 0
      \/ job.cached[g].count = Few /\ job.cached[g].at # 0
      \/ g \in job.processed
================================================================================
