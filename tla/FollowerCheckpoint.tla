--------------------------- MODULE FollowerCheckpoint ---------------------------
(***************************************************************************)
(* The older Followers collector and its checkpoint: qualify() of           *)
(* collectors/steam_upcoming.py, the merge and the retries of               *)
(* application/follower_checkpoint.py over either transport of              *)
(* adapters/github_contents_checkpoint.py.                                  *)
(*                                                                         *)
(* Several workflows run a collector, each in a concurrency group of its    *)
(* own, over one checkpoint that is written under compare-and-swap: a blob  *)
(* hash of the Contents API, or a generation of the primary.  An            *)
(* observation is the time of its request; a request takes time.            *)
(***************************************************************************)
EXTENDS Integers, FiniteSets, FiniteSetsExt

CONSTANTS
  Collector, App,
  Every,        \* checkpoint_every
  Lifetime,     \* how long an observation is reused: _cache_ttl
  Attempts,     \* of a request that is refused, and of a write that conflicts
  MaxClock,     \* BOUND on requests
  MaxTrouble    \* BOUND on failures of the transport and of the process

FollowerAssumption ==
  /\ IsFiniteSet(Collector) /\ App \subseteq Nat /\ IsFiniteSet(App)
  /\ {Every, Attempts, MaxClock} \subseteq Nat \ {0} /\ {Lifetime, MaxTrouble} \subseteq Nat

VARIABLES
  primary,     \* RADAR_DATABASE_PRIMARY
  remote,      \* the checkpoint
  collectors,
  clock,
  trouble,
  observed     \* history: each collector's newest observation of each game

followers == <<primary, remote, collectors, clock, trouble, observed>>

Nothing == [a \in App |-> 0]
NoCollector ==
  [pc |-> "idle", cache |-> Nothing, dirty |-> 0, todo |-> {}, budget |-> 0, again |-> 0, started |-> 0,
   frozen |-> Nothing, read |-> Nothing, stale |-> FALSE, tries |-> 0, next |-> "loop"]

Init ==
  /\ primary \in BOOLEAN
  /\ remote = Nothing
  /\ collectors = [c \in Collector |-> NoCollector]
  /\ clock = 1 /\ trouble = 0
  /\ observed = [c \in Collector |-> Nothing]

(* merge_follower_records: the newest observation, and on a tie the saved one. *)
Newest(latest, mine) == [a \in App |-> IF mine[a] > latest[a] THEN mine[a] ELSE latest[a]]
--------------------------------------------------------------------------------
At(c, l) == collectors[c].pc = l
Now(c, state) == collectors' = [collectors EXCEPT ![c] = state]
Trouble == trouble < MaxTrouble /\ trouble' = trouble + 1
Quiet == UNCHANGED <<primary, clock, trouble>>

(* __init__: the authoritative records; over Git a checkpoint that cannot be
   read is left out. *)
Start(c, games, budget) ==
  /\ At(c, "idle")
  /\ \/ /\ Now(c, [NoCollector EXCEPT !.pc = "loop", !.cache = remote, !.todo = games,
                                      !.budget = budget, !.started = clock])
        /\ UNCHANGED trouble
     \/ /\ ~primary /\ Trouble
        /\ Now(c, [NoCollector EXCEPT !.pc = "loop", !.todo = games, !.budget = budget,
                                      !.started = clock])
  /\ UNCHANGED <<primary, remote, clock, observed>>

First(c) == Min(collectors[c].todo)
(* The age is measured once, at the start; a refused game is asked again. *)
Reusable(c, a) ==
  /\ collectors[c].again = 0 /\ collectors[c].cache[a] # 0
  /\ collectors[c].started - collectors[c].cache[a] <= Lifetime

Reuse(c) ==
  /\ At(c, "loop") /\ collectors[c].todo # {} /\ Reusable(c, First(c))
  /\ Now(c, [collectors[c] EXCEPT !.todo = @ \ {First(c)}])
  /\ UNCHANGED <<remote, observed>> /\ Quiet

(* _persist_checkpoint_remote freezes the records first. *)
Freezing(state, next) ==
  [state EXCEPT !.pc = "read", !.frozen = state.cache, !.tries = 1, !.next = next]

Fetches(c) ==
  /\ At(c, "loop") /\ collectors[c].todo # {} /\ ~Reusable(c, First(c))
  /\ collectors[c].budget > 0 /\ clock < MaxClock

(* An observation, saved with every few of them. *)
Fetch(c) ==
  LET a == First(c)
      state == [collectors[c] EXCEPT !.cache[a] = clock', !.dirty = @ + 1, !.again = 0,
                                     !.todo = @ \ {a}, !.budget = @ - 1]
  IN /\ clock' = clock + 1
     /\ Fetches(c)
     /\ Now(c, IF state.dirty >= Every THEN Freezing(state, "loop") ELSE state)
     /\ observed' = [observed EXCEPT ![c][a] = clock']
     /\ UNCHANGED <<primary, remote, trouble>>

(* HTTP 429: everything is saved before the wait, and the game asked again;
   any other trouble, or the last refusal, is a failure of this game alone. *)
FetchRefused(c) ==
  LET state == [collectors[c] EXCEPT !.again = (@ + 1) % Attempts,
                                     !.todo = IF collectors[c].again + 1 = Attempts
                                              THEN @ \ {First(c)} ELSE @]
  IN /\ Fetches(c)
     /\ clock' = clock + 1
     /\ Now(c, Freezing(state, "loop"))
     /\ UNCHANGED <<primary, remote, trouble, observed>>

FetchFails(c) ==
  /\ Fetches(c) /\ Trouble
  /\ Now(c, [collectors[c] EXCEPT !.todo = @ \ {First(c)}, !.again = 0])
  /\ UNCHANGED <<primary, remote, clock, observed>>

(* The list or the budget is used up: "segment-end". *)
Finish(c) ==
  /\ At(c, "loop")
  /\ collectors[c].todo # {} => ~Reusable(c, First(c)) /\ collectors[c].budget = 0
  /\ Now(c, Freezing(collectors[c], "done"))
  /\ UNCHANGED <<remote, observed>> /\ Quiet
--------------------------------------------------------------------------------
(* persist_follower_checkpoint *)

(* The primary's failure ends the run; over Git it is a warning, and what is
   dirty stays dirty. *)
Settled(state) ==
  [state EXCEPT !.pc = state.next, !.frozen = Nothing, !.read = Nothing,
                !.stale = FALSE, !.tries = 0, !.next = "loop"]
ClearsDirty(state) ==                                                           \* a slip
  [Settled(state) EXCEPT !.pc = IF primary THEN "failed" ELSE @, !.dirty = 0]
Unsaved(state) == [Settled(state) EXCEPT !.pc = IF primary THEN "failed" ELSE @]

Read(c) ==
  /\ At(c, "read")
  /\ \/ /\ Now(c, [collectors[c] EXCEPT !.pc = "write", !.read = remote, !.stale = FALSE])
        /\ UNCHANGED trouble
     \/ Trouble /\ Now(c, Unsaved(collectors[c]))
  /\ UNCHANGED <<primary, remote, clock, observed>>

(* The merge with what was read is accepted if nothing was saved since. *)
Write(c, answered) ==
  LET state == collectors[c]
      merged == Newest(state.read, state.frozen)
      saved == [Settled(state) EXCEPT !.cache = merged, !.dirty = 0]
      others(mine) == [d \in Collector |-> IF d = c THEN mine ELSE
                        [collectors[d] EXCEPT !.stale = collectors[d].pc = "write"]]
  IN /\ At(c, "write") /\ ~state.stale
     /\ remote' = merged
     /\ IF answered THEN collectors' = others(saved) /\ UNCHANGED trouble
                    ELSE collectors' = others(Unsaved(state)) /\ Trouble
     /\ UNCHANGED <<primary, clock, observed>>

Conflict(c) ==
  LET state == collectors[c]
  IN /\ At(c, "write") /\ state.stale
     /\ Now(c, IF state.tries = Attempts THEN Unsaved(state)
               ELSE [state EXCEPT !.pc = "read", !.tries = @ + 1, !.stale = FALSE,
                                  !.read = Nothing])
     /\ UNCHANGED <<remote, observed>> /\ Quiet

(* The process ends, or is killed. *)
Exit(c) ==
  /\ ~At(c, "idle")
  /\ IF collectors[c].pc \in {"done", "failed"} THEN UNCHANGED trouble ELSE Trouble
  /\ Now(c, NoCollector)
  /\ observed' = [observed EXCEPT ![c] = Nothing]
  /\ UNCHANGED <<primary, remote, clock>>

Next ==
  \E c \in Collector :
    \/ \E games \in SUBSET App, budget \in 1..Cardinality(App) : Start(c, games, budget)
    \/ Reuse(c) \/ Fetch(c) \/ FetchRefused(c) \/ FetchFails(c) \/ Finish(c)
    \/ Read(c) \/ (\E answered \in BOOLEAN : Write(c, answered)) \/ Conflict(c)
    \/ Exit(c)

Spec == Init /\ [][Next]_followers
--------------------------------------------------------------------------------
(* Properties *)

(* The records and the collectors. *)
TypeOK ==
  /\ remote \in [App -> 0..MaxClock] /\ primary \in BOOLEAN
  /\ \A c \in Collector :
       /\ collectors[c].cache \in [App -> 0..MaxClock] /\ collectors[c].todo \subseteq App
       /\ collectors[c].dirty \in 0..Cardinality(App) /\ collectors[c].tries \in 0..Attempts
       /\ collectors[c].pc \in {"idle", "loop", "read", "write", "done", "failed"}
       /\ observed[c] \in [App -> 0..MaxClock]
  /\ clock \in 1..MaxClock /\ trouble \in 0..MaxTrouble

(* What a collector no longer counts as dirty is in the checkpoint, or a newer
   observation is, and stays so whatever the other collectors write ("Only a
   validated remote acknowledgement may update the shared cache and clear this
   run's pending observation count", _persist_checkpoint_remote). *)
AcknowledgedIsSaved ==
  \A c \in Collector :
    collectors[c].pc # "idle" /\ collectors[c].dirty = 0 =>
      \A a \in App : observed[c][a] <= remote[a]
================================================================================
