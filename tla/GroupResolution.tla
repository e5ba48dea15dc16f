---------------------------- MODULE GroupResolution ----------------------------
(***************************************************************************)
(* The official identity of a game's Steam group: application and domain    *)
(* official_groups.py, asked for by the hourly worker for its queue and by   *)
(* the growth collection for the public games (jobs/growth.py), which keeps *)
(* its receipts apart and merges them (state/growth_checkpoint.py).          *)
(*                                                                         *)
(* The two askers have one concurrency group and never run at once.  Twitch *)
(* reconciliation and the daily screening write the same checkpoint at any  *)
(* time: a row may get another date or admission, a group, a count, or      *)
(* leave the queue, while the answers about it are on their way.            *)
(***************************************************************************)
EXTENDS Integers, Sequences, FiniteSets, SequencesExt, FiniteSetsExt

CONSTANTS
  App, FromTwitch, Accepted,  \* games; those that Twitch found, those that are public
  Requests,       \* requests of one run
  Short, Long,    \* waits after an answer: a few hours, a day
  MaxTime, MaxEdit, MaxLoss   \* BOUNDS: the clock, what others change, dead runs

GroupAssumption ==
  /\ App \subseteq Nat /\ IsFiniteSet(App) /\ FromTwitch \cup Accepted \subseteq App
  /\ {Requests, Short, Long} \subseteq Nat \ {0} /\ Short <= Long
  /\ MaxTime \in Nat \ {0} /\ {MaxEdit, MaxLoss} \subseteq Nat

VARIABLES
  state,  \* the published checkpoint: queue rows, growth identities, the API's cooldown
  asking, \* the run that is at work
  tick, changes, died

groups == <<state, asking, tick, changes, died>>

Unasked == [status |-> "none", at |-> 0, retry |-> 0]
NoRow == [edition |-> 0, group |-> FALSE, receipt |-> Unasked]
Open == [status |-> "available", at |-> 0, retry |-> 0, attempts |-> 0]

NotAsking ==
  [pc |-> "idle", kind |-> "hourly", todo |-> <<>>, prior |-> Open, until |-> 0, update |-> Open,
   answers |-> [a \in App |-> Unasked], editions |-> [a \in App |-> 0], left |-> 0,
   own |-> <<>>]

Init ==
  /\ state = [rows |-> [a \in App |-> [NoRow EXCEPT !.edition = 1]],
              growth |-> [a \in App |-> Unasked], api |-> Open, counted |-> {}]
  /\ asking = NotAsking
  /\ tick = 1 /\ changes = 0 /\ died = 0

At(l) == asking.pc = l
--------------------------------------------------------------------------------
(* state/official_followers.py: what a checkpoint says of a game, in its queue
   and in the growth identities; a growth identity has a group iff it is resolved. *)

Known(s, a) == s.rows[a].group \/ s.growth[a].status = "resolved"
Newest(s, a) ==
  IF s.growth[a].at > s.rows[a].receipt.at THEN s.growth[a] ELSE s.rows[a].receipt

(* remember_group_resolution: a failed mapping removes no group, an older
   receipt replaces none. *)
Accepts(s, a, receipt) ==
  /\ receipt.status = "resolved" \/ ~Known(s, a)
  /\ receipt.at > Newest(s, a).at
Remembered(s, answers) ==
  [s EXCEPT !.growth = [a \in App |-> IF Accepts(s, a, answers[a]) THEN answers[a] ELSE @[a]]]

(* apply_api_cooldown: only a newer observation of the API replaces the last. *)
WithCooldown(s, update) ==
  IF update.at > s.api.at THEN [s EXCEPT !.api = update] ELSE s

(* failure_cooldown: a refusal is for a day; another failure waits twice as long each
   time, up to its longest wait. *)
Backoff(status, attempts) ==
  LET longest == IF status = "network" THEN Short ELSE Long
  IN IF status = "forbidden" THEN Long
     ELSE Min({longest} \cup {wait \in 1..longest : wait = 2 ^ (attempts - 1)})
FailureCooldown(prior, status, server) ==
  LET attempts == IF prior.status = status THEN prior.attempts + 1 ELSE 1
  IN [status |-> status, at |-> tick, attempts |-> attempts,
      retry |-> Max({tick + Backoff(status, attempts), server})]
--------------------------------------------------------------------------------
(* application/official_groups.py: collect *)

(* A future retry binds, but a key that was missing may be there now. *)
DueAgain(receipt, key) == receipt.retry <= tick \/ (key /\ receipt.status = "no key")

ForQueue(key) ==
  {a \in App : /\ state.rows[a] # NoRow /\ a \notin state.counted /\ ~state.rows[a].group
               /\ DueAgain(state.rows[a].receipt, key)}
(* The growth collection asks for public games, whether or not they are queued. *)
ForGrowth(s, key) ==
  {a \in Accepted : ~Known(s, a) /\ DueAgain(Newest(s, a), key)}

(* Those that Twitch found come first. *)
InOrder(apps, twitch) ==
  LET ascending(S) == SetToSortSeq(S, <)
  IN ascending(apps \cap twitch) \o ascending(apps \ twitch)
Selected(apps, twitch, n) ==
  LET order == InOrder(apps, twitch)
  IN [i \in 1..Min({n, Cardinality(apps)}) |-> order[i]]

(* The run reads the checkpoint.  Without a key it records only that; while the
   API cools down it asks nothing.  Instants of different runs differ. *)
Begun(run, s, apps, twitch, key) ==
  LET todo == Selected(apps, twitch, run.left)
      unkeyed == [status |-> "no key", at |-> tick, retry |-> tick + 1]
      begun == [run EXCEPT !.prior = s.api, !.until = s.api.retry, !.update = Open,
                  !.answers = [a \in App |-> Unasked],
                  !.editions = [a \in App |-> s.rows[a].edition]]
  IN IF ~key
     THEN [begun EXCEPT !.pc = "answered",
             !.answers = [a \in App |-> IF a \in Range(todo) THEN unkeyed ELSE Unasked]]
     ELSE [begun EXCEPT !.pc = "ask", !.todo = IF s.api.retry > tick THEN <<>> ELSE todo]

Later == /\ state.api.at < tick
         /\ \A a \in App : state.rows[a].receipt.at < tick /\ state.growth[a].at < tick

StartHourly(key) ==
  /\ At("idle") /\ Later
  /\ asking' = Begun([NotAsking EXCEPT !.left = Requests], state, ForQueue(key), FromTwitch, key)
  /\ UNCHANGED <<state, tick, changes, died>>

StartGrowth(key) ==
  /\ At("idle") /\ Later
  /\ asking' = Begun([NotAsking EXCEPT !.kind = "growth", !.left = Requests, !.own = state],
                     state, ForGrowth(state, key), {}, key)
  /\ UNCHANGED <<state, tick, changes, died>>

(* One request.  Retry-After may ask for longer than the run's own wait. *)
Answer(a, receipt, stops) ==
  [asking EXCEPT !.answers[a] = receipt, !.left = @ - 1,
     !.todo = IF stops THEN <<>> ELSE Tail(@)]

Stops(a, status, server) ==
  LET cooldown == FailureCooldown(asking.prior, status, server)
      receipt == [status |-> "failed", at |-> tick, retry |-> cooldown.retry]
  IN asking' = [Answer(a, receipt, TRUE) EXCEPT !.update = cooldown]

Fails(a, server) ==
  LET wait == IF asking.kind = "growth" THEN Short ELSE Long
      retry == Max({tick + wait, server, asking.until})
  IN asking' = Answer(a, [status |-> "failed", at |-> tick, retry |-> retry], FALSE)

(* An answer, that there is a group or that there is none, ends the backoff. *)
Replies(a, found, server) ==
  LET wait == IF asking.kind = "hourly" /\ a \in FromTwitch THEN Short ELSE Long
      retry == IF found THEN 0 ELSE Max({tick + wait, server, asking.until})
      open == [Open EXCEPT !.at = tick]
  IN asking' = [Answer(a, [status |-> IF found THEN "resolved" ELSE "missing",
                           at |-> tick, retry |-> retry], FALSE)
                EXCEPT !.update = open, !.prior = open]

Ask(server) ==
  /\ At("ask") /\ asking.todo # <<>>
  /\ LET a == Head(asking.todo)
     IN \/ \E status \in {"network", "limited", "forbidden"} : Stops(a, status, server)
        \/ Fails(a, server)
        \/ \E found \in BOOLEAN : Replies(a, found, server)
  /\ UNCHANGED <<state, tick, changes, died>>

(* Nothing is left to ask, or the time of the run is over. *)
EndBatch ==
  /\ At("ask")
  /\ asking' = [asking EXCEPT !.pc = "answered", !.todo = <<>>, !.prior = Open, !.until = 0]
  /\ UNCHANGED <<state, tick, changes, died>>
--------------------------------------------------------------------------------
(* domain/official_groups.py: apply_batch, on the newest checkpoint *)

Applies(a) ==
  /\ asking.answers[a] # Unasked
  /\ state.rows[a] # NoRow /\ a \notin state.counted /\ ~state.rows[a].group
  /\ asking.editions[a] = state.rows[a].edition
  /\ asking.answers[a].at > state.rows[a].receipt.at

Applied(a) ==
  IF Applies(a)
  THEN [state.rows[a] EXCEPT !.receipt = asking.answers[a],
                             !.group = asking.answers[a].status = "resolved"]
  ELSE state.rows[a]

ApplyBatch ==
  /\ At("answered") /\ asking.kind = "hourly"
  /\ state' = [WithCooldown(state, asking.update) EXCEPT !.rows = [a \in App |-> Applied(a)]]
  /\ asking' = NotAsking
  /\ UNCHANGED <<tick, changes, died>>
--------------------------------------------------------------------------------
(* jobs/growth.py and state/growth.py: the collection's own checkpoint, and its
   merge with the published one *)

(* _validate: one record of another shape, and no growth evidence is merged. *)
Valid(s) ==
  /\ \A a \in App : LET receipt == s.growth[a]
                  IN /\ receipt.retry # 0 => receipt.retry > receipt.at
                     /\ receipt.status = "missing" => receipt.retry # 0
  /\ s.api.retry # 0 => s.api.status # "available" /\ s.api.retry > s.api.at

Merged(s, base, mine) ==
  LET changed == {a \in App : mine.growth[a] # base.growth[a]}
      merged == [s EXCEPT !.growth = [a \in App |->
                   IF a \in changed /\ Accepts(s, a, mine.growth[a]) THEN mine.growth[a] ELSE @[a]]]
  IN IF mine.api = base.api THEN merged ELSE WithCooldown(merged, mine.api)

SaveGrowth ==
  LET mine == Remembered(WithCooldown(asking.own, asking.update), asking.answers)
      merged == Merged(state, asking.own, mine)
  IN /\ At("answered") /\ asking.kind = "growth"
     /\ Valid(state) /\ Valid(mine)
     /\ state' = merged
     /\ asking' = [NotAsking EXCEPT !.kind = "growth", !.pc = "saved", !.left = asking.left,
                                     !.own = merged]
     /\ UNCHANGED <<tick, changes, died>>

(* Another pass of the day resumes with what is left of the budget. *)
AnotherPass(key) ==
  /\ At("saved") /\ asking.left > 0 /\ asking.own.api.at < tick
  /\ \A a \in App : Newest(asking.own, a).at < tick
  /\ asking' = Begun(asking, asking.own, ForGrowth(asking.own, key), {}, key)
  /\ UNCHANGED <<state, tick, changes, died>>

FinishGrowth ==
  /\ At("saved") /\ asking' = NotAsking
  /\ UNCHANGED <<state, tick, changes, died>>

(* The run is cancelled, or nothing it sends is accepted. *)
Die ==
  /\ ~At("idle") /\ died < MaxLoss /\ died' = died + 1
  /\ asking' = NotAsking
  /\ UNCHANGED <<state, tick, changes>>
--------------------------------------------------------------------------------
(* The other writers of the queue. *)
Edit == changes < MaxEdit /\ changes' = changes + 1 /\ UNCHANGED <<asking, tick, died>>

Redate(a) ==
  /\ state.rows[a] # NoRow /\ Edit
  /\ state' = [state EXCEPT !.rows[a].edition = @ + 1]
(* The daily screening lists it again, and may know its group. *)
List(a, group) ==
  /\ \/ state.rows[a] = NoRow
     \/ group /\ ~state.rows[a].group
  /\ Edit
  /\ state' = [state EXCEPT !.rows[a] =
       [state.rows[a] EXCEPT !.edition = Max({1, @}), !.group = @ \/ group]]
Leave(a) ==
  /\ state.rows[a] # NoRow /\ Edit
  /\ state' = [state EXCEPT !.rows[a] = NoRow]
Count(a) ==
  /\ Known(state, a) /\ a \notin state.counted /\ Edit
  /\ state' = [state EXCEPT !.counted = @ \cup {a}]
Tick ==
  /\ tick < MaxTime /\ tick' = tick + 1
  /\ UNCHANGED <<state, asking, changes, died>>

Next ==
  \/ \E key \in BOOLEAN : StartHourly(key) \/ StartGrowth(key) \/ AnotherPass(key)
  \/ \E server \in {0, tick + Long} : Ask(server)
  \/ EndBatch \/ ApplyBatch \/ SaveGrowth \/ FinishGrowth \/ Die \/ Tick
  \/ \E a \in App : Redate(a) \/ Leave(a) \/ Count(a) \/ \E group \in BOOLEAN : List(a, group)

Spec == Init /\ [][Next]_groups
--------------------------------------------------------------------------------
(* Properties *)

Receipts ==
  [status : {"none", "no key", "failed", "missing", "resolved"}, at : 0..MaxTime,
   retry : 0..(MaxTime + Long)]

(* The checkpoint, which the growth collection must be able to merge, and what
   the run holds. *)
TypeOK ==
  /\ state.growth \in [App -> Receipts]
  /\ state.rows \in [App -> [edition : 0..(MaxEdit + 1), group : BOOLEAN, receipt : Receipts]]
  /\ state.counted \subseteq App /\ Valid(state)
  /\ asking.answers \in [App -> Receipts] /\ asking.left \in 0..Requests
  /\ state.api.at \in 0..MaxTime /\ state.api.retry \in 0..(MaxTime + Long)
  /\ tick \in 1..MaxTime /\ changes \in 0..MaxEdit /\ died \in 0..MaxLoss

(* Answers arrive late, in any order with the edits of others.  A game never
   loses a group that the queue or the growth identities know, as long as its row
   stays; no receipt is replaced by an older one; and the receipt that a row gets
   is about the row as it is, not about an earlier date or admission
   ("A metadata failure cannot remove a concurrently resolved group",
   growth_checkpoint.py). *)
KeepsIdentity ==
  \A a \in App :
    LET entry == state.rows[a]  later == state'.rows[a]
    IN /\ state.growth[a].status = "resolved" => state'.growth[a].status = "resolved"
       /\ state'.growth[a].at >= state.growth[a].at
       /\ state'.growth[a] # state.growth[a] => Known(state', a) = (state'.growth[a].status = "resolved")
       /\ entry # NoRow /\ later # NoRow =>
            /\ entry.group => later.group
            /\ later.receipt.at >= entry.receipt.at
            /\ later.receipt # entry.receipt => asking.editions[a] = entry.edition
IdentityIsKept == [][KeepsIdentity]_groups

(* A cooldown of the API that the checkpoint shows is served: it is not lifted
   or shortened before its end, by whichever asker, and no request is sent in it,
   nor by the run that was just refused. *)
Sends == At("ask") /\ asking'.pc = "ask" /\ asking'.left < asking.left
ServesCooldown ==
  /\ state.api.retry > tick => state'.api.retry >= state.api.retry /\ ~Sends
  /\ asking.update.retry > tick => ~Sends
CooldownIsServed == [][ServesCooldown]_groups
================================================================================
