------------------------------ MODULE OfficialQueue -----------------------------
(***************************************************************************)
(* The queue of the hourly Followers worker: domain/official_queue.py, the  *)
(* loop of application/official_followers.py, the reversible overlay of     *)
(* domain/twitch_official_queue.py and the receipts of official_groups.py.  *)
(*                                                                         *)
(* The hours are serialized by a concurrency group, and each of them goes   *)
(* through the steps of steam-official-daily-catchup-250.yml: the Twitch    *)
(* candidates are synchronised, missing groups resolved, some games asked,  *)
(* and Twitch is synchronised again.  A game's number stands for the order  *)
(* of the release dates.  A deadline is a state that ends at some time.     *)
(***************************************************************************)
EXTENDS Integers, Sequences, FiniteSets

CONSTANTS
  Frozen,       \* the games of the frozen list, whose groups are known
  Listed,       \* the games that the daily screening may list, groups unknown
  Tracked,      \* the games that Twitch may report
  Cached,       \* the games whose groups an older cache knows
  MaxRequests,  \* --max-requests
  MaxEvents, KeptEvents,  \* the list of attempts is cut to the newest
  MaxSlip       \* BOUND on deaths and failed saves

Game == Frozen \cup Listed \cup Tracked

QueueAssumption ==
  /\ Game \subseteq Nat /\ IsFiniteSet(Game) /\ Cached \subseteq Game
  /\ MaxRequests \in Nat \ {0} /\ MaxSlip \in Nat
  /\ {MaxEvents, KeptEvents} \subseteq Nat
  /\ Cardinality(Game) <= KeptEvents /\ KeptEvents < MaxEvents

VARIABLES
  official,  \* the durable checkpoint
  batch,     \* the running hour
  listing,   \* the games of the current day's screening
  fate,      \* what the Twitch importer says of its games
  slips

queue == <<official, batch, listing, fate, slips>>

(* A row and, while Twitch has the game, the ordinary row that it covers. *)
NoRow == [source |-> "none", normal |-> "none", group |-> FALSE]
Ordinary == {"frozen", "daily"}
Rows == [source : Ordinary \cup {"none", "twitch"}, normal : Ordinary \cup {"none"},
         group : BOOLEAN]
Fates == {"none", "retained", "accepted", "excluded"}   \* "none": inactive, or not verified yet

NoCheckpoint ==
  [pending |-> [g \in Game |-> NoRow], admitted |-> {}, results |-> {}, events |-> <<>>,
   cooling |-> FALSE]
NoBatch == [pc |-> "idle", cp |-> NoCheckpoint, rest |-> <<>>, asked |-> 0, errors |-> 0]

Init ==
  /\ official = NoCheckpoint /\ batch = NoBatch
  /\ listing = {} /\ fate = [g \in Tracked |-> "none"] /\ slips = 0
--------------------------------------------------------------------------------
(* make_queue *)

Pending(cp) == {g \in Game : cp.pending[g].source # "none"}

(* last_failed_request_times, oldest first: the games whose newest attempt failed. *)
NewestOf(events, g) ==
  LET at == {i \in DOMAIN events : events[i].app = g}
  IN IF at = {} THEN 0 ELSE CHOOSE i \in at : \A j \in at : j <= i
FailedAt(events, g) ==
  LET i == NewestOf(events, g) IN IF i # 0 /\ events[i].kind # "ok" THEN i ELSE 0

(* The row of a game that the daily screening lists again keeps its group, and
   stays under a Twitch row that is active. *)
Refreshed(row) ==
  IF row.source = "twitch" THEN [row EXCEPT !.normal = "daily"]
  ELSE [row EXCEPT !.source = "daily"]

WithSources(cp) ==
  [cp EXCEPT !.pending = [g \in Game |->
     IF g \in cp.admitted THEN NoRow
     ELSE IF g \in listing \ cp.results THEN Refreshed(cp.pending[g])
     ELSE IF g \in Frozen /\ cp.pending[g] = NoRow
     THEN [NoRow EXCEPT !.source = "frozen", !.group = TRUE]
     ELSE cp.pending[g]]]

(* HTML instead of XML, and no group: parked until a group is known. *)
Parked(cp, g) ==
  /\ ~cp.pending[g].group
  /\ \E i \in DOMAIN cp.events : cp.events[i] = [app |-> g, kind |-> "html"]

Due(cp, g) ==
  /\ cp.pending[g].source # "none" /\ g \notin cp.results
  /\ cp.pending[g].source = "twitch" => fate[g] # "excluded"
  /\ ~Parked(cp, g)

Known(cp, g) == cp.pending[g].group \/ g \in Cached

(* Unfailed games first, then the oldest failure; Twitch before the others. *)
TwitchFirst(cp, a, b) ==                                                        \* a slip
  LET twitch(g) == IF cp.pending[g].source = "twitch" THEN 0 ELSE 1
  IN twitch(a) < twitch(b) \/ (twitch(a) = twitch(b) /\ a < b)
Before(cp, a, b) ==
  LET failed(g) == FailedAt(cp.events, g)
      twitch(g) == IF cp.pending[g].source = "twitch" THEN 0 ELSE 1
  IN \/ failed(a) < failed(b)
     \/ failed(a) = failed(b) /\ twitch(a) < twitch(b)
     \/ failed(a) = failed(b) /\ twitch(a) = twitch(b) /\ a < b

Queue(cp) ==
  LET due == {g \in Pending(cp) : Due(cp, g) /\ Known(cp, g)}
  IN [i \in 1..Cardinality(due) |->
        CHOOSE g \in due : Cardinality({h \in due : Before(cp, h, g)}) = i - 1]
--------------------------------------------------------------------------------
At(l) == batch.pc = l
Slip == slips < MaxSlip /\ slips' = slips + 1
Outside == UNCHANGED <<listing, fate>>
Goes(l) == batch' = [NoBatch EXCEPT !.pc = l]

Start ==
  /\ At("idle")
  /\ Goes("prepare")
  /\ UNCHANGED <<official, slips>> /\ Outside

(* A game's ordinary row, with what was learnt while Twitch had it. *)
Restored(row) ==
  IF row.normal = "none" THEN NoRow ELSE [row EXCEPT !.source = row.normal, !.normal = "none"]
ForgetsNormal(row) == [row EXCEPT !.source = "twitch"]                           \* a slip
Overlaid(row) ==
  [row EXCEPT !.source = "twitch", !.normal = IF row.source \in Ordinary THEN row.source ELSE @]

(* sync_twitch_queue on the newest checkpoint: an accepted game without a count
   leaves the queue for good. *)
Synced(cp) ==
  LET admitted == cp.admitted \cup {g \in Tracked \ cp.results : fate[g] = "accepted"}
      row(g) == IF g \in admitted \ cp.admitted THEN NoRow
                ELSE IF g \in Tracked /\ fate[g] = "retained"
                THEN IF g \in admitted THEN cp.pending[g] ELSE Overlaid(cp.pending[g])
                ELSE IF cp.pending[g].source = "twitch" THEN Restored(cp.pending[g])
                ELSE cp.pending[g]
  IN [cp EXCEPT !.pending = [g \in Game |-> row(g)], !.admitted = admitted]

SyncTwitch ==
  /\ At("prepare") \/ At("finalize")
  /\ official' = Synced(official)
  /\ Goes(IF At("prepare") THEN "groups" ELSE "idle")
  /\ UNCHANGED slips /\ Outside

(* collect and apply_batch, on the queue as it is now: some of the games without
   a group, parked ones too, are resolved. *)
ResolveGroups(found) ==
  LET cp == WithSources(official)
  IN /\ At("groups")
     /\ \A g \in found : ~cp.pending[g].group /\ g \notin cp.results
                           /\ (Due(cp, g) \/ Parked(cp, g))
     /\ official' = [cp EXCEPT !.pending =
          [g \in Game |-> IF g \in found THEN [@[g] EXCEPT !.group = TRUE] ELSE @[g]]]
     /\ Goes("query")
     /\ UNCHANGED slips /\ Outside

FirstOf(seq) == SubSeq(seq, 1, IF Len(seq) < MaxRequests THEN Len(seq) ELSE MaxRequests)

(* run_official_batch up to its first request. *)
MakeQueue(override) ==
  LET cp == WithSources(official)
      rest == IF official.cooling /\ ~override THEN <<>> ELSE FirstOf(Queue(cp))
  IN /\ At("query")
     /\ batch' = [NoBatch EXCEPT !.pc = "loop", !.cp = cp, !.rest = rest]
     /\ UNCHANGED <<official, slips>> /\ Outside

Cut(events) ==
  IF Len(events) > MaxEvents
  THEN SubSeq(events, Len(events) - KeptEvents + 1, Len(events)) ELSE events

(* What one answer leaves: a count, a failure of this game alone, another
   status, a failure of the service, or a page instead of XML, which is told
   apart for a game without a group. *)
Answered(kind) ==
  LET g == Head(batch.rest)
  IN [batch.cp EXCEPT
        !.events = Cut(Append(@, [app |-> g, kind |-> IF kind \in {"ok", "html"} THEN kind
                                                      ELSE "failed"])),
        !.results = IF kind = "ok" THEN @ \cup {g} ELSE @,
        !.cooling = IF kind = "ok" THEN FALSE ELSE @ \/ kind \in {"service", "html"}]

Ask(kind) ==
  LET errors == IF kind = "item" THEN batch.errors + 1 ELSE 0
      goes == kind = "ok" \/ (kind = "item" /\ errors < 3)
  IN /\ At("loop") /\ batch.rest # <<>>
     /\ kind = "html" => ~batch.cp.pending[Head(batch.rest)].group
     /\ batch' = [batch EXCEPT !.cp = Answered(kind), !.asked = Head(batch.rest),
                               !.errors = errors, !.pc = IF goes THEN "loop" ELSE "final",
                               !.rest = IF goes THEN Tail(@) ELSE <<>>]
     /\ official' = IF kind = "ok" THEN official ELSE Answered(kind)
     /\ UNCHANGED slips /\ Outside

(* The save after a failure is refused: the batch ends. *)
AskUnsaved ==
  /\ At("loop") /\ batch.rest # <<>> /\ Slip
  /\ batch' = [batch EXCEPT !.cp = Answered("service"), !.asked = Head(batch.rest),
                            !.pc = "final", !.rest = <<>>]
  /\ UNCHANGED official /\ Outside

(* A save of every few counts, or the end of the time budget. *)
SaveCounts ==
  /\ At("loop") /\ batch.asked # 0 /\ official # batch.cp
  /\ official' = batch.cp
  /\ UNCHANGED <<batch, slips>> /\ Outside

EndLoop ==
  /\ At("loop") /\ (batch.rest = <<>> \/ batch.asked # 0)
  /\ batch' = [batch EXCEPT !.pc = "final", !.rest = <<>>, !.asked = 0]
  /\ UNCHANGED <<official, slips>> /\ Outside

FinalSave ==
  /\ At("final")
  /\ official' = batch.cp
  /\ Goes("finalize")
  /\ UNCHANGED slips /\ Outside

Die ==
  /\ ~At("idle") /\ Slip
  /\ Goes("idle")
  /\ UNCHANGED official /\ Outside

HourStep ==
  \/ SyncTwitch \/ SaveCounts \/ EndLoop \/ FinalSave
  \/ \E found \in SUBSET Game : ResolveGroups(found)
  \/ \E override \in BOOLEAN : MakeQueue(override)
  \/ \E kind \in {"ok", "item", "other", "service", "html"} : Ask(kind)
--------------------------------------------------------------------------------
(* The day's screening, Twitch, and the end of a cooldown. *)
List(games) ==
  /\ games # listing /\ listing' = games
  /\ UNCHANGED <<official, batch, fate, slips>>

Report(g, f) ==
  /\ f # fate[g] /\ fate' = [fate EXCEPT ![g] = f]
  /\ UNCHANGED <<official, batch, listing, slips>>

CoolDown ==
  /\ official.cooling
  /\ official' = [official EXCEPT !.cooling = FALSE]
  /\ batch' = [batch EXCEPT !.cp.cooling = FALSE]
  /\ UNCHANGED slips /\ Outside

Next ==
  \/ Start \/ HourStep \/ AskUnsaved \/ Die \/ CoolDown
  \/ \E games \in SUBSET Listed : List(games)
  \/ \E g \in Tracked, f \in Fates : Report(g, f)

Spec == Init /\ [][Next]_queue

(* The hours come (Cloudflare dispatches them), a running one goes on, and a
   cooldown ends. *)
Fairness == WF_queue(Start) /\ WF_queue(HourStep) /\ WF_queue(CoolDown)
FairSpec == Spec /\ Fairness
--------------------------------------------------------------------------------
(* Properties *)

(* The checkpoint's rows, and the worker's. *)
TypeOK ==
  /\ \A cp \in {official, batch.cp} :
       /\ cp.pending \in [Game -> Rows] /\ cp.admitted \subseteq Tracked /\ cp.results \subseteq Game
       /\ Len(cp.events) <= MaxEvents
       /\ \A g \in Game : cp.pending[g].normal # "none" => cp.pending[g].source = "twitch"
  /\ batch.pc \in {"idle", "prepare", "groups", "query", "loop", "final", "finalize"}
  /\ listing \subseteq Listed /\ fate \in [Tracked -> Fates] /\ slips \in 0..MaxSlip

OrdinaryRow(row) == row.source \in Ordinary \/ row.normal \in Ordinary
KeepsCandidates ==
  \A g \in Game : OrdinaryRow(official.pending[g]) =>
    \/ /\ OrdinaryRow(official'.pending[g])
       /\ official.pending[g].group => official'.pending[g].group
    \/ g \in official'.admitted

(* Twitch comes and goes, the day's rows are refreshed, an hour dies: an
   ordinary candidate stays until it has a count or Twitch's admission, and a
   group that was once resolved stays with it ("Daily metadata refresh must
   retain a separately resolved group", make_queue; "expiration restores the
   original queue source", sync_twitch_queue). *)
CandidateIsKept == [][KeepsCandidates]_queue

InQueue(g) == Due(WithSources(official), g) /\ Known(WithSources(official), g)
HasItsTurn(g) == ~InQueue(g) \/ batch.asked = g

(* However often others fail, and whatever Twitch adds, a game whose group is
   known is asked at some time, if it does not leave the queue before ("one
   unavailable Twitch endpoint must not monopolize every first request",
   make_queue). *)
EveryoneIsAsked == \A g \in Game : []<>HasItsTurn(g)
================================================================================
