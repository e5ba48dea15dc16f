--------------------------- MODULE CommunityCooldown ---------------------------
(***************************************************************************)
(* The cooldown that the official worker and the daily growth collection    *)
(* share through one checkpoint: state/official_followers.py (CooldownStore),*)
(* adapters/official_followers.py, and the merge of state/growth_checkpoint. *)
(*                                                                         *)
(* The workers share a concurrency group, so one of them runs at a time; but *)
(* the batches that they froze are replayed, whenever an operator submits   *)
(* the artifact.  The failure counters only lengthen the wait, which is     *)
(* chosen here; the two spellings of the deadline are one field.            *)
(***************************************************************************)
EXTENDS Integers, FiniteSets, FiniteSetsExt

CONSTANTS
  Wait,       \* how long a refused worker is told, or decides, to wait
  MaxNow,     \* BOUND on the clock
  MaxUnsent,  \* BOUND on the kept batches
  MaxLoss     \* BOUND on deaths, lost answers and refused saves

CooldownAssumption ==
  /\ Wait \subseteq Nat \ {0} /\ IsFiniteSet(Wait)
  /\ MaxNow \in Nat \ {0} /\ MaxUnsent \in Nat /\ MaxLoss \in Nat

VARIABLES
  community,  \* the Community fields of the authoritative checkpoint
  asker,      \* the running worker
  unsent,     \* frozen batches kept as artifacts
  now,
  losses,
  refusals    \* history: the refused requests and the deadlines they set

cooldown == <<community, asker, unsent, now, losses, refusals>>

(* 0 stands for an absent time. *)
Fields == {"until", "limited", "success"}
Quiet == [f \in Fields |-> 0]
Larger(a, b) == IF a > b THEN a ELSE b

NoAsker == [pc |-> "idle", kind |-> "official", start |-> Quiet, base |-> Quiet, cp |-> Quiet,
            asked |-> 0, failed |-> {}]

Init ==
  /\ community = Quiet /\ asker = NoAsker /\ unsent = {}
  /\ now = 1 /\ losses = 0 /\ refusals = {}
--------------------------------------------------------------------------------
(* merge_growth_checkpoint: what a frozen batch makes of the newest fields. *)

Changed(b) == {f \in Fields : b.seen[f] # b.base[f]}
Adopted(latest, b) == [f \in Fields |-> IF f \in Changed(b) THEN b.seen[f] ELSE latest[f]]

(* The report's events tell when a request failed; else the cooldown does. *)
FailedAt(b) == IF b.failed # {} THEN Max(b.failed) ELSE b.seen.limited
SuccessIsNewest(b) == b.seen.success # 0 /\ b.seen.success >= FailedAt(b)

(* What is durable is newer than the success of the batch. *)
FailureOnly(latest, b) == latest.limited > b.seen.success                        \* a slip
Outdated(latest, b) ==
  \/ latest.success > b.seen.success
  \/ latest.limited > b.seen.success
  \/ /\ latest.until > b.seen.success
     /\ \/ latest.limited = 0
        \/ latest.until # b.base.until /\ latest.limited = b.base.limited

Longest(latest, b) == Larger(latest.until, b.seen.until)

Merge(latest, b) ==
  CASE Changed(b) = {} -> latest
    [] Changed(b) # {} /\ latest = b.base -> Adopted(latest, b)
    [] OTHER ->
       IF SuccessIsNewest(b)
       THEN IF Outdated(latest, b) THEN latest ELSE Adopted(latest, b)
       ELSE IF FailedAt(b) = 0
       THEN IF latest.success > b.base.success THEN latest
            ELSE [latest EXCEPT !.until = Longest(latest, b)]
       ELSE IF latest.success >= FailedAt(b) THEN latest
       ELSE [latest EXCEPT !.until = Longest(latest, b),
                           !.limited = IF b.seen.limited # 0 /\ FailedAt(b) >= latest.limited
                                       THEN b.seen.limited ELSE @]
--------------------------------------------------------------------------------
AtStep(l) == asker.pc = l
Lost == losses < MaxLoss /\ losses' = losses + 1
SameClock == UNCHANGED <<now, refusals>>

(* An hourly batch, one that an operator starts with the cooldown overridden,
   or a growth collection. *)
Start(kind) ==
  /\ AtStep("idle")
  /\ asker' = [NoAsker EXCEPT !.pc = "ready", !.kind = kind, !.start = community,
                              !.base = community, !.cp = community]
  /\ UNCHANGED <<community, unsent, losses>> /\ SameClock

(* OfficialFollowerClient.fetch: nothing is asked during a cooldown. *)
Blocked(c) == now < c.until

Ask ==
  /\ AtStep("ready")
  /\ Blocked(asker.cp) => asker.kind = "override"
  /\ now < MaxNow
  /\ asker' = [asker EXCEPT !.pc = "asking", !.asked = now]
  /\ UNCHANGED <<community, unsent, losses>> /\ SameClock

(* CooldownStore.success.  A request takes time. *)
Succeed ==
  /\ AtStep("asking")
  /\ now' = now + 1
  /\ asker' = [asker EXCEPT !.cp = [until |-> 0, limited |-> 0, success |-> now'],
                            !.pc = IF asker.kind = "growth" THEN "save" ELSE "item"]
  /\ UNCHANGED <<community, unsent, losses, refusals>>

(* CooldownStore.rate_limited and temporary_failure: a deadline only grows.
   The official worker's event carries the time before the request.  A refusal
   ends the batch, but for the collection's 429: it goes on to the next game. *)
Refused(limited, wait) ==
  LET at == now + 1
      until == Larger(at + wait, asker.cp.until)
  IN /\ AtStep("asking")
     /\ now' = at
     /\ asker' = [asker EXCEPT
          !.cp.until = until, !.cp.limited = IF limited THEN at ELSE @,
          !.failed = @ \cup {IF asker.kind = "growth" THEN at ELSE asker.asked},
          !.pc = IF limited /\ asker.kind = "growth" THEN "save" ELSE "last"]
     /\ refusals' = refusals \cup {[at |-> at, until |-> until, limited |-> limited]}
     /\ UNCHANGED <<community, unsent, losses>>

(* Another answer says nothing of the service, and the batch is saved every
   few items: --save-every. *)
NextItem ==
  /\ AtStep("item")
  /\ asker' = [asker EXCEPT !.pc = "save"] \/ asker' = [asker EXCEPT !.pc = "ready"]
  /\ UNCHANGED <<community, unsent, losses>> /\ SameClock

(* A save between two requests.  The progress reports of a growth collection
   hold no events (save_progress). *)
Progress ==
  [base |-> asker.base, seen |-> asker.cp,
   failed |-> IF asker.kind = "growth" THEN {} ELSE asker.failed]

Saving == AtStep("save") \/ AtStep("last")

(* The worker goes on with the merged checkpoint. *)
Save ==
  LET merged == Merge(community, Progress)
  IN /\ Saving
     /\ community' = merged
     /\ asker' = [asker EXCEPT !.base = merged, !.cp = merged,
                               !.failed = IF asker.kind = "growth" THEN @ ELSE {},
                               !.pc = IF AtStep("last") THEN "final" ELSE "ready"]
     /\ UNCHANGED <<unsent, losses>> /\ SameClock

(* The save is refused, or accepted and its answer lost.  A growth collection
   leaves its last progress report, and so no events. *)
SaveFails(accepted) ==
  /\ Saving /\ Lost
  /\ community' = IF accepted THEN Merge(community, Progress) ELSE community
  /\ asker' = [asker EXCEPT !.pc = "final",
                            !.failed = IF asker.kind = "growth" THEN {} ELSE @]
  /\ UNCHANGED unsent /\ SameClock

Stop ==
  /\ AtStep("ready")
  /\ asker' = [asker EXCEPT !.pc = "final"]
  /\ UNCHANGED <<community, unsent, losses>> /\ SameClock

(* The last delivery: the official worker's own baseline, or the collection's
   first one and all its events (publish_growth_checkpoint). *)
Delivery ==
  [base |-> IF asker.kind = "growth" THEN asker.start ELSE asker.base,
   seen |-> asker.cp, failed |-> asker.failed]

(* The batch remains an artifact, whatever became of it. *)
Keep == unsent' \in {unsent} \cup
          (IF Cardinality(unsent) < MaxUnsent THEN {unsent \cup {Delivery}} ELSE {})

Deliver ==
  /\ AtStep("final")
  /\ community' = Merge(community, Delivery)
  /\ asker' = NoAsker
  /\ Keep
  /\ UNCHANGED losses /\ SameClock

DeliveryFails ==
  /\ AtStep("final") /\ Lost
  /\ asker' = NoAsker
  /\ Keep
  /\ UNCHANGED community /\ SameClock

Vanish ==
  /\ ~AtStep("idle") /\ Lost
  /\ asker' = NoAsker
  /\ UNCHANGED <<community, unsent>> /\ SameClock

Resubmit(b) ==
  /\ community' = Merge(community, b)
  /\ UNCHANGED <<asker, unsent, losses>> /\ SameClock

Tick ==
  /\ ~AtStep("asking")
  /\ now < MaxNow /\ now' = now + 1
  /\ UNCHANGED <<community, asker, unsent, losses, refusals>>

Next ==
  \/ \E kind \in {"official", "override", "growth"} : Start(kind)
  \/ Ask \/ Succeed \/ (\E limited \in BOOLEAN, wait \in Wait : Refused(limited, wait))
  \/ NextItem \/ Save \/ (\E accepted \in BOOLEAN : SaveFails(accepted))
  \/ Stop \/ Deliver \/ DeliveryFails \/ Vanish
  \/ (\E b \in unsent : Resubmit(b)) \/ Tick

Spec == Init /\ [][Next]_cooldown
--------------------------------------------------------------------------------
(* Properties *)

Times == 0..(MaxNow + Max(Wait \cup {0}))
Record == [Fields -> Times]

(* The values of the checkpoint and of the worker. *)
TypeOK ==
  /\ community \in Record
  /\ {asker.start, asker.base, asker.cp} \subseteq Record /\ asker.failed \subseteq 1..MaxNow
  /\ \A b \in unsent : b.base \in Record /\ b.seen \in Record
  /\ now \in 1..MaxNow /\ losses \in 0..MaxLoss

SetBy(until) == {r \in refusals : r.until = until}
KeepsFailure ==
  community'.until < community.until =>
    \E r \in SetBy(community.until) : r.at <= community'.success

(* "A stale success cannot erase a newer failure" (merge_growth_checkpoint):
   the durable deadline only gets shorter for a success that came after a
   refusal that set it.  A kept batch that is submitted again breaks it. *)
FailureIsKept == [][KeepsFailure]_cooldown

(* It holds of the workers' own saves, lost answers included.  And whatever is
   submitted again, the time of the last success never goes back: a batch does
   not undo a success that it does not know. *)
KeepsAnswers ==
  /\ unsent = {} => KeepsFailure
  /\ community'.success >= community.success
AnswersAreKept == [][KeepsAnswers]_cooldown
================================================================================
