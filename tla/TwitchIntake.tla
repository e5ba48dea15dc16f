------------------------------ MODULE TwitchIntake ------------------------------
(***************************************************************************)
(* Admission of the games Twitch discovered: collect, dispatch and the      *)
(* application of their frozen batches (application/twitch_intake.py,       *)
(* state/twitch_intake.py), over the admission rules of                     *)
(* domain/twitch_intake.py and radar_core/domain/twitch_admission.py.       *)
(*                                                                         *)
(* A job freezes the discoveries, the master and its own state, asks Steam, *)
(* and applies what it found to whatever the master has become: dates,      *)
(* counts and adult evidence are written by other workflows in the          *)
(* meantime.  Then it announces the admitted rows to the content backend    *)
(* and saves the receipts the same way.  Evidence is the time it was        *)
(* observed; zero is none.  Its queue is the subject of OfficialQueue.      *)
(***************************************************************************)
EXTENDS Integers, FiniteSets, FiniteSetsExt

CONSTANTS
  Title,         \* the games, numbered
  MaxTime,       \* BOUND on observations
  MaxUpdates,    \* BOUND on what other workflows and Twitch write
  MaxMishaps     \* BOUND on failures of a request, a save or a process

TwitchAssumption ==
  /\ Title \subseteq Nat /\ IsFiniteSet(Title)
  /\ MaxTime \in Nat \ {0} /\ {MaxUpdates, MaxMishaps} \subseteq Nat

VARIABLES
  discovered,  \* the proof of each game on Twitch, while it is active
  master,      \* the rows of the Steam master
  adult,       \* the ledger of audited adult games
  intake,      \* twitch_steam_import_state.json, per game
  steam,       \* and its cooldown of the metadata requests
  job,
  content,     \* history: what the content backend was sent
  time, updates, failures

twitch == <<discovered, master, adult, intake, steam, job, content, time, updates, failures>>

NoRow == [date |-> 0, followers |-> 0, proof |-> 0, adult |-> FALSE]
Signature(row) == <<row.followers, row.date, row.proof>>
NoSignature == <<0, 0, 0>>
NoState == [status |-> "none", updated |-> 0, signature |-> NoSignature, sent |-> NoSignature,
            retry |-> 0, proof |-> 0]
NoUpdate == [NoState EXCEPT !.status = "unchanged"]
NoBatch == [at |-> 0, records |-> [a \in Title |-> NoRow],
            states |-> [a \in Title |-> NoUpdate], cooldown |-> [retry |-> 0, updated |-> 0]]
NoJob == [pc |-> "idle", todo |-> {}, proofs |-> [a \in Title |-> 0],
          rows |-> [a \in Title |-> NoRow], states |-> [a \in Title |-> NoState], blocked |-> {},
          batch |-> NoBatch]

Init ==
  /\ discovered = [a \in Title |-> 0] /\ master \in [Title -> {NoRow, [NoRow EXCEPT !.date = 1]}]
  /\ adult = {} /\ intake = [a \in Title |-> NoState] /\ steam = [retry |-> 0, updated |-> 0]
  /\ job = NoJob /\ content = {} /\ time = 1 /\ updates = 0 /\ failures = 0

(* is_twitch_qualified: a proof, an exact date and screened content. *)
Qualified(row) == row.date > 0 /\ row.proof > 0 /\ ~row.adult
Later == time < MaxTime /\ time' = time + 1
Mishap == failures < MaxMishaps /\ failures' = failures + 1
Calm == UNCHANGED <<time, updates, failures>>
--------------------------------------------------------------------------------
(* Twitch and the other workflows, each in a concurrency group of its own *)

Update == updates < MaxUpdates /\ updates' = updates + 1 /\ Later
          /\ UNCHANGED <<intake, steam, job, content, failures>>

Discover(a) ==
  /\ Update /\ discovered' = [discovered EXCEPT ![a] = time']
  /\ UNCHANGED <<master, adult>>
Expire(a) ==
  /\ discovered[a] # 0 /\ Update /\ discovered' = [discovered EXCEPT ![a] = 0]
  /\ UNCHANGED <<master, adult>>
Observe(a, what) ==
  /\ master[a].date > 0 /\ Update
  /\ master' = [master EXCEPT ![a] = CASE what = "date" -> [@ EXCEPT !.date = time']
                                       [] what = "followers" -> [@ EXCEPT !.followers = time']
                                       [] what = "adult" -> [@ EXCEPT !.adult = TRUE]]
  /\ UNCHANGED <<discovered, adult>>
Audit(a) ==
  /\ a \notin adult /\ Update /\ adult' = adult \cup {a}
  /\ UNCHANGED <<discovered, master>>
--------------------------------------------------------------------------------
(* collect *)

At(pc) == job.pc = pc
First == Min(job.todo)
World == UNCHANGED <<discovered, master, adult, intake, steam, content>>

Start ==
  /\ At("idle") /\ Later
  /\ job' = [NoJob EXCEPT !.pc = "collect", !.todo = {a \in Title : discovered[a] # 0},
                          !.proofs = discovered, !.rows = master, !.states = intake,
                          !.blocked = adult,
                          !.batch.at = time', !.batch.cooldown = steam]
  /\ World /\ UNCHANGED <<updates, failures>>

(* One game of the batch is dealt with; the collection may stop there. *)
Recorded(state, a) == [job EXCEPT !.todo = @ \ {a}, !.batch.states[a] = state]
Stopped(state, a) == [Recorded(state, a) EXCEPT !.todo = {}]
Pending(a) == [NoState EXCEPT !.status = "pending", !.updated = job.batch.at,
                              !.proof = job.proofs[a]]
Accepted(a, row) == [Pending(a) EXCEPT !.status = "accepted", !.signature = Signature(row),
                                       !.proof = row.proof]
Collecting == At("collect") /\ job.todo # {} /\ World
Unasked(a) ==
  /\ ~Qualified(job.rows[a])
  /\ ~(job.states[a].retry > time /\ job.states[a].proof = job.proofs[a])

(* A member already: its state is repaired if need be, and Steam is not asked. *)
Keep ==
  LET a == First
      state == Accepted(a, job.rows[a])
  IN /\ Collecting /\ Qualified(job.rows[a]) /\ Calm
     /\ job' = IF job.states[a] = [state EXCEPT !.updated = job.states[a].updated,
                                                !.sent = job.states[a].sent]
               THEN [job EXCEPT !.todo = @ \ {a}] ELSE Recorded(state, a)

Postpone ==
  /\ Collecting /\ ~Qualified(job.rows[First]) /\ ~Unasked(First) /\ Calm
  /\ job' = [job EXCEPT !.todo = @ \ {First}]

Cool ==
  /\ Collecting /\ Unasked(First) /\ job.batch.cooldown.retry > time /\ Calm
  /\ job' = Stopped([Pending(First) EXCEPT !.retry = job.batch.cooldown.retry], First)

Asks == Collecting /\ Unasked(First) /\ job.batch.cooldown.retry <= time

(* The store answers: verified, or refused by its type, its date or its content. *)
Verify ==
  LET a == First
      row == [NoRow EXCEPT !.date = job.batch.at, !.proof = job.proofs[a],
                           !.followers = job.rows[a].followers]
  IN /\ Asks /\ a \notin job.blocked /\ Calm
     /\ job' = [Recorded(Accepted(a, row), a) EXCEPT !.batch.records[a] = row]
Exclude ==
  /\ Asks /\ Calm
  /\ job' = Recorded([Pending(First) EXCEPT !.status = "excluded", !.retry = time + 2], First)
Fail ==
  /\ Asks /\ Mishap /\ UNCHANGED <<time, updates>>
  /\ job' = Recorded([Pending(First) EXCEPT !.retry = time + 2], First)

(* HTTP 429: the deadline is the server's, measured when it is seen. *)
Limit(wait) ==
  /\ Asks /\ Mishap /\ Later /\ UNCHANGED updates
  /\ job' = [Stopped([Pending(First) EXCEPT !.retry = time' + wait, !.updated = time'], First)
               EXCEPT !.batch.cooldown = [retry |-> time' + wait, updated |-> time']]
--------------------------------------------------------------------------------
(* apply_batch, on the latest master and state *)

(* keep_newer_release, preserve_twitch_admission, and the newest count. *)
Newest(m, n) == IF m > n THEN m ELSE n
Replaces(current, row) == row                                                  \* a slip
Merges(current, row) ==
  [row EXCEPT !.date = Newest(current.date, @), !.proof = Newest(current.proof, @),
              !.followers = Newest(current.followers, @)]
Admitted(current, row) == IF row.date = 0 \/ current.adult THEN current ELSE Merges(current, row)

(* Not over a newer update of the same game.  A receipt is replaced by another
   receipt, and goes with its signature. *)
Updated(current, state) ==
  IF state.status = "unchanged" \/ current.updated > state.updated THEN current
  ELSE IF At("dispatch")
  THEN [current EXCEPT !.status = "accepted", !.updated = state.updated,
                       !.signature = state.signature, !.sent = state.sent]
  ELSE [state EXCEPT !.signature = IF @ = NoSignature THEN current.signature ELSE @,
                     !.sent = IF current.signature = state.signature THEN current.sent
                              ELSE NoSignature]
Cooled(current, cooldown) ==
  IF cooldown.updated < current.updated THEN current
  ELSE [cooldown EXCEPT !.retry = Newest(current.retry, @)]

Applied(next) ==
  /\ master' = [a \in Title |-> Admitted(master[a], job.batch.records[a])]
  /\ intake' = [a \in Title |-> Updated(intake[a], job.batch.states[a])]
  /\ steam' = Cooled(steam, job.batch.cooldown)
  /\ job' = [NoJob EXCEPT !.pc = next]
  /\ UNCHANGED <<discovered, adult, content>>

(* A record of a game audited since refuses the whole batch. *)
Apply ==
  /\ At("collect") /\ job.todo = {} /\ Calm
  /\ \A a \in adult : job.batch.records[a].date = 0
  /\ Applied("persisted")
--------------------------------------------------------------------------------
(* dispatch, and the receipts *)

Freeze ==
  /\ At("persisted") /\ Later
  /\ job' = [NoJob EXCEPT !.pc = "dispatch", !.rows = master, !.states = intake, !.batch.at = time',
       !.todo = {a \in Title : /\ intake[a].status = "accepted" /\ Qualified(master[a])
                               /\ intake[a].sent # Signature(master[a])}]
  /\ World /\ UNCHANGED <<updates, failures>>

(* POST: the event is sent, or not, or sent without an answer. *)
Post(sent, answered) ==
  LET a == First
      signature == Signature(job.rows[a])
      state == [NoState EXCEPT !.status = "accepted", !.updated = job.batch.at,
                  !.signature = signature, !.sent = IF sent /\ answered THEN signature ELSE NoSignature]
  IN /\ At("dispatch") /\ job.todo # {}
     /\ content' = content \cup (IF sent THEN {<<a, signature>>} ELSE {})
     /\ job' = Recorded(state, a)
     /\ IF sent /\ answered THEN UNCHANGED failures ELSE Mishap
     /\ UNCHANGED <<discovered, master, adult, intake, steam, time, updates>>

Save ==
  /\ At("dispatch") /\ job.todo = {} /\ Calm
  /\ Applied("idle")

(* A save is refused or lost, or the process is killed; the next run starts over. *)
Lose ==
  /\ ~At("idle") /\ World /\ UNCHANGED <<time, updates>>
  /\ job' = NoJob
  /\ IF At("collect") /\ job.todo = {} /\ \E a \in adult : job.batch.records[a].date # 0
     THEN UNCHANGED failures ELSE Mishap

Next ==
  \/ \E a \in Title : Discover(a) \/ Expire(a) \/ Audit(a)
  \/ \E a \in Title, what \in {"date", "followers", "adult"} : Observe(a, what)
  \/ Start \/ Keep \/ Postpone \/ Cool \/ Verify \/ Exclude \/ Fail
  \/ \E wait \in {1, 3} : Limit(wait)
  \/ Apply \/ Freeze \/ (\E sent, answered \in BOOLEAN : Post(sent, answered)) \/ Save \/ Lose

Spec == Init /\ [][Next]_twitch
--------------------------------------------------------------------------------
(* Properties *)

(* The rows, the states and the job. *)
TypeOK ==
  /\ \A a \in Title :
       /\ {master[a].date, master[a].followers, master[a].proof, discovered[a]} \subseteq 0..MaxTime
       /\ intake[a].status \in {"none", "pending", "accepted", "excluded"}
       /\ intake[a].updated \in 0..MaxTime
  /\ job.pc \in {"idle", "collect", "persisted", "dispatch"} /\ job.todo \subseteq Title
  /\ adult \subseteq Title /\ steam.retry \in 0..(MaxTime + 3)

KeepsEvidence ==
  /\ \A a \in Title :
       /\ master'[a].date >= master[a].date
       /\ master'[a].followers >= master[a].followers
       /\ master'[a].proof >= master[a].proof
       /\ (master[a].adult \/ a \in adult) => master'[a].proof = master[a].proof
       /\ master[a].adult => master'[a].adult
  /\ steam'.retry >= steam.retry

(* What is applied was frozen before other workflows wrote: a newer date, count
   or proof is never replaced by the batch's, a row found adult is not admitted,
   nor is one that was audited, and no deadline of Steam is shortened
   ("A concurrent authoritative date/adult update wins; do not overwrite it",
   "A concurrent longer cooldown must not be shortened by an older batch",
   apply_batch). *)
EvidenceIsKept == [][KeepsEvidence]_twitch

(* A receipt stands for the very evidence the content backend was sent: when the
   row changes, or its receipt is not saved, it is sent again. *)
ReceiptIsTrue ==
  \A a \in Title :
    /\ intake[a].sent # NoSignature => <<a, intake[a].sent>> \in content
    /\ intake[a].sent \in {NoSignature, intake[a].signature}
================================================================================
