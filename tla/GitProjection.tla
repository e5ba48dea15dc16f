----------------------------- MODULE GitProjection -----------------------------
(***************************************************************************)
(* The public Git projection of the primary: publish_with_retry over a     *)
(* GitPrimary (radar_core/publication.py, storage/primary.py) and the      *)
(* maintenance job that repairs what a failed push left pending            *)
(* (scripts/storage_project.py).                                           *)
(*                                                                         *)
(* The database is the one PrimaryStore describes, one step per call.  A   *)
(* revision is the sequence of its commits, so that parents, equality and  *)
(* fast-forward are what they are in Git; only the database's files of a   *)
(* commit are kept, with the generation that it was made for.  Publishers  *)
(* and repairs have a checkout each, may die anywhere and may lose the     *)
(* response of a push; a job that died is started again with its batch.    *)
(***************************************************************************)
EXTENDS Naturals, Sequences, SequencesExt

CONSTANTS
  Publisher,      \* jobs that run publish_with_retry
  Repair,         \* runs of project_source
  Op,             \* frozen batches; the operation_id identifies each
  Tree,           \* the file trees of the source
  Merge(_, _),    \* Merge(op, tree): apply, run on a checkout of tree
  InitialTree,    \* the tree at activation, which is public
  MaxAttempt,     \* max_attempts, MAX_ATTEMPTS
  MaxOther,       \* BOUND on commits of other files by anyone
  MaxFault        \* BOUND on crashes and failed or unanswered pushes

Job == Publisher \cup Repair
None == "none"

ProjectionAssumption ==
  /\ InitialTree \in Tree
  /\ \A o \in Op, t \in Tree : Merge(o, t) \in Tree
  /\ Publisher \cap Repair = {}
  /\ MaxAttempt \in Nat \ {0} /\ MaxOther \in Nat /\ MaxFault \in Nat
  /\ None \notin Op

VARIABLES
  history,      \* database: the tree of each generation
  receipts,     \* database: op -> generation (0 without), and the revision that shows it
  projections,  \* database: revision -> generation
  remote,       \* the public branch
  pc, my,       \* job -> its next step, and its values
  others, faults

database == <<history, receipts, projections>>
vars == <<database, remote, pc, my, others, faults>>

Newest == Len(history)
TreeOf(revision) == Last(revision).tree
Pending == {o \in Op : receipts[o].generation > 0 /\ receipts[o].revision = <<>>}

Idle == [op |-> None, attempt |-> 0, head |-> 0, checkout |-> <<>>, todo |-> {}]

Init ==
  /\ history = <<InitialTree>>
  /\ receipts = [o \in Op |-> [generation |-> 0, revision |-> <<>>]]
  /\ projections = [r \in {} |-> 0]
  /\ remote = <<[by |-> None, tree |-> InitialTree, generation |-> 1]>>
  /\ pc = [p \in Job |-> "idle"]
  /\ my = [p \in Job |-> Idle]
  /\ others = 0 /\ faults = 0
--------------------------------------------------------------------------------
At(p, label) == pc[p] = label
Goto(p, label) == pc' = [pc EXCEPT ![p] = label]
Local == UNCHANGED <<database, remote, others, faults>>

(* begin_publication: the batch and its operation_id are frozen. *)
BeginPublication(p, o) ==
  /\ p \in Publisher /\ pc[p] \in {"idle", "published", "refused"}
  /\ my' = [my EXCEPT ![p] = [Idle EXCEPT !.op = o, !.attempt = 1]]
  /\ Goto(p, "fetch")
  /\ Local

BeginRepair(p) ==
  /\ p \in Repair /\ pc[p] \in {"idle", "published", "refused"}
  /\ Pending # {}
  /\ my' = [my EXCEPT ![p] = [Idle EXCEPT !.attempt = 1]]
  /\ Goto(p, "fetch")
  /\ Local

(* fetch and reset --hard, or the first clone. *)
Fetch(p) ==
  /\ At(p, "fetch")
  /\ my' = [my EXCEPT ![p].checkout = remote]
  /\ Goto(p, "hydrate")
  /\ Local

(* _project with clean_baseline: the snapshot is committed where it differs. *)
Projected(p, generation) ==
  LET r == my[p].checkout IN
  IF TreeOf(r) = history[generation] THEN r
  ELSE Append(r, [by |-> p, tree |-> history[generation], generation |-> generation])
ProjectHead(p) ==
  my' = [my EXCEPT ![p].head = Newest, ![p].checkout = Projected(p, Newest)]

Hydrate(p) ==
  /\ At(p, "hydrate")
  /\ ProjectHead(p)
  /\ Goto(p, IF p \in Repair THEN "push" ELSE "commit")
  /\ Local

MayRetryOnceMore(p) == my[p].attempt <= MaxAttempt                 \* a slip, see README
MayRetry(p) == my[p].attempt < MaxAttempt
Retry(p) ==
  IF MayRetry(p) THEN /\ Goto(p, "fetch")
                      /\ my' = [my EXCEPT ![p].attempt = @ + 1]
                 ELSE /\ Goto(p, "idle")
                      /\ my' = [my EXCEPT ![p] = Idle]

(* stage_commit: publish_patch of what apply changed in the checkout. *)
CommitOperation(p) ==
  LET o == my[p].op
      tree == Merge(o, history[my[p].head])
  IN /\ At(p, "commit")
     /\ receipts[o].generation = 0
     /\ my[p].head = Newest
     /\ history' = IF tree = history[Newest] THEN history ELSE Append(history, tree)
     /\ receipts' = [receipts EXCEPT ![o].generation = Len(history')]
     /\ Goto(p, "project")
     /\ UNCHANGED <<projections, remote, my, others, faults>>

CommitRepeated(p) ==
  /\ At(p, "commit")
  /\ receipts[my[p].op].generation > 0
  /\ Goto(p, "project")
  /\ UNCHANGED my
  /\ Local

CommitStale(p) ==
  /\ At(p, "commit")
  /\ receipts[my[p].op].generation = 0
  /\ my[p].head # Newest
  /\ Retry(p)
  /\ Local

(* The candidate on disk gives way to what the database committed. *)
Candidate(p) ==                                                    \* a slip
  my' = [my EXCEPT ![p].checkout =
           Append(@, [by |-> p, tree |-> Merge(my[p].op, TreeOf(@)), generation |-> my[p].head])]
Reproject(p) == ProjectHead(p)

ProjectCommitted(p) ==
  /\ At(p, "project")
  /\ Reproject(p)
  /\ Goto(p, "push")
  /\ Local

(* git push without force. *)
FastForward(p) == IsPrefix(remote, my[p].checkout)

PushAccepted(p) ==
  /\ At(p, "push")
  /\ FastForward(p)
  /\ remote' = my[p].checkout
  /\ \/ /\ Goto(p, "list")
        /\ UNCHANGED <<my, faults>>
     \/ /\ faults < MaxFault                                       \* no answer
        /\ faults' = faults + 1
        /\ Retry(p)
  /\ UNCHANGED <<database, others>>

PushRejected(p) ==
  /\ At(p, "push")
  /\ \/ ~FastForward(p) /\ UNCHANGED faults
     \/ faults < MaxFault /\ faults' = faults + 1
  /\ Retry(p)
  /\ UNCHANGED <<database, remote, others>>

(* projection_pending is read again; later generations stay pending. *)
Earlier(p) == {o \in Pending : receipts[o].generation < my[p].head} \* a slip
AllPending(p) == IF my[p].head > 0 THEN Pending ELSE {}            \* a slip
Covered(p) == {o \in Pending : receipts[o].generation <= my[p].head}

ListPending(p) ==
  /\ At(p, "list")
  /\ my' = [my EXCEPT ![p].todo = Covered(p)]
  /\ Goto(p, "ack")
  /\ Local

(* acknowledge_projection: a revision keeps the generation it was first
   acknowledged for, or PROJECTION_CONFLICT ends the job. *)
CanMean(r, g) == r \in DOMAIN projections => projections[r] = g

AcknowledgeProjection(p, o) ==
  LET r == my[p].checkout IN
  /\ At(p, "ack")
  /\ o \in my[p].todo
  /\ CanMean(r, my[p].head)
  /\ projections' = [x \in DOMAIN projections \cup {r} |->
                       IF x = r THEN my[p].head ELSE projections[x]]
  /\ receipts' = [receipts EXCEPT ![o].revision = r]
  /\ my' = [my EXCEPT ![p].todo = @ \ {o}]
  /\ UNCHANGED <<history, remote, pc, others, faults>>

RefuseProjection(p) ==
  /\ At(p, "ack")
  /\ my[p].todo # {}
  /\ ~CanMean(my[p].checkout, my[p].head)
  /\ Goto(p, "refused")
  /\ UNCHANGED my
  /\ Local

Finish(p) ==
  /\ At(p, "ack")
  /\ my[p].todo = {}
  /\ Goto(p, "published")
  /\ UNCHANGED my
  /\ Local

Crash(p) ==
  /\ pc[p] \notin {"idle", "published", "refused"}
  /\ faults < MaxFault
  /\ faults' = faults + 1
  /\ Goto(p, "idle")
  /\ my' = [my EXCEPT ![p] = Idle]
  /\ UNCHANGED <<database, remote, others>>

(* Anyone may push commits of files that the database does not manage. *)
OtherCommit ==
  /\ others < MaxOther
  /\ others' = others + 1
  /\ remote' = Append(remote, [Last(remote) EXCEPT !.by = None])
  /\ UNCHANGED <<database, pc, my, faults>>
--------------------------------------------------------------------------------
Step(p) ==
  \/ BeginRepair(p)
  \/ Fetch(p) \/ Hydrate(p)
  \/ CommitOperation(p) \/ CommitRepeated(p) \/ CommitStale(p) \/ ProjectCommitted(p)
  \/ PushAccepted(p) \/ PushRejected(p)
  \/ ListPending(p) \/ RefuseProjection(p) \/ Finish(p)
  \/ \E o \in my[p].todo : AcknowledgeProjection(p, o)

Next ==
  \/ \E p \in Job : Step(p) \/ Crash(p)
  \/ \E p \in Publisher, o \in Op : BeginPublication(p, o)
  \/ OtherCommit

Spec == Init /\ [][Next]_vars

(* The maintenance workflow runs every hour and its steps are not suspended;
   a publisher may stop for ever. *)
FairSpec == Spec /\ \A p \in Repair : WF_vars(Step(p))
--------------------------------------------------------------------------------
(* Properties *)

Revision == Seq([by : Job \cup {None}, tree : Tree, generation : Nat \ {0}])
Labels == {"idle", "fetch", "hydrate", "commit", "project", "push", "list", "ack",
           "published", "refused"}

(* The values the tables, the branch and the jobs hold. *)
TypeOK ==
  /\ history \in Seq(Tree) \ {<<>>}
  /\ receipts \in [Op -> [generation : Nat, revision : Revision]]
  /\ DOMAIN projections \subseteq Revision
  /\ \A r \in DOMAIN projections : projections[r] \in 1..Newest
  /\ remote \in Revision \ {<<>>}
  /\ pc \in [Job -> Labels]
  /\ my \in [Job -> [op : Op \cup {None}, attempt : 0..MaxAttempt, head : Nat,
                     checkout : Revision, todo : SUBSET Op]]
  /\ others \in 0..MaxOther /\ faults \in 0..MaxFault

(* Whoever wins a push and whatever candidate was on disk, the public files
   are those of one committed generation (GitPrimary.commit, _project). *)
PublicIsCommitted ==
  \A i \in 1..Len(remote) :
    remote[i].generation <= Newest /\ remote[i].tree = history[remote[i].generation]

NeverBack ==
  IsPrefix(remote, remote') /\ Last(remote').generation >= Last(remote).generation

(* The public files never return to an older generation: the database is read
   after the branch was fetched, and the push is a fast-forward. *)
PublicNeverBack == [][NeverBack]_vars

(* An operation counts as projected only at a public revision that shows a
   generation in which it is contained (acknowledge, project_source). *)
AcknowledgedIsPublic ==
  \A o \in Op :
    receipts[o].revision # <<>> =>
      LET r == receipts[o].revision IN
      /\ IsPrefix(r, remote)
      /\ r \in DOMAIN projections
      /\ projections[r] >= receipts[o].generation
      /\ TreeOf(r) = history[projections[r]]

(* A receipt of publish_with_retry is returned for an operation that the
   database and the public branch both have, whoever acknowledged it. *)
PublishedIsAcknowledged ==
  \A p \in Publisher :
    At(p, "published") =>
      /\ receipts[my[p].op].generation \in 1..Newest
      /\ receipts[my[p].op].revision # <<>>

(* What failed pushes and dead jobs left pending is shown in the end by the
   maintenance job.  It does not hold when the database returns to the files of
   an acknowledged revision before anything was pushed: nothing is committed,
   the old revision is refused for the new generation, every time. *)
PendingIsShown == \A o \in Op : []<>(o \notin Pending)
================================================================================
