---------------------------- MODULE OwnedPublication ----------------------------
(***************************************************************************)
(* Publication to a branch that many jobs share: publish_with_retry and     *)
(* SubprocessGitRepository of radar_core/publication.py, without the        *)
(* database (GitProjection has it).  Each publisher owns some JSON files    *)
(* and replays a frozen batch over the newest tree until a push is          *)
(* acknowledged.  What applies a batch is other code, run in the checkout:  *)
(* it may touch what the publisher does not own.                            *)
(***************************************************************************)
EXTENDS Integers, Sequences, Functions, SequencesExt

CONSTANTS
  Publisher, Path,
  Scope,        \* the files that a publisher owns
  MaxAttempts,
  MaxOther,     \* BOUND on commits of anyone else
  MaxTrouble    \* BOUND on failures and on files touched by mistake

PublicationAssumption ==
  /\ Scope \in [Publisher -> SUBSET Path] /\ {"other", "mistake"} \cap Publisher = {}
  /\ MaxAttempts \in Nat \ {0} /\ MaxOther \in Nat /\ MaxTrouble \in Nat

VARIABLES
  log,        \* the trees of the branch, the newest last
  wire,       \* pushes that were given up and may still arrive
  checkouts,
  receipts,
  others, trouble

vars == <<log, wire, checkouts, receipts, others, trouble>>
--------------------------------------------------------------------------------
(* A file is the set of what was merged into it; without anything it is absent. *)
Batch == Publisher \cup {"other", "mistake"}
Tree == [Path -> SUBSET Batch]
Files(tree) == {x \in Path : tree[x] # {}}
Differ(s, t) == {x \in Path : s[x] # t[x]}
Foreign(p) == Path \ Scope[p]

Newest == Len(log)
NoReceipt == [revision |-> 0, tree |-> [x \in {} |-> {}]]

Init ==
  /\ \E tree \in [Path -> {{}, {"other"}}] :
       /\ log = <<[by |-> "other", tree |-> tree]>>
       /\ checkouts = [p \in Publisher |->
            [pc |-> "idle", attempt |-> 0, base |-> 1, refreshed |-> tree,
             head |-> tree, index |-> tree, work |-> tree, baseline |-> tree]]
  /\ wire = {}
  /\ receipts = [p \in Publisher |-> NoReceipt]
  /\ others = 0 /\ trouble = 0
--------------------------------------------------------------------------------
Local == UNCHANGED <<log, wire, receipts, others>>
Trouble == trouble < MaxTrouble /\ trouble' = trouble + 1
Calm == UNCHANGED trouble

At(p, pc) == checkouts[p].pc = pc
Becomes(p, checkout) == checkouts' = [checkouts EXCEPT ![p] = checkout]
Goes(p, pc) == Becomes(p, [checkouts[p] EXCEPT !.pc = pc])

(* Against HEAD: what the index or the work tree changes of the tracked files,
   and the files that are not tracked. *)
Changed(c) == Differ(c.index, c.head) \cup (Differ(c.work, c.head) \cap Files(c.head))
Untracked(c) == Files(c.work) \ (Files(c.head) \cup Files(c.index))

(* Anyone may commit, also to files that a publisher owns. *)
OtherCommit ==
  /\ others < MaxOther /\ others' = others + 1
  /\ \E x \in Path :
       log' = Append(log, [by |-> "other", tree |-> [log[Newest].tree EXCEPT ![x] = @ \cup {"other"}]])
  /\ UNCHANGED <<wire, checkouts, receipts, trouble>>

(* What ran in the checkout before has left a change. *)
Left(p, x) ==
  /\ At(p, "idle") /\ Trouble
  /\ Becomes(p, [checkouts[p] EXCEPT !.work[x] = @ \cup {"mistake"}])
  /\ Local

Begin(p) ==
  /\ At(p, "idle")
  /\ Becomes(p, [checkouts[p] EXCEPT !.pc = "refresh", !.attempt = 1])
  /\ Calm /\ Local

(* Foreign changes, or foreign files that the branch would overwrite, end the
   publication; owned changes are discarded. *)
Refresh(p) ==
  LET c == checkouts[p]
      tree == log[Newest].tree
      kept == Untracked(c) \ Scope[p]
  IN /\ At(p, "refresh")
     /\ IF Changed(c) \subseteq Scope[p] /\ kept \cap Files(tree) = {}
        THEN Becomes(p, [c EXCEPT !.pc = "apply", !.base = Newest, !.refreshed = tree,
               !.head = tree, !.index = tree,
               !.work = [x \in Path |-> IF x \in kept THEN @[x] ELSE tree[x]],
               !.baseline = [x \in Path |-> IF x \in kept THEN c.work[x] ELSE {}]])
        ELSE Goes(p, "failed")
     /\ Calm /\ Local

(* The batch is merged into the files of the publisher.  By mistake it may reach
   one that is foreign: in the work tree, in the index, or in a commit. *)
Merged(p, tree) == [x \in Path |-> IF x \in Scope[p] THEN tree[x] \cup {p} ELSE tree[x]]
Apply(p) ==
  LET c == [checkouts[p] EXCEPT !.pc = "stage", !.work = Merged(p, @)]
  IN /\ At(p, "apply")
     /\ \/ Becomes(p, c) /\ Calm
        \/ /\ Trouble
           /\ \E x \in Path \ Scope[p], file \in {{}, {"mistake"}} :
                Becomes(p, [c EXCEPT !.work[x] = file])
        \/ /\ Trouble
           /\ \E x \in Path \ Scope[p] : Becomes(p, [c EXCEPT !.index[x] = {"mistake"}])
        \/ /\ Trouble
           /\ \E x \in Path \ Scope[p] :
                Becomes(p, [c EXCEPT !.head[x] = {"mistake"}, !.index[x] = {"mistake"},
                                     !.work[x] = {"mistake"}])
     /\ Local

(* The commit is refused if anything foreign was touched since the refresh. *)
TrackedInScope(p, c) == Changed(c) \subseteq Scope[p]                       \* a slip
InScope(p, c) ==
  /\ Differ(c.head, c.refreshed) \subseteq Scope[p]
  /\ Changed(c) \subseteq Scope[p]
  /\ \A x \in Path \ Scope[p] :
       x \in Files(c.baseline) \cup Untracked(c) => c.work[x] = c.baseline[x]
Staged(p, c) == [x \in Path |-> IF x \in Scope[p] THEN c.work[x] ELSE c.index[x]]
StageCommit(p) ==
  LET c == checkouts[p]
  IN /\ At(p, "stage")
     /\ IF InScope(p, c)
        THEN Becomes(p, [c EXCEPT !.pc = "push", !.index = Staged(p, c), !.head = Staged(p, c)])
        ELSE Goes(p, "failed")
     /\ Calm /\ Local

(* A push that is refused or not answered is followed by another attempt, from
   the newest tree. *)
Retry(p) ==
  Becomes(p, IF checkouts[p].attempt < MaxAttempts
             THEN [checkouts[p] EXCEPT !.pc = "refresh", !.attempt = @ + 1]
             ELSE [checkouts[p] EXCEPT !.pc = "failed"])

Sent(p) == [by |-> p, base |-> checkouts[p].base, tree |-> checkouts[p].head]
Received(push) ==
  IF push.tree = log[push.base].tree THEN log
  ELSE Append(log, [by |-> push.by, tree |-> push.tree])

(* Only what the branch was when it was fetched can be built upon: without a
   change, too, the branch must still be that. *)
Push(p) ==
  /\ At(p, "push")
  /\ IF checkouts[p].base = Newest
     THEN /\ log' = Received(Sent(p))
          /\ \/ /\ Goes(p, "done") /\ Calm
                /\ receipts' = [receipts EXCEPT ![p] =
                     [revision |-> Len(log'), tree |-> Restrict(checkouts[p].head, Scope[p])]]
             \/ Retry(p) /\ Trouble /\ UNCHANGED receipts
     ELSE Retry(p) /\ Calm /\ UNCHANGED <<log, receipts>>
  /\ UNCHANGED <<wire, others>>

PushTimesOut(p) ==
  /\ At(p, "push") /\ Trouble
  /\ wire' = wire \cup {Sent(p)}
  /\ Retry(p)
  /\ UNCHANGED <<log, receipts, others>>

Late(push) ==
  /\ push \in wire
  /\ log' = IF push.base = Newest THEN Received(push) ELSE log
  /\ wire' = wire \ {push}
  /\ UNCHANGED <<checkouts, receipts, others, trouble>>

(* A command that fails, or the end of the process. *)
Fail(p) ==
  /\ checkouts[p].pc \in {"refresh", "apply", "stage", "push"} /\ Trouble
  /\ Goes(p, "failed")
  /\ Local

Next ==
  \/ OtherCommit
  \/ \E p \in Publisher :
       \/ \E x \in Path : Left(p, x)
       \/ Begin(p) \/ Refresh(p) \/ Apply(p) \/ StageCommit(p)
       \/ Push(p) \/ PushTimesOut(p) \/ Fail(p)
  \/ \E push \in wire : Late(push)

Spec == Init /\ [][Next]_vars
--------------------------------------------------------------------------------
(* Every variable has its type. *)
TypeOK ==
  /\ \A i \in 1..Newest : log[i].by \in Batch /\ log[i].tree \in Tree
  /\ \A push \in wire : push.by \in Publisher /\ push.base \in 1..Newest /\ push.tree \in Tree
  /\ \A p \in Publisher :
       /\ checkouts[p].pc \in {"idle", "refresh", "apply", "stage", "push", "done", "failed"}
       /\ checkouts[p].attempt \in 0..MaxAttempts /\ checkouts[p].base \in 1..Newest
       /\ {checkouts[p].refreshed, checkouts[p].head, checkouts[p].index, checkouts[p].work,
           checkouts[p].baseline} \subseteq Tree
       /\ receipts[p].revision \in 0..Newest
  /\ others \in 0..MaxOther /\ trouble \in 0..MaxTrouble

(* A receipt names a public commit that holds the batch, whole, and the owned
   files as the receipt describes them; and no other publisher takes the batch
   out again.  This also when the answer to a push was lost, or a push arrives
   after it was given up. *)
AcknowledgedIsPublic ==
  \A p \in Publisher : receipts[p] # NoReceipt =>
    /\ receipts[p].tree = Restrict(log[receipts[p].revision].tree, Scope[p])
    /\ \A i \in receipts[p].revision..Newest, x \in Scope[p] : p \in log[i].tree[x]

(* A publisher changes its own files only, and publishes what its batch made of
   them: nothing that was left in the checkout, or reached it by mistake. *)
StaysInScope ==
  \A i \in 2..Newest : log[i].by \in Publisher =>
    /\ Differ(log[i - 1].tree, log[i].tree) \subseteq Scope[log[i].by]
    /\ log[i].tree = Merged(log[i].by, log[i - 1].tree)
================================================================================
