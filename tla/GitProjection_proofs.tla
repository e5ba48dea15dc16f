-------------------------- MODULE GitProjection_proofs --------------------------
(***************************************************************************)
(* The public projection for any number of publishers and repairs, any     *)
(* operations, trees, merges and faults: the public files are always those *)
(* of a committed generation, never an older one again, and an operation   *)
(* counts as projected only where the branch shows it.                     *)
(*                                                                         *)
(* The argument: a checkout is a fetched branch with commits of generations *)
(* that were the newest when they were added, so its generations ascend;   *)
(* the tables and the branch only grow (Extends), so what a job has made   *)
(* sure of stays true while others work (JobStays).                        *)
(***************************************************************************)
EXTENDS GitProjection, SequenceTheorems, TLAPS

CommitRow == [by : Job \cup {None}, tree : Tree, generation : Nat \ {0}]

(* A revision whose commits show generations of a history h, in order. *)
Good(r, h) ==
  /\ r \in Seq(CommitRow)
  /\ \A i \in 1..Len(r) : r[i].generation <= Len(h) /\ r[i].tree = h[r[i].generation]
  /\ \A i, j \in 1..Len(r) : i <= j => r[i].generation <= r[j].generation

Grows(h, k) == Len(h) <= Len(k) /\ \A i \in 1..Len(h) : k[i] = h[i]

StoreOK ==
  /\ history \in Seq(Tree) /\ Newest > 0
  /\ receipts \in [Op -> [generation : Nat, revision : Seq(CommitRow)]]
  /\ Good(remote, history) /\ Len(remote) > 0
  /\ \A o \in Op : receipts[o].generation <= Newest
  /\ others \in 0..MaxOther /\ faults \in 0..MaxFault

(* What was acknowledged. *)
ShownOK ==
  /\ \A r \in DOMAIN projections :
       /\ r \in Seq(CommitRow) /\ Len(r) > 0
       /\ projections[r] \in 1..Newest
       /\ Grows(r, remote)
       /\ r[Len(r)].tree = history[projections[r]]
  /\ \A o \in Op :
       receipts[o].revision # <<>> =>
         /\ receipts[o].generation > 0
         /\ receipts[o].revision \in DOMAIN projections
         /\ receipts[o].generation <= projections[receipts[o].revision]

Has == {"hydrate", "commit", "project", "push", "list", "ack"}
Read == {"commit", "project", "push", "list", "ack"}
Shows == {"push", "list", "ack"}
Working == {"fetch", "published"} \cup Has
Committed == {"project", "published"} \cup Shows

JobRow == [op : Op \cup {None}, attempt : 0..MaxAttempt, head : Nat,
           checkout : Seq(CommitRow), todo : SUBSET Op]
JobType == pc \in [Job -> Labels] /\ my \in [Job -> JobRow]

(* What a job has made sure of, by its next step. *)
JobOK(p) ==
  /\ Good(my[p].checkout, history)
  /\ my[p].head <= Newest
  /\ pc[p] \in Has => Len(my[p].checkout) > 0
  /\ pc[p] \in Read => my[p].head > 0
  /\ pc[p] \in Shows => my[p].checkout[Len(my[p].checkout)].tree = history[my[p].head]
  /\ pc[p] \in {"list", "ack"} => Grows(my[p].checkout, remote)
  /\ pc[p] = "ack" => \A o \in my[p].todo : receipts[o].generation \in 1..my[p].head
  /\ pc[p] \in {"commit", "project"} => p \in Publisher

(* What a publisher knows of its own operation. *)
OwnOK(p) ==
  /\ pc[p] \in Working => my[p].op \in Op
  /\ pc[p] \in Committed => receipts[my[p].op].generation > 0
  /\ pc[p] \in Shows => receipts[my[p].op].generation <= my[p].head
  /\ pc[p] = "ack" => my[p].op \in my[p].todo \/ receipts[my[p].op].revision # <<>>
  /\ pc[p] = "published" => receipts[my[p].op].revision # <<>>

IInv ==
  /\ StoreOK /\ ShownOK /\ JobType
  /\ \A p \in Job : JobOK(p)
  /\ \A p \in Publisher : OwnOK(p)
--------------------------------------------------------------------------------
(* Revisions *)

LEMMA PrefixPointwise ==
  ASSUME NEW S, NEW s \in Seq(S), NEW t \in Seq(S)
  PROVE  IsPrefix(s, t) <=> Grows(s, t)
  <1>1. ASSUME Len(s) <= Len(t)
        PROVE  SubSeq(s, 1, Len(s)) = SubSeq(t, 1, Len(s)) <=> \A i \in 1..Len(s) : t[i] = s[i]
    <2>1. /\ SubSeq(s, 1, Len(s)) \in Seq(S) /\ Len(SubSeq(s, 1, Len(s))) = Len(s)
          /\ \A i \in 1..Len(s) : SubSeq(s, 1, Len(s))[i] = s[i]
      OBVIOUS
    <2>2. /\ SubSeq(t, 1, Len(s)) \in Seq(S) /\ Len(SubSeq(t, 1, Len(s))) = Len(s)
          /\ \A i \in 1..Len(s) : SubSeq(t, 1, Len(s))[i] = t[i]
      BY <1>1
    <2> QED BY <2>1, <2>2, SeqEqual
  <1> QED BY <1>1 DEF IsPrefix, Grows

LEMMA GrowsTransitive ==
  ASSUME NEW S, NEW r \in Seq(S), NEW s \in Seq(S), NEW t \in Seq(S), Grows(r, s), Grows(s, t)
  PROVE  Grows(r, t)
  BY DEF Grows

LEMMA GoodGrows ==
  ASSUME NEW r, NEW h \in Seq(Tree), NEW k \in Seq(Tree), Good(r, h), Grows(h, k)
  PROVE  Good(r, k)
  <1>1. r \in Seq(CommitRow) /\ \A i \in 1..Len(r) : r[i] \in CommitRow
    BY DEF Good
  <1>2. \A i \in 1..Len(r) : r[i].generation \in 1..Len(h)
    BY <1>1 DEF Good, CommitRow
  <1> QED BY <1>1, <1>2 DEF Good, Grows

(* A commit of the newest generation, or of the last one again. *)
LEMMA GoodAppend ==
  ASSUME NEW r, NEW h \in Seq(Tree), Good(r, h), NEW c \in CommitRow, c.generation <= Len(h),
         c.tree = h[c.generation], \A i \in 1..Len(r) : r[i].generation <= c.generation
  PROVE  /\ Good(Append(r, c), h)
         /\ Len(Append(r, c)) = Len(r) + 1
         /\ Append(r, c)[Len(r) + 1] = c
         /\ Grows(r, Append(r, c))
  <1> DEFINE a == Append(r, c)
  <1>1. r \in Seq(CommitRow) BY DEF Good
  <1>2. /\ a \in Seq(CommitRow) /\ Len(a) = Len(r) + 1 /\ a[Len(r) + 1] = c
        /\ \A i \in 1..Len(r) : a[i] = r[i]
    BY <1>1, AppendProperties
  <1> HIDE DEF a
  <1>3. Len(r) \in Nat /\ \A i \in 1..(Len(r) + 1) : i \in 1..Len(r) \/ i = Len(r) + 1
    BY <1>1
  <1>4. c.generation \in Nat /\ \A i \in 1..Len(r) : r[i].generation \in Nat
    <2>1. \A i \in 1..Len(r) : r[i] \in CommitRow BY <1>1
    <2>2. \A x \in CommitRow : x.generation \in Nat BY DEF CommitRow
    <2> QED BY <2>1, <2>2
  <1>5. ASSUME NEW i \in 1..(Len(r) + 1)
        PROVE  a[i].generation <= Len(h) /\ a[i].tree = h[a[i].generation]
    <2>1. CASE i \in 1..Len(r)
      <3>1. a[i] = r[i] BY <1>2, <2>1
      <3>2. r[i].generation <= Len(h) /\ r[i].tree = h[r[i].generation] BY <2>1 DEF Good
      <3> QED BY <3>1, <3>2
    <2>2. CASE i = Len(r) + 1
      BY <1>2, <2>2
    <2> QED BY <1>3, <2>1, <2>2
  <1>6. ASSUME NEW i \in 1..(Len(r) + 1), NEW j \in 1..(Len(r) + 1), i <= j
        PROVE  a[i].generation <= a[j].generation
    <2>1. CASE j \in 1..Len(r)
      <3>1. i \in 1..Len(r) BY <1>3, <1>6, <2>1
      <3> QED BY <1>2, <1>6, <2>1, <3>1 DEF Good
    <2>2. CASE j = Len(r) + 1
      BY <1>2, <1>3, <1>4, <2>2
    <2> QED BY <1>3, <2>1, <2>2
  <1>7. Good(a, h) /\ Grows(r, a) BY <1>1, <1>2, <1>3, <1>5, <1>6 DEF Good, Grows
  <1> QED BY <1>2, <1>7 DEF a
--------------------------------------------------------------------------------
(* What is kept while others work *)

Extends ==
  /\ Grows(history, history')
  /\ Grows(remote, remote')
  /\ \A o \in Op :
       /\ receipts[o].generation > 0 => receipts'[o].generation = receipts[o].generation
       /\ receipts[o].revision # <<>> => receipts'[o].revision # <<>>

LEMMA JobStays ==
  ASSUME StoreOK, StoreOK', JobType, Extends, NEW p \in Job, JobOK(p),
         my'[p] = my[p], pc'[p] = pc[p]
  PROVE  JobOK(p)'
  <1> DEFINE r == my[p].checkout
  <1>1. /\ r \in Seq(CommitRow) /\ my[p].head \in Nat /\ my[p].todo \subseteq Op
        /\ history \in Seq(Tree) /\ history' \in Seq(Tree)
        /\ remote \in Seq(CommitRow) /\ remote' \in Seq(CommitRow)
    BY DEF JobType, JobRow, StoreOK, Good
  <1>2. Good(r, history')
    BY <1>1, GoodGrows DEF JobOK, Extends
  <1>3. my[p].head <= Newest'
    BY <1>1 DEF JobOK, Extends, Grows, Newest
  <1>4. pc[p] \in Shows => r[Len(r)].tree = history'[my[p].head]
    <2> SUFFICES ASSUME pc[p] \in Shows PROVE r[Len(r)].tree = history'[my[p].head] OBVIOUS
    <2>1. my[p].head \in 1..Len(history)
      BY <1>1 DEF JobOK, Newest, Shows, Read
    <2>2. history'[my[p].head] = history[my[p].head]
      BY <2>1 DEF Extends, Grows
    <2> QED BY <2>2 DEF JobOK
  <1>5. pc[p] \in {"list", "ack"} => Grows(r, remote')
    BY <1>1, GrowsTransitive DEF JobOK, Extends
  <1>6. ASSUME pc[p] = "ack", NEW o \in my[p].todo
        PROVE  receipts'[o].generation \in 1..my[p].head
    <2>1. receipts[o].generation \in 1..my[p].head BY <1>6 DEF JobOK
    <2>2. receipts'[o].generation = receipts[o].generation BY <1>1, <1>6, <2>1 DEF Extends
    <2> QED BY <2>1, <2>2
  <1> QED BY <1>2, <1>3, <1>4, <1>5, <1>6 DEF JobOK

LEMMA OwnStays ==
  ASSUME JobType, Extends, NEW p \in Publisher, OwnOK(p), my'[p] = my[p], pc'[p] = pc[p]
  PROVE  OwnOK(p)'
  BY DEF OwnOK, Extends, JobType, Working, Committed, Shows, Has

(* A step of one job keeps the invariant if it extends the tables rightly and
   leaves the job as it must be. *)
Alone(p) == \A q \in Job : q # p => my'[q] = my[q] /\ pc'[q] = pc[q]

LEMMA JobStep ==
  ASSUME IInv, NEW p \in Job, JobType', Alone(p), StoreOK', ShownOK', Extends,
         JobOK(p)', p \in Publisher => OwnOK(p)'
  PROVE  IInv'
  <1>1. ASSUME NEW q \in Job PROVE JobOK(q)'
    BY JobStays DEF IInv, Alone
  <1>2. ASSUME NEW q \in Publisher PROVE OwnOK(q)'
    BY OwnStays DEF IInv, Job, Alone
  <1> QED BY <1>1, <1>2 DEF IInv

LEMMA StoreUnchanged ==
  ASSUME IInv, UNCHANGED <<database, remote, others>>, faults' \in 0..MaxFault
  PROVE  StoreOK' /\ ShownOK' /\ Extends
  <1>1. history \in Seq(Tree) /\ remote \in Seq(CommitRow)
    BY DEF IInv, StoreOK, Good
  <1>2. Grows(history, history) /\ Grows(remote, remote)
    BY <1>1 DEF Grows
  <1> QED BY <1>2 DEF IInv, StoreOK, ShownOK, Extends, database, Newest

LEMMA LocalStep ==
  ASSUME IInv, Local
  PROVE  StoreOK' /\ ShownOK' /\ Extends
  BY StoreUnchanged DEF Local, IInv, StoreOK

LEMMA Moves ==
  ASSUME IInv, NEW p \in Job, NEW l \in Labels, NEW m \in JobRow,
         Goto(p, l), my' = [my EXCEPT ![p] = m]
  PROVE  JobType' /\ Alone(p) /\ pc'[p] = l /\ my'[p] = m
  BY DEF IInv, JobType, Alone, Goto

LEMMA IdleRow ==
  ASSUME ProjectionAssumption
  PROVE  Idle \in JobRow /\ Idle.checkout = <<>> /\ Idle.head = 0
  <1>1. 0 \in 0..MaxAttempt BY DEF ProjectionAssumption
  <1>2. <<>> \in Seq(CommitRow) OBVIOUS
  <1> QED BY <1>1, <1>2 DEF Idle, JobRow

LEMMA BegunRow ==
  ASSUME ProjectionAssumption, NEW o \in Op
  PROVE  [Idle EXCEPT !.op = o, !.attempt = 1] \in JobRow
  <1>1. 1 \in 0..MaxAttempt BY DEF ProjectionAssumption
  <1> QED BY <1>1, IdleRow DEF JobRow

LEMMA RepairRow ==
  ASSUME ProjectionAssumption
  PROVE  [Idle EXCEPT !.attempt = 1] \in JobRow
  <1>1. 1 \in 0..MaxAttempt BY DEF ProjectionAssumption
  <1> QED BY <1>1, IdleRow DEF JobRow

LEMMA EmptyIsGood == ASSUME NEW h PROVE Good(<<>>, h)
  BY DEF Good
--------------------------------------------------------------------------------
(* One lemma per action *)

LEMMA BeginPublicationKeeps ==
  ASSUME ProjectionAssumption, IInv, NEW p \in Publisher, NEW o \in Op, BeginPublication(p, o)
  PROVE  IInv'
  <1>1. StoreOK' /\ ShownOK' /\ Extends BY LocalStep DEF BeginPublication
  <1>2. p \in Job BY DEF Job
  <1>3. /\ JobType' /\ Alone(p) /\ pc'[p] = "fetch"
        /\ my'[p] = [Idle EXCEPT !.op = o, !.attempt = 1]
    <2>1. [Idle EXCEPT !.op = o, !.attempt = 1] \in JobRow
      BY BegunRow
    <2> QED BY <1>2, <2>1, Moves DEF BeginPublication, Labels
  <1>4. JobOK(p)'
    <2>1. my'[p].checkout = <<>> /\ my'[p].head = 0 BY <1>3, IdleRow DEF JobRow
    <2> QED BY <1>1, <1>3, <2>1, EmptyIsGood DEF JobOK, StoreOK, Has, Read, Shows, Newest
  <1>5. OwnOK(p)'
    <2>1. my'[p].op = o BY <1>3, IdleRow DEF JobRow
    <2> QED BY <1>3, <2>1 DEF OwnOK, Working, Committed, Shows
  <1> QED BY <1>1, <1>2, <1>3, <1>4, <1>5, JobStep

LEMMA BeginRepairKeeps ==
  ASSUME ProjectionAssumption, IInv, NEW p \in Job, BeginRepair(p)
  PROVE  IInv'
  <1>1. StoreOK' /\ ShownOK' /\ Extends BY LocalStep DEF BeginRepair
  <1>2. p \notin Publisher BY DEF BeginRepair, ProjectionAssumption
  <1>3. /\ JobType' /\ Alone(p) /\ pc'[p] = "fetch"
        /\ my'[p] = [Idle EXCEPT !.attempt = 1]
    <2>1. [Idle EXCEPT !.attempt = 1] \in JobRow
      BY RepairRow
    <2> QED BY <2>1, Moves DEF BeginRepair, Labels
  <1>4. JobOK(p)'
    <2>1. my'[p].checkout = <<>> /\ my'[p].head = 0 BY <1>3, IdleRow DEF JobRow
    <2> QED BY <1>1, <1>3, <2>1, EmptyIsGood DEF JobOK, StoreOK, Has, Read, Shows, Newest
  <1> QED BY <1>1, <1>2, <1>3, <1>4, JobStep

LEMMA FetchKeeps ==
  ASSUME IInv, NEW p \in Job, Fetch(p)
  PROVE  IInv'
  <1>1. StoreOK' /\ ShownOK' /\ Extends BY LocalStep DEF Fetch
  <1>2. remote \in Seq(CommitRow) BY DEF IInv, StoreOK, Good
  <1>3. /\ JobType' /\ Alone(p) /\ pc'[p] = "hydrate"
        /\ my'[p] = [my[p] EXCEPT !.checkout = remote]
    BY <1>2 DEF Fetch, Goto, IInv, JobType, JobRow, Alone, Labels
  <1>4. UNCHANGED <<history, remote, receipts>> BY DEF Fetch, Local, database
  <1>5. my'[p].checkout = remote /\ my'[p].head = my[p].head /\ my'[p].op = my[p].op
    BY <1>3 DEF IInv, JobType, JobRow
  <1>6. JobOK(p)'
    BY <1>3, <1>4, <1>5 DEF IInv, StoreOK, JobOK, Has, Read, Shows, Newest
  <1>7. p \in Publisher => OwnOK(p)'
    BY <1>3, <1>5 DEF IInv, Fetch, At, OwnOK, Working, Has, Committed, Shows
  <1> QED BY <1>1, <1>3, <1>6, <1>7, JobStep

(* The checkout after a projection of the newest generation. *)
LEMMA ProjectedIsGood ==
  ASSUME IInv, NEW p \in Job, Len(my[p].checkout) > 0
  PROVE  LET r == Projected(p, Newest)
         IN Good(r, history) /\ Len(r) > 0 /\ r[Len(r)].tree = history[Newest]
  <1> DEFINE r == my[p].checkout
             c == [by |-> p, tree |-> history[Newest], generation |-> Newest]
  <1>1. Good(r, history) /\ history \in Seq(Tree) /\ Newest \in Nat \ {0}
    BY DEF IInv, JobOK, StoreOK, Newest
  <1>2. history[Newest] \in Tree BY <1>1 DEF Newest
  <1>3. c \in CommitRow /\ c.generation = Newest /\ c.tree = history[Newest]
    BY <1>1, <1>2 DEF CommitRow
  <1>4. CASE TreeOf(r) = history[Newest]
    BY <1>1, <1>4 DEF Projected, TreeOf, Last
  <1>5. CASE TreeOf(r) # history[Newest]
    <2>1. \A i \in 1..Len(r) : r[i].generation <= Newest
      BY <1>1 DEF Good, Newest
    <2>2. Newest <= Len(history) BY <1>1 DEF Newest
    <2> HIDE DEF c
    <2>3. /\ Good(Append(r, c), history)
          /\ Len(Append(r, c)) = Len(r) + 1 /\ Append(r, c)[Len(r) + 1] = c
      BY <1>1, <1>3, <2>1, <2>2, GoodAppend
    <2>4. Projected(p, Newest) = Append(r, c) BY <1>5 DEF Projected, c
    <2> QED BY <1>1, <1>3, <2>3, <2>4
  <1> QED BY <1>4, <1>5

LEMMA ProjectHeadType ==
  ASSUME IInv, NEW p \in Job, NEW l \in Labels, Len(my[p].checkout) > 0, ProjectHead(p), Goto(p, l)
  PROVE  /\ JobType' /\ Alone(p) /\ pc'[p] = l
         /\ my'[p].checkout = Projected(p, Newest) /\ my'[p].head = Newest
         /\ my'[p].op = my[p].op
  <1>1. Projected(p, Newest) \in Seq(CommitRow) /\ Newest \in Nat
    BY ProjectedIsGood DEF Good, IInv, StoreOK, Newest
  <1>2. my[p] \in JobRow BY DEF IInv, JobType
  <1> DEFINE m == [my[p] EXCEPT !.head = Newest, !.checkout = Projected(p, Newest)]
  <1>3. /\ m \in JobRow /\ m.checkout = Projected(p, Newest) /\ m.head = Newest
        /\ m.op = my[p].op
    BY <1>1, <1>2 DEF JobRow
  <1>4. my' = [my EXCEPT ![p] = m]
    BY <1>2 DEF ProjectHead, IInv, JobType, JobRow
  <1> HIDE DEF m
  <1> QED BY <1>3, <1>4, Moves

LEMMA HydrateKeeps ==
  ASSUME ProjectionAssumption, IInv, NEW p \in Job, Hydrate(p)
  PROVE  IInv'
  <1>1. StoreOK' /\ ShownOK' /\ Extends BY LocalStep DEF Hydrate
  <1>2. Len(my[p].checkout) > 0 BY DEF Hydrate, At, IInv, JobOK, Has
  <1>3. PICK l \in {"push", "commit"} :
          Goto(p, l) /\ (l = "commit" => p \in Publisher) /\ (l = "push" => p \in Repair)
    BY DEF Hydrate, Job
  <1>4. l \in Labels BY DEF Labels
  <1>5. /\ JobType' /\ Alone(p) /\ pc'[p] = l
        /\ my'[p].checkout = Projected(p, Newest) /\ my'[p].head = Newest
        /\ my'[p].op = my[p].op
    BY <1>2, <1>3, <1>4, ProjectHeadType DEF Hydrate
  <1>6. UNCHANGED <<history, remote, receipts>> BY DEF Hydrate, Local, database
  <1>7. JobOK(p)'
    BY <1>2, <1>3, <1>5, <1>6, ProjectedIsGood DEF IInv, StoreOK, JobOK, Has, Read, Shows, Newest
  <1>8. ASSUME p \in Publisher PROVE OwnOK(p)'
    <2>1. l = "commit" BY <1>3, <1>8 DEF ProjectionAssumption
    <2> QED BY <1>5, <1>8, <2>1
         DEF IInv, Hydrate, At, OwnOK, Working, Has, Committed, Shows
  <1> QED BY <1>1, <1>5, <1>7, <1>8, JobStep

(* A further attempt with the frozen batch, or the end of the job. *)
LEMMA RetryKeeps ==
  ASSUME ProjectionAssumption, IInv, NEW p \in Job, Retry(p), pc[p] \in {"commit", "push"},
         UNCHANGED <<history, receipts>>, StoreOK', ShownOK', Extends
  PROVE  IInv'
  <1>1. CASE MayRetry(p)
    <2> DEFINE m == [my[p] EXCEPT !.attempt = @ + 1]
    <2>1. my[p] \in JobRow /\ my[p].attempt + 1 \in 0..MaxAttempt
      BY <1>1 DEF IInv, JobType, JobRow, MayRetry, ProjectionAssumption
    <2>2. m \in JobRow /\ m.op = my[p].op /\ m.head = my[p].head /\ m.checkout = my[p].checkout
      BY <2>1 DEF JobRow
    <2>3. my' = [my EXCEPT ![p] = m] /\ Goto(p, "fetch")
      BY <1>1 DEF Retry, IInv, JobType
    <2> HIDE DEF m
    <2>4. JobType' /\ Alone(p) /\ pc'[p] = "fetch" /\ my'[p] = m
      BY <2>2, <2>3, Moves DEF Labels
    <2>5. JobOK(p)'
      BY <2>2, <2>4 DEF IInv, JobOK, Has, Read, Shows, Newest
    <2>6. p \in Publisher => OwnOK(p)'
      BY <2>2, <2>4 DEF IInv, OwnOK, Working, Has, Committed, Shows
    <2> QED BY <2>4, <2>5, <2>6, JobStep
  <1>2. CASE ~MayRetry(p)
    <2>1. JobType' /\ Alone(p) /\ pc'[p] = "idle" /\ my'[p] = Idle
      BY <1>2, IdleRow, Moves DEF Retry, Labels
    <2>2. JobOK(p)'
      BY <2>1, IdleRow, EmptyIsGood DEF JobOK, StoreOK, Has, Read, Shows, Newest
    <2>3. OwnOK(p)' BY <2>1 DEF OwnOK, Working, Has, Committed, Shows
    <2> QED BY <2>1, <2>2, <2>3, JobStep
  <1> QED BY <1>1, <1>2

LEMMA CommitRepeatedKeeps ==
  ASSUME IInv, NEW p \in Job, CommitRepeated(p)
  PROVE  IInv'
  <1>1. StoreOK' /\ ShownOK' /\ Extends BY LocalStep DEF CommitRepeated
  <1>2. pc[p] = "commit" /\ my' = my /\ UNCHANGED <<history, receipts>>
    BY DEF CommitRepeated, At, Local, database
  <1>3. JobType' /\ Alone(p) /\ pc'[p] = "project"
    BY <1>2 DEF CommitRepeated, Goto, IInv, JobType, Alone, Labels
  <1>4. JobOK(p)'
    BY <1>2, <1>3 DEF IInv, JobOK, Has, Read, Shows, Newest
  <1>5. p \in Publisher => OwnOK(p)'
    BY <1>2, <1>3 DEF IInv, CommitRepeated, OwnOK, Working, Has, Committed, Shows
  <1> QED BY <1>1, <1>3, <1>4, <1>5, JobStep

LEMMA CommitStaleKeeps ==
  ASSUME ProjectionAssumption, IInv, NEW p \in Job, CommitStale(p)
  PROVE  IInv'
  BY LocalStep, RetryKeeps DEF CommitStale, At, Local, database

(* The operation makes the next generation, unless it changes nothing. *)
LEMMA CommitOperationKeeps ==
  ASSUME ProjectionAssumption, IInv, NEW p \in Job, CommitOperation(p)
  PROVE  IInv'
  <1> DEFINE o == my[p].op
             tree == Merge(o, history[my[p].head])
  <1>1. pc[p] = "commit" /\ p \in Publisher /\ o \in Op
    BY DEF CommitOperation, At, IInv, JobOK, OwnOK, Working, Has
  <1>2. /\ history \in Seq(Tree) /\ Newest \in Nat \ {0} /\ my[p].head = Newest
        /\ remote \in Seq(CommitRow)
    BY DEF CommitOperation, IInv, StoreOK, Good, Newest
  <1>3. tree \in Tree
    <2>1. history[Newest] \in Tree BY <1>2 DEF Newest
    <2> QED BY <1>1, <1>2, <2>1 DEF ProjectionAssumption
  <1> HIDE DEF tree
  <1>4. history' \in Seq(Tree) /\ Grows(history, history') /\ Newest <= Newest' /\ Newest' \in Nat
    <2>1. CASE history' = history BY <1>2, <2>1 DEF Grows, Newest
    <2>2. CASE history' = Append(history, tree)
      BY <1>2, <1>3, <2>2, AppendProperties DEF Grows, Newest
    <2> QED BY <2>1, <2>2 DEF CommitOperation, tree
  <1>5. /\ receipts \in [Op -> [generation : Nat, revision : Seq(CommitRow)]]
        /\ receipts[o].generation = 0
        /\ receipts' = [receipts EXCEPT ![o].generation = Newest']
        /\ UNCHANGED <<projections, remote, my, others, faults>>
    BY DEF CommitOperation, Newest, IInv, StoreOK
  <1>6. /\ receipts' \in [Op -> [generation : Nat, revision : Seq(CommitRow)]]
        /\ receipts'[o].generation = Newest' /\ receipts'[o].revision = receipts[o].revision
        /\ \A q \in Op : q # o => receipts'[q] = receipts[q]
    BY <1>1, <1>4, <1>5
  <1>7. receipts[o].revision = <<>>
    BY <1>1, <1>5 DEF IInv, ShownOK
  <1>8. Grows(remote, remote') BY <1>2, <1>5 DEF Grows
  <1>9. StoreOK'
    <2>1. Good(remote', history') BY <1>2, <1>4, <1>5, GoodGrows DEF IInv, StoreOK
    <2>2. \A q \in Op : receipts[q].generation \in Nat /\ receipts[q].generation <= Newest
      BY <1>5 DEF IInv, StoreOK
    <2>3. ASSUME NEW q \in Op PROVE receipts'[q].generation <= Newest'
      <3>1. CASE q = o
        <4>1. receipts'[q].generation = Newest' BY <1>6, <3>1
        <4> QED BY <1>4, <4>1
      <3>2. CASE q # o
        <4>1. receipts'[q] = receipts[q] BY <1>6, <3>2
        <4>2. receipts[q].generation \in Nat /\ receipts[q].generation <= Newest BY <2>2
        <4> HIDE DEF o
        <4> QED BY <1>2, <1>4, <4>1, <4>2
      <3> QED BY <3>1, <3>2
    <2> QED BY <1>2, <1>4, <1>5, <1>6, <2>1, <2>3 DEF IInv, StoreOK, Newest
  <1>10. ShownOK'
    <2>1. \A r \in DOMAIN projections :
            projections[r] \in 1..Newest' /\ history'[projections[r]] = history[projections[r]]
      BY <1>2, <1>4 DEF IInv, ShownOK, Grows, Newest
    <2>2. \A q \in Op : receipts'[q].revision # <<>> => receipts'[q] = receipts[q]
      BY <1>6, <1>7
    <2> QED BY <1>5, <2>1, <2>2 DEF IInv, ShownOK
  <1>11. Extends BY <1>4, <1>5, <1>6, <1>7, <1>8 DEF Extends
  <1>12. JobType' /\ Alone(p) /\ pc'[p] = "project"
    BY <1>5 DEF CommitOperation, Goto, IInv, JobType, Alone, Labels
  <1>13. JobOK(p)'
    <2>1. Good(my[p].checkout, history')
      BY <1>2, <1>4, GoodGrows DEF IInv, JobOK
    <2> QED BY <1>1, <1>2, <1>4, <1>5, <1>12, <2>1 DEF IInv, JobOK, Has, Read, Shows
  <1>14. OwnOK(p)'
    BY <1>1, <1>2, <1>4, <1>5, <1>6, <1>12 DEF OwnOK, Committed, Shows
  <1> QED BY <1>9, <1>10, <1>11, <1>12, <1>13, <1>14, JobStep

LEMMA ProjectCommittedKeeps ==
  ASSUME IInv, NEW p \in Job, ProjectCommitted(p)
  PROVE  IInv'
  <1>1. StoreOK' /\ ShownOK' /\ Extends BY LocalStep DEF ProjectCommitted
  <1>2. pc[p] = "project" /\ p \in Publisher /\ Len(my[p].checkout) > 0 /\ my[p].op \in Op
    BY DEF ProjectCommitted, At, IInv, JobOK, OwnOK, Has, Working
  <1>3. /\ JobType' /\ Alone(p) /\ pc'[p] = "push"
        /\ my'[p].checkout = Projected(p, Newest) /\ my'[p].head = Newest
        /\ my'[p].op = my[p].op
    BY <1>2, ProjectHeadType DEF ProjectCommitted, Reproject, Labels
  <1>4. UNCHANGED <<history, remote, receipts>> BY DEF ProjectCommitted, Local, database
  <1>5. JobOK(p)'
    BY <1>2, <1>3, <1>4, ProjectedIsGood DEF IInv, StoreOK, JobOK, Has, Read, Shows, Newest
  <1>6. OwnOK(p)'
    BY <1>2, <1>3, <1>4 DEF IInv, StoreOK, OwnOK, Working, Has, Committed, Shows
  <1> QED BY <1>1, <1>3, <1>5, <1>6, JobStep

(* A push is a fast-forward: the branch becomes the checkout. *)
LEMMA PushExtends ==
  ASSUME ProjectionAssumption, IInv, NEW p \in Job, PushAccepted(p)
  PROVE  /\ StoreOK' /\ ShownOK' /\ Extends
         /\ Grows(remote, my[p].checkout) /\ Good(my[p].checkout, history)
         /\ Len(my[p].checkout) > 0
  <1> DEFINE r == my[p].checkout
  <1>1. /\ pc[p] = "push" /\ Good(r, history) /\ Len(r) > 0 /\ Good(remote, history)
        /\ r \in Seq(CommitRow) /\ remote \in Seq(CommitRow) /\ history \in Seq(Tree)
    BY DEF PushAccepted, At, IInv, StoreOK, JobOK, Good, Has
  <1>2. Grows(remote, r)
    BY <1>1, PrefixPointwise DEF PushAccepted, FastForward
  <1>3. UNCHANGED <<history, receipts, projections, others>> /\ remote' = r
    BY DEF PushAccepted, database
  <1>4. faults' \in 0..MaxFault
    BY DEF PushAccepted, IInv, StoreOK, ProjectionAssumption
  <1>5. StoreOK' BY <1>1, <1>3, <1>4 DEF IInv, StoreOK, Newest
  <1>6. ShownOK'
    <2>1. ASSUME NEW x \in DOMAIN projections PROVE Grows(x, remote')
      BY <1>1, <1>2, <1>3, GrowsTransitive DEF IInv, ShownOK
    <2> QED BY <1>3, <2>1 DEF IInv, ShownOK, Newest
  <1>7. Extends BY <1>1, <1>2, <1>3 DEF Extends, Grows
  <1> QED BY <1>1, <1>2, <1>5, <1>6, <1>7

LEMMA PushAcceptedKeeps ==
  ASSUME ProjectionAssumption, IInv, NEW p \in Job, PushAccepted(p)
  PROVE  IInv'
  <1>1. StoreOK' /\ ShownOK' /\ Extends BY PushExtends
  <1>2. /\ pc[p] = "push" /\ UNCHANGED <<history, receipts>> /\ remote' = my[p].checkout
    BY DEF PushAccepted, At, database
  <1>3. CASE Goto(p, "list") /\ my' = my
    <2>1. JobType' /\ Alone(p) /\ pc'[p] = "list"
      BY <1>3 DEF Goto, IInv, JobType, Alone, Labels
    <2>2. Grows(my[p].checkout, remote')
      BY <1>2, PushExtends DEF Grows, Good
    <2>3. JobOK(p)'
      BY <1>2, <1>3, <2>1, <2>2 DEF IInv, JobOK, Has, Read, Shows, Newest
    <2>4. p \in Publisher => OwnOK(p)'
      BY <1>2, <1>3, <2>1 DEF IInv, OwnOK, Working, Has, Committed, Shows
    <2> QED BY <1>1, <2>1, <2>3, <2>4, JobStep
  <1>4. CASE Retry(p)
    BY <1>1, <1>2, <1>4, RetryKeeps
  <1> QED BY <1>3, <1>4 DEF PushAccepted

LEMMA PushRejectedKeeps ==
  ASSUME ProjectionAssumption, IInv, NEW p \in Job, PushRejected(p)
  PROVE  IInv'
  <1>1. faults' \in 0..MaxFault
    BY DEF PushRejected, IInv, StoreOK, ProjectionAssumption
  <1> QED BY <1>1, StoreUnchanged, RetryKeeps DEF PushRejected, At, database

LEMMA ListPendingKeeps ==
  ASSUME IInv, NEW p \in Job, ListPending(p)
  PROVE  IInv'
  <1>1. StoreOK' /\ ShownOK' /\ Extends BY LocalStep DEF ListPending
  <1> DEFINE m == [my[p] EXCEPT !.todo = Covered(p)]
  <1>2. my[p] \in JobRow /\ Covered(p) \subseteq Op
    BY DEF IInv, JobType, Covered, Pending
  <1>3. /\ m \in JobRow /\ m.op = my[p].op /\ m.head = my[p].head
        /\ m.checkout = my[p].checkout /\ m.todo = Covered(p)
    BY <1>2 DEF JobRow
  <1>4. my' = [my EXCEPT ![p] = m] BY DEF ListPending, IInv, JobType
  <1> HIDE DEF m
  <1>5. JobType' /\ Alone(p) /\ pc'[p] = "ack" /\ my'[p] = m
    BY <1>3, <1>4, Moves DEF ListPending, Labels
  <1>6. pc[p] = "list" /\ UNCHANGED <<history, remote, receipts>>
    BY DEF ListPending, At, Local, database
  <1>7. receipts \in [Op -> [generation : Nat, revision : Seq(CommitRow)]] /\ my[p].head \in Nat
    BY <1>2 DEF IInv, StoreOK, JobRow
  <1>8. \A o \in Covered(p) : receipts[o].generation \in 1..my[p].head
    BY <1>7 DEF Covered, Pending
  <1>9. JobOK(p)'
    BY <1>3, <1>5, <1>6, <1>8 DEF IInv, JobOK, Has, Read, Shows, Newest
  <1>10. ASSUME p \in Publisher PROVE OwnOK(p)'
    <2>1. /\ my[p].op \in Op /\ receipts[my[p].op].generation > 0
          /\ receipts[my[p].op].generation <= my[p].head
      BY <1>6, <1>10 DEF IInv, OwnOK, Working, Has, Committed, Shows
    <2>2. my[p].op \in Covered(p) \/ receipts[my[p].op].revision # <<>>
      BY <2>1 DEF Covered, Pending
    <2> QED BY <1>3, <1>5, <1>6, <2>1, <2>2 DEF OwnOK
  <1> QED BY <1>1, <1>5, <1>9, <1>10, JobStep

LEMMA RefuseProjectionKeeps ==
  ASSUME IInv, NEW p \in Job, RefuseProjection(p)
  PROVE  IInv'
  <1>1. StoreOK' /\ ShownOK' /\ Extends BY LocalStep DEF RefuseProjection
  <1>2. my' = my /\ UNCHANGED <<history, remote, receipts>>
    BY DEF RefuseProjection, Local, database
  <1>3. JobType' /\ Alone(p) /\ pc'[p] = "refused"
    BY <1>2 DEF RefuseProjection, Goto, IInv, JobType, Alone, Labels
  <1>4. JobOK(p)' BY <1>2, <1>3 DEF IInv, JobOK, Has, Read, Shows, Newest
  <1>5. OwnOK(p)' BY <1>3 DEF OwnOK, Working, Has, Committed, Shows
  <1> QED BY <1>1, <1>3, <1>4, <1>5, JobStep

LEMMA FinishKeeps ==
  ASSUME IInv, NEW p \in Job, Finish(p)
  PROVE  IInv'
  <1>1. StoreOK' /\ ShownOK' /\ Extends BY LocalStep DEF Finish
  <1>2. pc[p] = "ack" /\ my[p].todo = {} /\ my' = my /\ UNCHANGED <<history, remote, receipts>>
    BY DEF Finish, At, Local, database
  <1>3. JobType' /\ Alone(p) /\ pc'[p] = "published"
    BY <1>2 DEF Finish, Goto, IInv, JobType, Alone, Labels
  <1>4. JobOK(p)' BY <1>2, <1>3 DEF IInv, JobOK, Has, Read, Shows, Newest
  <1>5. p \in Publisher => OwnOK(p)'
    BY <1>2, <1>3 DEF IInv, OwnOK, Working, Has, Committed, Shows
  <1> QED BY <1>1, <1>3, <1>4, <1>5, JobStep

LEMMA CrashKeeps ==
  ASSUME ProjectionAssumption, IInv, NEW p \in Job, Crash(p)
  PROVE  IInv'
  <1>1. faults' \in 0..MaxFault BY DEF Crash, IInv, StoreOK, ProjectionAssumption
  <1>2. StoreOK' /\ ShownOK' /\ Extends BY <1>1, StoreUnchanged DEF Crash
  <1>3. JobType' /\ Alone(p) /\ pc'[p] = "idle" /\ my'[p] = Idle
    BY IdleRow, Moves DEF Crash, Labels
  <1>4. JobOK(p)'
    BY <1>2, <1>3, IdleRow, EmptyIsGood DEF JobOK, StoreOK, Has, Read, Shows, Newest
  <1>5. OwnOK(p)' BY <1>3 DEF OwnOK, Working, Has, Committed, Shows
  <1> QED BY <1>2, <1>3, <1>4, <1>5, JobStep

LEMMA AcknowledgeProjectionKeeps ==
  ASSUME IInv, NEW p \in Job, NEW o \in my[p].todo, AcknowledgeProjection(p, o)
  PROVE  IInv'
  <1> DEFINE r == my[p].checkout
             g == my[p].head
  <1>1. /\ pc[p] = "ack" /\ UNCHANGED <<history, remote, pc, others, faults>>
        /\ my[p] \in JobRow /\ o \in Op
    BY DEF AcknowledgeProjection, At, IInv, JobType, JobRow
  <1>2. /\ r \in Seq(CommitRow) /\ Len(r) > 0 /\ Grows(r, remote) /\ g \in 1..Newest
        /\ r[Len(r)].tree = history[g] /\ receipts[o].generation \in 1..g
    <2>1. g \in Nat /\ Newest \in Nat BY <1>1 DEF JobRow, IInv, StoreOK, Newest
    <2> QED BY <1>1, <2>1 DEF IInv, JobOK, Has, Read, Shows, JobRow
  <1>3. /\ receipts \in [Op -> [generation : Nat, revision : Seq(CommitRow)]]
        /\ receipts' = [receipts EXCEPT ![o].revision = r]
    BY DEF AcknowledgeProjection, IInv, StoreOK
  <1>4. /\ receipts' \in [Op -> [generation : Nat, revision : Seq(CommitRow)]]
        /\ receipts'[o].revision = r
        /\ \A q \in Op : receipts'[q].generation = receipts[q].generation
        /\ \A q \in Op : q # o => receipts'[q] = receipts[q]
    BY <1>1, <1>2, <1>3
  <1>5. /\ DOMAIN projections' = DOMAIN projections \cup {r}
        /\ projections'[r] = g
        /\ \A x \in DOMAIN projections : projections'[x] = projections[x]
    BY DEF AcknowledgeProjection, CanMean
  <1>6. r # <<>> BY <1>2
  <1>7. StoreOK' BY <1>1, <1>4 DEF IInv, StoreOK, Newest
  <1>8. ShownOK'
    <2>1. ASSUME NEW x \in DOMAIN projections'
          PROVE  /\ x \in Seq(CommitRow) /\ Len(x) > 0
                 /\ projections'[x] \in 1..Newest'
                 /\ Grows(x, remote')
                 /\ x[Len(x)].tree = history'[projections'[x]]
      <3>1. CASE x = r BY <1>1, <1>2, <1>5, <3>1 DEF Newest
      <3>2. CASE x \in DOMAIN projections
        BY <1>1, <1>5, <3>2 DEF IInv, ShownOK, Newest
      <3> QED BY <1>5, <3>1, <3>2
    <2>2. ASSUME NEW q \in Op, receipts'[q].revision # <<>>
          PROVE  /\ receipts'[q].generation > 0
                 /\ receipts'[q].revision \in DOMAIN projections'
                 /\ receipts'[q].generation <= projections'[receipts'[q].revision]
      <3>1. CASE q = o
        <4>1. receipts'[q].revision = r /\ receipts'[q].generation \in 1..g
          BY <1>2, <1>4, <3>1
        <4> QED BY <1>5, <4>1
      <3>2. CASE q # o
        <4>1. receipts'[q] = receipts[q] BY <1>4, <3>2
        <4>2. /\ receipts[q].generation > 0 /\ receipts[q].revision \in DOMAIN projections
              /\ receipts[q].generation <= projections[receipts[q].revision]
          BY <2>2, <4>1 DEF IInv, ShownOK
        <4> QED BY <1>5, <4>1, <4>2
      <3> QED BY <3>1, <3>2
    <2> QED BY <2>1, <2>2 DEF ShownOK
  <1>9. Extends
    <2>1. Grows(history, history') /\ Grows(remote, remote')
      BY <1>1 DEF IInv, StoreOK, Good, Grows
    <2>2. \A q \in Op : receipts[q].revision # <<>> => receipts'[q].revision # <<>>
      BY <1>4, <1>6
    <2> QED BY <1>4, <2>1, <2>2 DEF Extends
  <1> DEFINE m == [my[p] EXCEPT !.todo = @ \ {o}]
  <1>10. /\ m \in JobRow /\ m.op = my[p].op /\ m.head = g /\ m.checkout = r
         /\ m.todo = my[p].todo \ {o}
    BY <1>1 DEF JobRow
  <1>11. my' = [my EXCEPT ![p] = m] BY DEF AcknowledgeProjection, IInv, JobType
  <1> HIDE DEF m
  <1>12. JobType' /\ Alone(p) /\ pc'[p] = "ack" /\ my'[p] = m
    BY <1>1, <1>10, <1>11 DEF IInv, JobType, Alone
  <1>13. JobOK(p)'
    <2>1. \A q \in m.todo : receipts'[q].generation \in 1..g
      BY <1>1, <1>4, <1>10 DEF IInv, JobOK, JobRow
    <2> QED BY <1>1, <1>10, <1>12, <2>1 DEF IInv, JobOK, Has, Read, Shows, Newest
  <1>14. ASSUME p \in Publisher PROVE OwnOK(p)'
    <2>1. /\ my[p].op \in Op /\ receipts[my[p].op].generation > 0
          /\ receipts[my[p].op].generation <= g
          /\ my[p].op \in my[p].todo \/ receipts[my[p].op].revision # <<>>
      BY <1>1, <1>14 DEF IInv, OwnOK, Working, Has, Committed, Shows
    <2>2. my[p].op \in m.todo \/ receipts'[my[p].op].revision # <<>>
      BY <1>4, <1>6, <1>10, <2>1
    <2> QED BY <1>4, <1>10, <1>12, <2>1, <2>2 DEF OwnOK
  <1> QED BY <1>7, <1>8, <1>9, <1>12, <1>13, <1>14, JobStep

(* A commit of other files repeats what the last one shows. *)
LEMMA OtherExtends ==
  ASSUME IInv, OtherCommit
  PROVE  /\ Good(remote', history) /\ Grows(remote, remote') /\ Len(remote') > 0
         /\ Len(remote') = Len(remote) + 1
         /\ remote'[Len(remote')].generation = remote[Len(remote)].generation
  <1> DEFINE last == remote[Len(remote)]
             c == [last EXCEPT !.by = None]
  <1>1. /\ Good(remote, history) /\ Len(remote) \in Nat \ {0} /\ history \in Seq(Tree)
        /\ remote \in Seq(CommitRow)
    BY DEF IInv, StoreOK, Good
  <1>2. last \in CommitRow BY <1>1
  <1>3. c \in CommitRow /\ c.tree = last.tree /\ c.generation = last.generation
    BY <1>2 DEF CommitRow
  <1>4. /\ last.generation <= Len(history) /\ last.tree = history[last.generation]
        /\ \A i \in 1..Len(remote) : remote[i].generation <= last.generation
    BY <1>1 DEF Good
  <1>5. remote' = Append(remote, c) BY DEF OtherCommit, Last
  <1> HIDE DEF c
  <1>6. /\ Good(Append(remote, c), history) /\ Grows(remote, Append(remote, c))
        /\ Len(Append(remote, c)) = Len(remote) + 1
        /\ Append(remote, c)[Len(remote) + 1] = c
    BY <1>1, <1>3, <1>4, GoodAppend
  <1> QED BY <1>1, <1>3, <1>5, <1>6

LEMMA OtherCommitKeeps ==
  ASSUME ProjectionAssumption, IInv, OtherCommit
  PROVE  IInv'
  <1>1. UNCHANGED <<history, receipts, projections, pc, my, faults>>
    BY DEF OtherCommit, database
  <1>2. /\ Good(remote', history) /\ Grows(remote, remote') /\ Len(remote') > 0
        /\ history \in Seq(Tree) /\ remote \in Seq(CommitRow) /\ remote' \in Seq(CommitRow)
    BY OtherExtends DEF IInv, StoreOK, Good
  <1>3. others' \in 0..MaxOther
    BY DEF OtherCommit, IInv, StoreOK, ProjectionAssumption
  <1>4. StoreOK' BY <1>1, <1>2, <1>3 DEF IInv, StoreOK, Newest
  <1>5. ShownOK'
    <2>1. ASSUME NEW x \in DOMAIN projections PROVE Grows(x, remote')
      BY <1>2, GrowsTransitive DEF IInv, ShownOK
    <2> QED BY <1>1, <2>1 DEF IInv, ShownOK, Newest
  <1>6. Extends BY <1>1, <1>2 DEF Extends, Grows
  <1>7. ASSUME NEW q \in Job PROVE JobOK(q)'
    BY <1>1, <1>4, <1>6, JobStays DEF IInv
  <1>8. ASSUME NEW q \in Publisher PROVE OwnOK(q)'
    BY <1>1, <1>6, OwnStays DEF IInv
  <1> QED BY <1>1, <1>4, <1>5, <1>7, <1>8 DEF IInv, JobType
--------------------------------------------------------------------------------
(* The invariant, and what follows from it *)

LEMMA InvInit == ASSUME ProjectionAssumption PROVE Init => IInv
  <1> SUFFICES ASSUME Init PROVE IInv OBVIOUS
  <1> DEFINE c == [by |-> None, tree |-> InitialTree, generation |-> 1]
  <1>1. history = <<InitialTree>> /\ InitialTree \in Tree /\ history \in Seq(Tree) /\ Newest = 1
    BY DEF Init, ProjectionAssumption, Newest
  <1>2. c \in CommitRow /\ c.generation = 1 /\ c.tree = InitialTree
    BY <1>1 DEF CommitRow
  <1>3. remote = <<c>> BY DEF Init
  <1> HIDE DEF c
  <1>4. Good(remote, history) /\ Len(remote) > 0
    BY <1>1, <1>2, <1>3 DEF Good
  <1>5. receipts = [o \in Op |-> [generation |-> 0, revision |-> <<>>]]
    BY DEF Init
  <1>6. receipts \in [Op -> [generation : Nat, revision : Seq(CommitRow)]]
    BY <1>5
  <1>7. StoreOK
    BY <1>1, <1>4, <1>5, <1>6 DEF StoreOK, Init, ProjectionAssumption
  <1>8. ShownOK BY <1>5 DEF ShownOK, Init
  <1>9. \A p \in Job : pc[p] = "idle" /\ my[p] = Idle BY DEF Init
  <1>10. JobType BY IdleRow DEF JobType, Init, Labels
  <1>11. ASSUME NEW p \in Job PROVE JobOK(p)
    BY <1>1, <1>9, <1>11, IdleRow, EmptyIsGood DEF JobOK, Has, Read, Shows
  <1>12. ASSUME NEW p \in Publisher PROVE OwnOK(p)
    BY <1>9, <1>12 DEF OwnOK, Working, Has, Committed, Shows, Job
  <1> QED BY <1>7, <1>8, <1>10, <1>11, <1>12 DEF IInv

LEMMA InvNext == ASSUME ProjectionAssumption PROVE IInv /\ [Next]_vars => IInv'
  <1> SUFFICES ASSUME IInv, [Next]_vars PROVE IInv' OBVIOUS
  <1>1. ASSUME NEW p \in Job, Step(p) PROVE IInv'
    BY <1>1, BeginRepairKeeps, FetchKeeps, HydrateKeeps, CommitOperationKeeps,
       CommitRepeatedKeeps, CommitStaleKeeps, ProjectCommittedKeeps, PushAcceptedKeeps,
       PushRejectedKeeps, ListPendingKeeps, RefuseProjectionKeeps, FinishKeeps,
       AcknowledgeProjectionKeeps DEF Step
  <1>2. ASSUME NEW p \in Job, Crash(p) PROVE IInv'
    BY <1>2, CrashKeeps
  <1>3. ASSUME NEW p \in Publisher, NEW o \in Op, BeginPublication(p, o) PROVE IInv'
    BY <1>3, BeginPublicationKeeps
  <1>4. CASE OtherCommit BY <1>4, OtherCommitKeeps
  <1>5. CASE UNCHANGED vars
    BY <1>5 DEF vars, database, IInv, StoreOK, ShownOK, JobType, JobOK, OwnOK, Newest
  <1> QED BY <1>1, <1>2, <1>3, <1>4, <1>5 DEF Next

LEMMA InvAlways == ASSUME ProjectionAssumption PROVE Spec => []IInv
  BY InvInit, InvNext, PTL DEF Spec

(* The tables, the branch and the jobs hold values of their kinds: the schema of
   primary_store.py, the calls of publication.py and storage_project.py. *)
THEOREM TypeCorrect == ASSUME ProjectionAssumption PROVE Spec => []TypeOK
  <1>1. IInv => TypeOK
    <2> SUFFICES ASSUME IInv PROVE TypeOK OBVIOUS
    <2>1. Revision = Seq(CommitRow) BY DEF Revision, CommitRow
    <2>2. history # <<>> /\ remote # <<>> BY DEF IInv, StoreOK, Newest
    <2>3. DOMAIN projections \subseteq Revision /\ \A r \in DOMAIN projections : projections[r] \in 1..Newest
      BY <2>1 DEF IInv, ShownOK
    <2>4. my \in [Job -> [op : Op \cup {None}, attempt : 0..MaxAttempt, head : Nat,
                          checkout : Revision, todo : SUBSET Op]]
      BY <2>1 DEF IInv, JobType, JobRow
    <2> QED BY <2>1, <2>2, <2>3, <2>4 DEF TypeOK, IInv, StoreOK, JobType, Good
  <1> QED BY <1>1, InvAlways, PTL

(* Whoever wins a push and whatever candidate was on disk, the public files are
   those of one committed generation (GitPrimary.commit, _project). *)
THEOREM CommittedAlways == ASSUME ProjectionAssumption PROVE Spec => []PublicIsCommitted
  <1>1. IInv => PublicIsCommitted
    BY DEF IInv, StoreOK, Good, PublicIsCommitted, Newest
  <1> QED BY <1>1, InvAlways, PTL

(* An operation counts as projected only at a public revision that shows a
   generation in which it is contained (acknowledge, project_source). *)
THEOREM AcknowledgedAlways == ASSUME ProjectionAssumption PROVE Spec => []AcknowledgedIsPublic
  <1>1. IInv => AcknowledgedIsPublic
    <2> SUFFICES ASSUME IInv, NEW o \in Op, receipts[o].revision # <<>>
                 PROVE  LET r == receipts[o].revision IN
                          /\ IsPrefix(r, remote)
                          /\ r \in DOMAIN projections
                          /\ projections[r] >= receipts[o].generation
                          /\ TreeOf(r) = history[projections[r]]
      BY DEF AcknowledgedIsPublic
    <2> DEFINE r == receipts[o].revision
    <2>1. /\ r \in DOMAIN projections /\ r \in Seq(CommitRow) /\ Grows(r, remote)
          /\ r[Len(r)].tree = history[projections[r]] /\ projections[r] \in 1..Newest
          /\ receipts[o].generation <= projections[r]
      BY DEF IInv, ShownOK
    <2>2. receipts[o].generation \in Nat /\ remote \in Seq(CommitRow) /\ Newest \in Nat
      BY DEF IInv, StoreOK, Good, Newest
    <2>3. IsPrefix(r, remote) BY <2>1, <2>2, PrefixPointwise
    <2> QED BY <2>1, <2>2, <2>3 DEF TreeOf, Last
  <1> QED BY <1>1, InvAlways, PTL

(* A receipt of publish_with_retry is returned for an operation that the database
   and the public branch both have, whoever acknowledged it. *)
THEOREM PublishedAlways == ASSUME ProjectionAssumption PROVE Spec => []PublishedIsAcknowledged
  <1>1. IInv => PublishedIsAcknowledged
    <2> SUFFICES ASSUME IInv, NEW p \in Publisher, At(p, "published")
                 PROVE  /\ receipts[my[p].op].generation \in 1..Newest
                        /\ receipts[my[p].op].revision # <<>>
      BY DEF PublishedIsAcknowledged
    <2>1. /\ my[p].op \in Op /\ receipts[my[p].op].generation > 0
          /\ receipts[my[p].op].revision # <<>>
      BY DEF IInv, At, OwnOK, Working, Committed
    <2>2. /\ receipts[my[p].op].generation \in Nat /\ Newest \in Nat
          /\ receipts[my[p].op].generation <= Newest
      BY <2>1 DEF IInv, StoreOK, Newest
    <2> QED BY <2>1, <2>2
  <1> QED BY <1>1, InvAlways, PTL

(* The public files never return to an older generation: the database is read
   after the branch was fetched, and the push is a fast-forward. *)
THEOREM PublicAscends == ASSUME ProjectionAssumption PROVE Spec => PublicNeverBack
  <1>1. IInv /\ [Next]_vars => [NeverBack]_vars
    <2> SUFFICES ASSUME IInv, Next PROVE NeverBack \/ UNCHANGED vars
      OBVIOUS
    <2>1. /\ Good(remote, history) /\ Len(remote) \in Nat \ {0} /\ remote \in Seq(CommitRow)
      BY DEF IInv, StoreOK, Good
    <2>2. remote[Len(remote)].generation \in Nat
      <3>1. remote[Len(remote)] \in CommitRow BY <2>1
      <3> QED BY <3>1 DEF CommitRow
    <2>3. CASE remote' = remote
      <3>1. IsPrefix(remote, remote) BY <2>1, PrefixPointwise DEF Grows
      <3> QED BY <2>2, <2>3, <3>1 DEF NeverBack, Last
    <2>4. ASSUME NEW p \in Job, PushAccepted(p) PROVE NeverBack
      <3>1. /\ Grows(remote, my[p].checkout) /\ Good(my[p].checkout, history)
            /\ Len(my[p].checkout) > 0 /\ remote' = my[p].checkout
        BY <2>4, PushExtends DEF PushAccepted
      <3>2. remote' \in Seq(CommitRow) /\ Len(remote') \in Nat BY <3>1 DEF Good
      <3>3. remote'[Len(remote)] = remote[Len(remote)] /\ Len(remote) <= Len(remote')
        BY <2>1, <3>1 DEF Grows
      <3>4. remote'[Len(remote)].generation <= remote'[Len(remote')].generation
        BY <2>1, <3>1, <3>2, <3>3 DEF Good
      <3>5. remote'[Len(remote')].generation \in Nat
        <4>1. remote'[Len(remote')] \in CommitRow BY <3>1, <3>2
        <4> QED BY <4>1 DEF CommitRow
      <3>6. IsPrefix(remote, remote') BY <2>1, <3>1, <3>2, PrefixPointwise
      <3> QED BY <2>2, <3>3, <3>4, <3>5, <3>6 DEF NeverBack, Last
    <2>5. CASE OtherCommit
      <3>1. remote' \in Seq(CommitRow) BY <2>5, OtherExtends DEF Good
      <3>2. IsPrefix(remote, remote') BY <2>1, <2>5, <3>1, OtherExtends, PrefixPointwise
      <3>3. remote'[Len(remote')].generation = remote[Len(remote)].generation
        BY <2>5, OtherExtends
      <3> QED BY <2>2, <3>2, <3>3 DEF NeverBack, Last
    <2> QED BY <2>3, <2>4, <2>5
         DEF Next, Step, BeginRepair, Fetch, Hydrate, CommitOperation, CommitRepeated,
             CommitStale, ProjectCommitted, PushRejected, ListPending, RefuseProjection,
             Finish, AcknowledgeProjection, Crash, BeginPublication, Local
  <1> QED BY <1>1, InvAlways, PTL DEF Spec, PublicNeverBack
================================================================================
