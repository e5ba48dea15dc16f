--------------------------- MODULE Replication_proofs ---------------------------
(***************************************************************************)
(* Replication for any sources, passes, manifests and bounds: whatever      *)
(* overlaps, lapses or dies, the standby's heads are generations of the     *)
(* primary that can be decoded, they never go back, and an event counts as  *)
(* replicated only when the standby has it.                                 *)
(*                                                                         *)
(* The argument: generations are never rewritten, and the standby's heads   *)
(* only advance, by a pass that still has the generation it compared; so    *)
(* what a pass has found of either stays true of it (PassStays).  Only      *)
(* while a pass holds the standby's lease does its graph stay there.        *)
(***************************************************************************)
EXTENDS Replication, Integers, WellFoundedInduction, TLAPS

Row0 == [generation : 0..MaxGeneration, manifest : Manifest]
Values ==
  [heads : [Source -> Nat], todo : [Source -> Nat], source : Source \cup {None},
   seen : Nat, upto : Nat, rows : SUBSET Known, wasPending : SUBSET Known,
   wasPinned : SUBSET Pinned, roots : SUBSET Manifest, failed : BOOLEAN]

PrimaryOK ==
  /\ history \in [Source -> Seq(Manifest)]
  /\ \A s \in Source : Len(history[s]) \in 1..MaxGeneration
  /\ outbox \in [Source -> SUBSET Nat] /\ acked \in [Source -> SUBSET Nat]
  /\ \A s \in Source : acked[s] \subseteq outbox[s] /\ outbox[s] \subseteq Generations(s)
  /\ pending \subseteq Operations /\ pins \subseteq Pinned

StandbyOK ==
  /\ rhead \in [Source -> Row0] /\ stored \subseteq Manifest
  /\ rpending \subseteq Operations /\ rpins \subseteq Pinned

Copying == {"compare", "put", "readback", "advance"}

(* What a pass has made sure of, by its next statement. *)
PassOK(p) ==
  /\ \A s \in Source : my[p].todo[s] <= Len(history[s]) /\ my[p].heads[s] <= Len(history[s])
  /\ my[p].rows \subseteq Operations
  /\ pc[p] # "idle" => \A s \in Source : my[p].heads[s] >= 1
  /\ pc[p] \in Copying \cup {"ack"} => my[p].source \in Source
  /\ pc[p] \in Copying => my[p].todo[my[p].source] >= 1
  /\ pc[p] \in {"put", "readback", "advance"} => my[p].seen < my[p].todo[my[p].source]
  /\ pc[p] = "advance" /\ rholder = p => TargetManifest(p) \in stored
  /\ pc[p] = "ack" => my[p].upto <= rhead[my[p].source].generation
  /\ pc[p] = "verify" /\ ~my[p].failed =>
       \A s \in Source : my[p].heads[s] <= rhead[s].generation
  /\ pc[p] # "alarm"

PassTypes ==
  /\ reader \in Pass \cup {None} /\ rholder \in Pass \cup {None}
  /\ pc \in [Pass -> Labels] /\ my \in [Pass -> Values]

IInv ==
  /\ PrimaryOK /\ StandbyOK /\ PassTypes
  /\ \A p \in Pass : PassOK(p)
  /\ AckedIsOnStandby /\ StandbyIsHistory /\ StandbyHeadsDecode
--------------------------------------------------------------------------------
(* The greatest of some natural numbers *)

Below == {ss \in Nat \X Nat : ss[1] < ss[2]}

LEMMA Least ==
  ASSUME NEW T, T \subseteq Nat, T # {}
  PROVE  \E x \in T : \A y \in T : x <= y
  <1>1. IsWellFoundedOn(Below, Nat) BY NatLessThanWellFounded, Zenon DEF OpToRel, Below
  <1>2. \E x \in T : \A y \in T : ~(<<y, x>> \in Below) BY <1>1, WFMin, Zenon
  <1>3. \A x, y \in Nat : ~(<<y, x>> \in Below) => x <= y BY DEF Below
  <1> QED BY <1>2, <1>3

LEMMA Greatest ==
  ASSUME NEW n \in Nat, NEW T, T \subseteq 0..n, T # {}
  PROVE  Max(T) \in T
  <1> DEFINE D == {n - x : x \in T}
  <1>1. D \subseteq Nat OBVIOUS
  <1>2. D # {} OBVIOUS
  <1>3. \E x \in D : \A y \in D : x <= y
    <2> HIDE DEF D
    <2> QED BY <1>1, <1>2, Least
  <1>4. \E x \in T : \A y \in T : x >= y
    <2>1. PICK x \in T : \A y \in D : n - x <= y BY <1>3
    <2>2. \A y \in T : n - x <= n - y BY <2>1
    <2> QED BY <2>2
  <1> QED BY <1>4 DEF Max

--------------------------------------------------------------------------------
(* The values of a pass, changed field by field *)

OnlyMine(p) == my' \in [Pass -> Values] /\ \A q \in Pass : q # p => my'[q] = my[q]

LEMMA SetAll ==
  ASSUME PassTypes, NEW p \in Pass, NEW v \in Values, my' = [my EXCEPT ![p] = v]
  PROVE  OnlyMine(p) /\ my'[p] = v
  BY DEF PassTypes, OnlyMine

LEMMA SetSource ==
  ASSUME PassTypes, NEW p \in Pass, NEW s \in Source, my' = [my EXCEPT ![p].source = s]
  PROVE  /\ OnlyMine(p) /\ my'[p].source = s
         /\ my'[p].heads = my[p].heads /\ my'[p].todo = my[p].todo /\ my'[p].rows = my[p].rows
  BY DEF PassTypes, Values, OnlyMine

LEMMA SetTodo ==
  ASSUME PassTypes, NEW p \in Pass, NEW f \in [Source -> Nat], my' = [my EXCEPT ![p].todo = f]
  PROVE  /\ OnlyMine(p) /\ my'[p].todo = f
         /\ my'[p].heads = my[p].heads /\ my'[p].rows = my[p].rows
  BY DEF PassTypes, Values, OnlyMine

LEMMA EndSource ==
  ASSUME PassTypes, NEW p \in Pass, NEW s \in Source, my' = [my EXCEPT ![p].todo[s] = 0]
  PROVE  /\ OnlyMine(p) /\ my'[p].todo = [my[p].todo EXCEPT ![s] = 0]
         /\ my'[p].heads = my[p].heads /\ my'[p].rows = my[p].rows
  BY DEF PassTypes, Values, OnlyMine

LEMMA DropSource ==
  ASSUME PassTypes, NEW p \in Pass, NEW s \in Source,
         my' = [my EXCEPT ![p].todo[s] = 0, ![p].failed = TRUE]
  PROVE  /\ OnlyMine(p) /\ my'[p].todo = [my[p].todo EXCEPT ![s] = 0]
         /\ my'[p].heads = my[p].heads /\ my'[p].rows = my[p].rows
  BY DEF PassTypes, Values, OnlyMine

LEMMA SetUpto ==
  ASSUME PassTypes, NEW p \in Pass, NEW n \in Nat, my' = [my EXCEPT ![p].upto = n]
  PROVE  /\ OnlyMine(p) /\ my'[p].upto = n /\ my'[p].source = my[p].source
         /\ my'[p].heads = my[p].heads /\ my'[p].todo = my[p].todo /\ my'[p].rows = my[p].rows
  BY DEF PassTypes, Values, OnlyMine

LEMMA SetSeen ==
  ASSUME PassTypes, NEW p \in Pass, NEW n \in Nat, my' = [my EXCEPT ![p].seen = n]
  PROVE  /\ OnlyMine(p) /\ my'[p].seen = n /\ my'[p].source = my[p].source
         /\ my'[p].heads = my[p].heads /\ my'[p].todo = my[p].todo /\ my'[p].rows = my[p].rows
  BY DEF PassTypes, Values, OnlyMine

LEMMA SetMetadata ==
  ASSUME PassTypes, NEW p \in Pass, NEW a \in SUBSET Known, NEW b \in SUBSET Known,
         NEW c \in SUBSET Pinned,
         my' = [my EXCEPT ![p].rows = a, ![p].wasPending = b, ![p].wasPinned = c]
  PROVE  /\ OnlyMine(p) /\ my'[p].rows = a
         /\ my'[p].heads = my[p].heads /\ my'[p].todo = my[p].todo
  <1> DEFINE x == [my EXCEPT ![p].rows = a]
             y == [x EXCEPT ![p].wasPending = b]
  <1>1. /\ x \in [Pass -> Values] /\ x[p].rows = a
        /\ x[p].heads = my[p].heads /\ x[p].todo = my[p].todo
        /\ \A q \in Pass : q # p => x[q] = my[q]
    BY DEF PassTypes, Values
  <1> HIDE DEF x
  <1>2. /\ y \in [Pass -> Values] /\ y[p].rows = a
        /\ y[p].heads = my[p].heads /\ y[p].todo = my[p].todo
        /\ \A q \in Pass : q # p => y[q] = my[q]
    BY <1>1 DEF Values
  <1> HIDE DEF y
  <1> DEFINE z == [y EXCEPT ![p].wasPinned = c]
  <1>3. /\ z \in [Pass -> Values] /\ z[p].rows = a
        /\ z[p].heads = my[p].heads /\ z[p].todo = my[p].todo
        /\ \A q \in Pass : q # p => z[q] = my[q]
    BY <1>2 DEF Values
  <1>4. my' = z BY DEF x, y, z
  <1> HIDE DEF z
  <1> QED BY <1>3, <1>4 DEF OnlyMine

LEMMA SetRoots ==
  ASSUME PassTypes, NEW p \in Pass, NEW a \in SUBSET Manifest, my' = [my EXCEPT ![p].roots = a]
  PROVE  /\ OnlyMine(p)
         /\ my'[p].heads = my[p].heads /\ my'[p].todo = my[p].todo /\ my'[p].rows = my[p].rows
  BY DEF PassTypes, Values, OnlyMine

LEMMA SetFailed ==
  ASSUME PassTypes, NEW p \in Pass, NEW b \in BOOLEAN, my' = [my EXCEPT ![p].failed = b]
  PROVE  /\ OnlyMine(p) /\ my'[p].failed = b
         /\ my'[p].heads = my[p].heads /\ my'[p].todo = my[p].todo /\ my'[p].rows = my[p].rows
  BY DEF PassTypes, Values, OnlyMine
--------------------------------------------------------------------------------
(* What stays true while others work *)

HistoryGrows ==
  \A s \in Source : /\ Len(history[s]) <= Len(history'[s])
                    /\ \A g \in 1..Len(history[s]) : history'[s][g] = history[s][g]
HeadsAdvance == \A s \in Source : rhead[s].generation <= rhead'[s].generation
Holds(q) == rholder' = q => rholder = q /\ stored \subseteq stored'

LEMMA NothingGrows == UNCHANGED history => HistoryGrows
  BY DEF HistoryGrows

LEMMA OperationsStay ==
  ASSUME PrimaryOK, PrimaryOK', HistoryGrows
  PROVE  Operations \subseteq Operations'
  BY DEF Operations, HeadGeneration, HistoryGrows, PrimaryOK, Known

LEMMA PassStays ==
  ASSUME IInv, NEW q \in Pass, PrimaryOK', StandbyOK', HistoryGrows, HeadsAdvance,
         my'[q] = my[q], pc'[q] = pc[q], Holds(q)
  PROVE  PassOK(q)'
  <1>1. PrimaryOK /\ StandbyOK /\ PassOK(q) /\ my[q] \in Values BY DEF IInv, PassTypes
  <1>2. my[q].rows \subseteq Operations' BY <1>1, OperationsStay DEF PassOK
  <1>3. \A s \in Source :
          /\ my[q].todo[s] \in Nat /\ my[q].heads[s] \in Nat
          /\ Len(history[s]) \in Nat /\ Len(history'[s]) \in Nat
          /\ rhead[s].generation \in Nat /\ rhead'[s].generation \in Nat
    BY <1>1 DEF Values, PrimaryOK, StandbyOK, Row0
  <1>4. \A s \in Source : my[q].todo[s] <= Len(history'[s]) /\ my[q].heads[s] <= Len(history'[s])
    BY <1>1, <1>3 DEF PassOK, HistoryGrows
  <1>5. pc[q] = "advance" /\ rholder' = q => TargetManifest(q)' \in stored'
    <2> SUFFICES ASSUME pc[q] = "advance", rholder' = q PROVE TargetManifest(q)' \in stored'
      OBVIOUS
    <2>1. /\ my[q].source \in Source /\ my[q].todo[my[q].source] >= 1
          /\ TargetManifest(q) \in stored
      BY <1>1 DEF PassOK, Copying, Holds
    <2>2. my[q].todo[my[q].source] \in 1..Len(history[my[q].source])
      BY <1>1, <1>3, <2>1 DEF PassOK
    <2>3. TargetManifest(q)' = TargetManifest(q) BY <2>1, <2>2 DEF TargetManifest, HistoryGrows
    <2> QED BY <2>1, <2>3 DEF Holds
  <1>6. pc[q] = "ack" => my[q].upto <= rhead'[my[q].source].generation
    BY <1>1, <1>3 DEF PassOK, HeadsAdvance, Values
  <1>7. pc[q] = "verify" /\ ~my[q].failed =>
          \A s \in Source : my[q].heads[s] <= rhead'[s].generation
    BY <1>1, <1>3 DEF PassOK, HeadsAdvance
  <1> QED BY <1>1, <1>2, <1>4, <1>5, <1>6, <1>7 DEF PassOK

LEMMA HeadsStay ==
  ASSUME IInv, HistoryGrows, UNCHANGED rhead,
         \A s \in Source : rhead[s].generation > 0 => rhead[s].manifest \in stored'
  PROVE  StandbyIsHistory' /\ StandbyHeadsDecode'
  <1>1. \A s \in Source : rhead[s].generation \in Nat /\ Len(history[s]) \in Nat
    BY DEF IInv, StandbyOK, Row0, PrimaryOK
  <1>2. StandbyIsHistory'
    <2> SUFFICES ASSUME NEW s \in Source, rhead[s].generation > 0
                 PROVE  /\ rhead[s].generation <= Len(history'[s])
                        /\ rhead[s] = [generation |-> rhead[s].generation,
                                       manifest |-> history'[s][rhead[s].generation]]
      BY DEF StandbyIsHistory, HeadGeneration, Row
    <2>1. /\ rhead[s].generation <= Len(history[s])
          /\ rhead[s] = [generation |-> rhead[s].generation,
                         manifest |-> history[s][rhead[s].generation]]
      BY DEF IInv, StandbyIsHistory, HeadGeneration, Row
    <2>2. rhead[s].generation \in 1..Len(history[s]) BY <1>1, <2>1
    <2>3. history'[s][rhead[s].generation] = history[s][rhead[s].generation]
          /\ Len(history[s]) <= Len(history'[s])
      BY <2>2 DEF HistoryGrows
    <2> QED BY <2>1, <2>2, <2>3
  <1> QED BY <1>2 DEF StandbyHeadsDecode

(* A step of pass p that leaves both databases alone. *)
LEMMA LocalStep ==
  ASSUME ReplicationAssumption, IInv, NEW p \in Pass, UNCHANGED <<primary, standby>>, PassTypes',
         \A q \in Pass : q # p => my'[q] = my[q] /\ pc'[q] = pc[q],
         \A q \in Pass : q # p => (rholder' = q => rholder = q),
         PassOK(p)'
  PROVE  IInv'
  <1>1. PrimaryOK' BY DEF IInv, primary, PrimaryOK, Generations, Operations, HeadGeneration
  <1>2. StandbyOK' BY DEF IInv, primary, standby, StandbyOK, Operations, HeadGeneration
  <1>3. HistoryGrows BY DEF primary, HistoryGrows, IInv, PrimaryOK
  <1>4. HeadsAdvance BY DEF standby, HeadsAdvance, IInv, StandbyOK, Row0
  <1>5. \A q \in Pass : q # p => PassOK(q)'
    <2> TAKE q \in Pass
    <2> HAVE q # p
    <2>1. Holds(q) BY DEF Holds, standby
    <2> QED BY <1>1, <1>2, <1>3, <1>4, <2>1, PassStays
  <1>6. StandbyIsHistory' /\ StandbyHeadsDecode'
    BY <1>3, HeadsStay DEF IInv, standby, StandbyHeadsDecode
  <1>7. AckedIsOnStandby'
    BY DEF IInv, primary, standby, AckedIsOnStandby, Generations, Unacked
  <1> QED BY <1>1, <1>2, <1>5, <1>6, <1>7 DEF IInv
--------------------------------------------------------------------------------
(* Steps of a pass that leave both databases alone *)

(* A label, and the lease that is kept, taken or released. *)
AtLabel(p, label) == pc' \in [Pass -> Labels] /\ pc'[p] = label /\ \A q \in Pass : q # p => pc'[q] = pc[q]

LEMMA GotoIs ==
  ASSUME PassTypes, NEW p \in Pass, NEW label \in Labels, Goto(p, label)
  PROVE  AtLabel(p, label)
  BY DEF Goto, AtLabel, PassTypes

LEMMA ReleasedIs ==
  ASSUME ReplicationAssumption, NEW p \in Pass, NEW lease \in Pass \cup {None}
  PROVE  /\ Released(lease, p) \in Pass \cup {None} /\ Released(lease, p) # p
         /\ \A q \in Pass : Released(lease, p) = q => lease = q
  BY DEF Released, ReplicationAssumption

StartValues(heads) == [Start EXCEPT !.heads = heads]

LEMMA StartIs ==
  ASSUME NEW heads \in [Source -> Nat]
  PROVE  /\ StartValues(heads) \in Values /\ StartValues(heads).heads = heads
         /\ StartValues(heads).todo = [s \in Source |-> 0] /\ StartValues(heads).rows = {}
  BY DEF StartValues, Start, Values

LEMMA CaptureHeadsKeeps ==
  ASSUME ReplicationAssumption, IInv, NEW p \in Pass, CaptureHeads(p)
  PROVE  IInv'
  <1> DEFINE heads == [s \in Source |-> HeadGeneration(s)]
  <1>1. PassTypes /\ PrimaryOK BY DEF IInv
  <1>2. heads \in [Source -> Nat] /\ \A s \in Source : heads[s] = Len(history[s]) /\ heads[s] >= 1
    BY <1>1 DEF PrimaryOK, HeadGeneration
  <1> HIDE DEF heads
  <1>3. my' = [my EXCEPT ![p] = StartValues(heads)] BY DEF CaptureHeads, StartValues, heads
  <1>4. /\ OnlyMine(p) /\ my'[p].heads = heads /\ my'[p].todo = [s \in Source |-> 0]
        /\ my'[p].rows = {}
    <2>1. StartValues(heads) \in Values BY <1>2, StartIs
    <2>2. OnlyMine(p) /\ my'[p] = StartValues(heads) BY <1>1, <1>3, <2>1, SetAll
    <2> QED BY <1>2, <2>2, StartIs
  <1>5. AtLabel(p, "events") BY <1>1, GotoIs DEF CaptureHeads, Labels
  <1>6. PassTypes' BY <1>1, <1>4, <1>5 DEF CaptureHeads, PassTypes, OnlyMine, AtLabel
  <1>7. UNCHANGED <<primary, standby, rholder>> BY DEF CaptureHeads
  <1>8. PassOK(p)'
    <2>1. \A s \in Source : Len(history'[s]) = Len(history[s]) /\ Len(history[s]) \in Nat
      BY <1>1, <1>7 DEF primary, PrimaryOK
    <2> QED BY <1>2, <1>4, <1>5, <2>1 DEF PassOK, AtLabel, Copying
  <1> QED BY <1>4, <1>5, <1>6, <1>7, <1>8, LocalStep DEF OnlyMine, AtLabel

LEMMA LatestIs ==
  ASSUME PrimaryOK, NEW E \in Selections, NEW s \in Source
  PROVE  Latest(E, s) \in 0..Len(history[s])
  <1> DEFINE T == {0} \cup {e[2] : e \in {x \in E : x[1] = s}}
  <1>1. Len(history[s]) \in Nat BY DEF PrimaryOK
  <1>2. \A e \in E : e[2] \in outbox[e[1]] BY DEF Selections, Unacked
  <1>3. outbox[s] \subseteq 1..Len(history[s]) BY DEF PrimaryOK, Generations
  <1>4. T \subseteq 0..Len(history[s]) BY <1>1, <1>2, <1>3
  <1>5. T # {} OBVIOUS
  <1> HIDE DEF T
  <1>6. Max(T) \in T BY <1>1, <1>4, <1>5, Greatest
  <1> QED BY <1>4, <1>6 DEF Latest, T

LEMMA CaptureEventsKeeps ==
  ASSUME ReplicationAssumption, IInv, NEW p \in Pass, CaptureEvents(p)
  PROVE  IInv'
  <1>1. PassTypes /\ PrimaryOK /\ PassOK(p) /\ pc[p] = "events" BY DEF IInv, CaptureEvents, At
  <1>2. PICK E \in Selections : my' = [my EXCEPT ![p].todo = [s \in Source |-> Latest(E, s)]]
    BY DEF CaptureEvents
  <1> DEFINE todo == [s \in Source |-> Latest(E, s)]
  <1>3. todo \in [Source -> Nat] /\ \A s \in Source : todo[s] <= Len(history[s])
    <2>1. \A s \in Source : Len(history[s]) \in Nat BY <1>1 DEF PrimaryOK
    <2> QED BY <1>1, <2>1, LatestIs
  <1> HIDE DEF todo
  <1>4. my' = [my EXCEPT ![p].todo = todo] BY <1>2 DEF todo
  <1>5. OnlyMine(p) /\ my'[p].todo = todo /\ my'[p].heads = my[p].heads /\ my'[p].rows = my[p].rows
    BY <1>1, <1>3, <1>4, SetTodo
  <1>6. AtLabel(p, "loop") BY <1>1, GotoIs DEF CaptureEvents, Labels
  <1>7. UNCHANGED <<primary, standby, rholder>> /\ reader' \in Pass \cup {None}
    BY <1>1, ReleasedIs DEF CaptureEvents, PassTypes
  <1>8. PassTypes' BY <1>1, <1>5, <1>6, <1>7 DEF PassTypes, OnlyMine, AtLabel
  <1>9. PassOK(p)'
    <2>1. UNCHANGED history /\ Operations' = Operations BY <1>7 DEF primary, Operations, HeadGeneration
    <2> QED BY <1>1, <1>3, <1>5, <1>6, <2>1 DEF PassOK, AtLabel, Copying
  <1> QED BY <1>5, <1>6, <1>7, <1>8, <1>9, LocalStep DEF OnlyMine, AtLabel

LEMMA BeginReplicateKeeps ==
  ASSUME ReplicationAssumption, IInv, NEW p \in Pass, NEW s \in Source, BeginReplicate(p, s)
  PROVE  IInv'
  <1>1. PassTypes /\ PassOK(p) /\ pc[p] = "loop" /\ my[p].todo[s] >= 1
    <2>1. my[p].todo[s] \in Nat BY DEF IInv, PassTypes, Values
    <2> QED BY <2>1 DEF IInv, BeginReplicate, At
  <1>2. /\ OnlyMine(p) /\ my'[p].source = s
        /\ my'[p].heads = my[p].heads /\ my'[p].todo = my[p].todo /\ my'[p].rows = my[p].rows
    BY <1>1, SetSource DEF BeginReplicate
  <1>3. AtLabel(p, "compare") BY <1>1, GotoIs DEF BeginReplicate, Labels
  <1>4. UNCHANGED <<primary, standby>> /\ reader' = reader /\ rholder' = p
    BY DEF BeginReplicate
  <1>5. PassTypes' BY <1>1, <1>2, <1>3, <1>4 DEF PassTypes, OnlyMine, AtLabel
  <1>6. PassOK(p)'
    <2>1. UNCHANGED history /\ Operations' = Operations BY <1>4 DEF primary, Operations, HeadGeneration
    <2> QED BY <1>1, <1>2, <1>3, <2>1 DEF PassOK, AtLabel, Copying
  <1> QED BY <1>2, <1>3, <1>4, <1>5, <1>6, LocalStep DEF OnlyMine, AtLabel

(* The labels at which a pass relies on nothing but what it captured. *)
Simple == {"loop", "roots", "sweep", "readRoots", "install", "drop", "count"}
Less(p) == \A s \in Source : my'[p].todo[s] <= my[p].todo[s]

LEMMA SimplePass ==
  ASSUME IInv, PrimaryOK', HistoryGrows, NEW p \in Pass, NEW label \in Simple, AtLabel(p, label),
         pc[p] # "idle", OnlyMine(p), my'[p].heads = my[p].heads, Less(p),
         my'[p].rows = my[p].rows \/ my'[p].rows \subseteq Operations
  PROVE  PassOK(p)'
  <1>1. PassOK(p) /\ PrimaryOK /\ my[p] \in Values /\ my'[p] \in Values
    BY DEF IInv, PassTypes, OnlyMine
  <1>2. \A s \in Source : /\ my[p].todo[s] \in Nat /\ my[p].heads[s] \in Nat
                          /\ my'[p].todo[s] \in Nat
                          /\ Len(history[s]) \in Nat /\ Len(history'[s]) \in Nat
    <2> SUFFICES ASSUME NEW s \in Source
                 PROVE  /\ my[p].todo[s] \in Nat /\ my[p].heads[s] \in Nat
                        /\ my'[p].todo[s] \in Nat
                        /\ Len(history[s]) \in Nat /\ Len(history'[s]) \in Nat
      OBVIOUS
    <2>1. my[p].todo[s] \in Nat /\ my[p].heads[s] \in Nat BY <1>1 DEF Values
    <2>2. my'[p].todo[s] \in Nat BY <1>1 DEF Values
    <2>3. history[s] \in Seq(Manifest) /\ history'[s] \in Seq(Manifest)
      BY <1>1, PrimaryOK' DEF PrimaryOK
    <2>4. Len(history[s]) \in Nat /\ Len(history'[s]) \in Nat BY <2>3
    <2> QED BY <2>1, <2>2, <2>4
  <1>3. \A s \in Source : /\ my'[p].todo[s] <= Len(history'[s])
                          /\ my'[p].heads[s] <= Len(history'[s])
    BY <1>1, <1>2 DEF Less, PassOK, HistoryGrows
  <1>4. my'[p].rows \subseteq Operations' BY <1>1, OperationsStay DEF PassOK
  <1>5. \A s \in Source : my'[p].heads[s] >= 1 BY <1>1 DEF PassOK
  <1> QED BY <1>3, <1>4, <1>5 DEF AtLabel, Simple, Copying, PassOK

LEMMA SimpleLocal ==
  ASSUME ReplicationAssumption, IInv, NEW p \in Pass, NEW label \in Simple, AtLabel(p, label),
         pc[p] # "idle", OnlyMine(p), my'[p].heads = my[p].heads, Less(p),
         my'[p].rows = my[p].rows \/ my'[p].rows \subseteq Operations,
         UNCHANGED <<primary, standby>>, reader' \in Pass \cup {None},
         rholder' \in Pass \cup {None},
         \A q \in Pass : q # p => (rholder' = q => rholder = q)
  PROVE  IInv'
  <1>1. PrimaryOK' BY DEF IInv, primary, PrimaryOK, Generations, Operations, HeadGeneration
  <1>2. HistoryGrows BY NothingGrows DEF primary
  <1>3. PassOK(p)' BY <1>1, <1>2, SimplePass
  <1>4. PassTypes' BY DEF PassTypes, OnlyMine, AtLabel
  <1> QED BY <1>3, <1>4, LocalStep DEF OnlyMine, AtLabel

LEMMA LessTodo ==
  ASSUME PassTypes, NEW p \in Pass, my'[p].todo = my[p].todo
  PROVE  Less(p)
  BY DEF Less, PassTypes, Values

LEMMA LessDropped ==
  ASSUME PassTypes, NEW p \in Pass, NEW s \in Source, my'[p].todo = [my[p].todo EXCEPT ![s] = 0]
  PROVE  Less(p)
  <1>1. my[p].todo \in [Source -> Nat] BY DEF PassTypes, Values
  <1> QED BY <1>1 DEF Less

LEMMA GraphMissingKeeps ==
  ASSUME ReplicationAssumption, IInv, NEW p \in Pass, NEW s \in Source, GraphMissing(p, s)
  PROVE  IInv'
  <1>1. PassTypes /\ AtLabel(p, "loop") /\ pc[p] = "loop"
    BY DEF IInv, GraphMissing, At, AtLabel, PassTypes
  <1>2. /\ OnlyMine(p) /\ my'[p].heads = my[p].heads /\ my'[p].rows = my[p].rows
        /\ my'[p].todo = [my[p].todo EXCEPT ![s] = 0]
    BY <1>1, DropSource DEF GraphMissing
  <1> QED BY <1>1, <1>2, LessDropped, SimpleLocal DEF GraphMissing, PassTypes, Simple

LEMMA FailSourceKeeps ==
  ASSUME ReplicationAssumption, IInv, NEW p \in Pass, FailSource(p)
  PROVE  IInv'
  <1>1. PassTypes /\ pc[p] \in Copying \cup {"ack"} /\ my[p].source \in Source
    BY DEF IInv, FailSource, PassOK, Copying
  <1>2. AtLabel(p, "loop") BY <1>1, GotoIs DEF FailSource, Labels
  <1>3. /\ OnlyMine(p) /\ my'[p].heads = my[p].heads /\ my'[p].rows = my[p].rows
        /\ my'[p].todo = [my[p].todo EXCEPT ![my[p].source] = 0]
    BY <1>1, DropSource DEF FailSource
  <1>4. Less(p) BY <1>1, <1>3, LessDropped
  <1>5. /\ rholder' \in Pass \cup {None} /\ reader' \in Pass \cup {None}
        /\ \A q \in Pass : q # p => (rholder' = q => rholder = q)
    BY <1>1, ReleasedIs DEF FailSource, PassTypes
  <1>6. pc[p] # "idle" BY <1>1 DEF Copying
  <1> QED BY <1>2, <1>3, <1>4, <1>5, <1>6, SimpleLocal DEF FailSource, Simple

LEMMA ReadMetadataKeeps ==
  ASSUME ReplicationAssumption, IInv, NEW p \in Pass, ReadMetadata(p)
  PROVE  IInv'
  <1>1. PassTypes /\ pc[p] = "loop" BY DEF IInv, ReadMetadata, At
  <1>2. AtLabel(p, "roots") BY <1>1, GotoIs DEF ReadMetadata, Labels
  <1>3. Operations \in SUBSET Known /\ pending \in SUBSET Known /\ pins \in SUBSET Pinned
    BY DEF IInv, PrimaryOK, Operations
  <1>4. /\ OnlyMine(p) /\ my'[p].heads = my[p].heads /\ my'[p].rows = Operations
        /\ my'[p].todo = my[p].todo
    BY <1>1, <1>3, SetMetadata DEF ReadMetadata
  <1> QED BY <1>1, <1>2, <1>4, LessTodo, SimpleLocal DEF ReadMetadata, PassTypes, Simple

LEMMA RootsAre ==
  ASSUME ReplicationAssumption, PrimaryOK
  PROVE  RetainedRoots \subseteq Manifest
  <1>1. \A op \in pending : ManifestOf(op) \in Manifest
    <2> TAKE op \in pending
    <2>1. PICK s \in Source, g \in 2..MaxGeneration : op = <<s, g>> /\ g <= Len(history[s])
      BY DEF PrimaryOK, Operations, Known, HeadGeneration
    <2>2. history[s] \in Seq(Manifest) /\ g \in 1..Len(history[s])
      BY <2>1 DEF PrimaryOK
    <2> QED BY <2>1, <2>2 DEF ManifestOf
  <1> QED BY <1>1 DEF RetainedRoots, PrimaryOK, ReplicationAssumption

LEMMA ReadRootsKeeps ==
  ASSUME ReplicationAssumption, IInv, NEW p \in Pass, ReadRoots(p)
  PROVE  IInv'
  <1>1. PassTypes /\ pc[p] = "roots" /\ RetainedRoots \in SUBSET Manifest
    BY RootsAre DEF IInv, ReadRoots, At
  <1>2. AtLabel(p, "sweep") BY <1>1, GotoIs DEF ReadRoots, Labels
  <1>3. /\ OnlyMine(p) /\ my'[p].heads = my[p].heads /\ my'[p].rows = my[p].rows
        /\ my'[p].todo = my[p].todo
    BY <1>1, SetRoots DEF ReadRoots
  <1>4. reader' \in Pass \cup {None} BY <1>1, ReleasedIs DEF ReadRoots, PassTypes
  <1> QED BY <1>1, <1>2, <1>3, <1>4, LessTodo, SimpleLocal DEF ReadRoots, PassTypes, Simple

LEMMA ReadbackRootsKeeps ==
  ASSUME ReplicationAssumption, IInv, NEW p \in Pass, ReadbackRoots(p)
  PROVE  IInv'
  <1>1. PassTypes /\ pc[p] = "readRoots" BY DEF IInv, ReadbackRoots, At
  <1>2. AtLabel(p, "install") BY <1>1, GotoIs DEF ReadbackRoots, Labels
  <1>3. OnlyMine(p) /\ my'[p] = my[p] BY <1>1 DEF ReadbackRoots, OnlyMine, PassTypes
  <1> QED BY <1>1, <1>2, <1>3, LessTodo, SimpleLocal DEF ReadbackRoots, PassTypes, Simple

LEMMA SelectReleasedKeeps ==
  ASSUME ReplicationAssumption, IInv, NEW p \in Pass, SelectReleased(p)
  PROVE  IInv'
  <1>1. PassTypes /\ pc[p] = "install" /\ (rpins \ my[p].wasPinned) \in SUBSET Manifest
    BY DEF IInv, SelectReleased, At, StandbyOK, ReplicationAssumption
  <1>2. AtLabel(p, "drop") BY <1>1, GotoIs DEF SelectReleased, Labels
  <1>3. /\ OnlyMine(p) /\ my'[p].heads = my[p].heads /\ my'[p].rows = my[p].rows
        /\ my'[p].todo = my[p].todo
    BY <1>1, SetRoots DEF SelectReleased
  <1> QED BY <1>1, <1>2, <1>3, LessTodo, SimpleLocal DEF SelectReleased, PassTypes, Simple

LEMMA SweepDoneKeeps ==
  ASSUME ReplicationAssumption, IInv, NEW p \in Pass, SweepDone(p)
  PROVE  IInv'
  <1>1. PassTypes /\ pc[p] = "drop" BY DEF IInv, SweepDone, At
  <1>2. AtLabel(p, "count") BY <1>1, GotoIs DEF SweepDone, Labels
  <1>3. OnlyMine(p) /\ my'[p] = my[p] BY <1>1 DEF SweepDone, OnlyMine, PassTypes
  <1>4. rholder' \in Pass \cup {None} /\ \A q \in Pass : q # p => (rholder' = q => rholder = q)
    BY <1>1, ReleasedIs DEF SweepDone, PassTypes
  <1> QED BY <1>1, <1>2, <1>3, <1>4, LessTodo, SimpleLocal DEF SweepDone, PassTypes, Simple

LEMMA FailSweepKeeps ==
  ASSUME ReplicationAssumption, IInv, NEW p \in Pass, FailSweep(p)
  PROVE  IInv'
  <1>1. PassTypes /\ pc[p] # "idle" BY DEF IInv, FailSweep
  <1>2. AtLabel(p, "count") BY <1>1, GotoIs DEF FailSweep, Labels
  <1>3. /\ OnlyMine(p) /\ my'[p].heads = my[p].heads /\ my'[p].rows = my[p].rows
        /\ my'[p].todo = my[p].todo
    BY <1>1, SetFailed DEF FailSweep
  <1>4. /\ rholder' \in Pass \cup {None} /\ reader' \in Pass \cup {None}
        /\ \A q \in Pass : q # p => (rholder' = q => rholder = q)
    BY <1>1, ReleasedIs DEF FailSweep, PassTypes
  <1> QED BY <1>1, <1>2, <1>3, <1>4, LessTodo, SimpleLocal DEF FailSweep, Simple

(* The standby's head is a row that the primary can prove. *)
LEMMA HeadIs ==
  ASSUME IInv, NEW s \in Source, rhead[s].generation >= 1
  PROVE  /\ rhead[s].generation \in Nat /\ rhead[s].generation <= HeadGeneration(s)
         /\ rhead[s] = Row(s, rhead[s].generation)
         /\ rhead[s].generation >= 2 => rhead[s] = Authoritative(s, rhead[s].generation)
  <1>1. rhead[s].generation \in Nat /\ HeadGeneration(s) \in Nat
    BY DEF IInv, StandbyOK, Row0, PrimaryOK, HeadGeneration
  <1>2. rhead[s].generation <= HeadGeneration(s) /\ rhead[s] = Row(s, rhead[s].generation)
    BY <1>1 DEF IInv, StandbyIsHistory
  <1>3. rhead[s].generation >= 2 => rhead[s].generation \in 2..HeadGeneration(s) BY <1>1, <1>2
  <1> QED BY <1>1, <1>2, <1>3 DEF Authoritative

LEMMA CompareAheadKeeps ==
  ASSUME ReplicationAssumption, IInv, NEW p \in Pass, CompareAhead(p)
  PROVE  IInv'
  <1> DEFINE s == my[p].source
             e == rhead[s]
  <1>1. PassTypes /\ PassOK(p) /\ pc[p] = "compare" /\ s \in Source
    BY DEF IInv, CompareAhead, At, PassOK, Copying
  <1>2. my[p].todo[s] \in Nat /\ my[p].todo[s] >= 1 /\ e.generation \in Nat
    BY <1>1 DEF PassOK, Copying, PassTypes, Values, IInv, StandbyOK, Row0
  <1>3. e.generation >= my[p].todo[s] BY DEF CompareAhead, AtLeast
  <1>4. /\ e.generation <= HeadGeneration(s)
        /\ e = IF e.generation = my[p].todo[s] THEN Row(s, e.generation)
                                               ELSE Authoritative(s, e.generation)
    BY <1>1, <1>2, <1>3, HeadIs
  <1>5. AtLabel(p, "ack")
    <2>1. Goto(p, "ack") BY <1>4 DEF CompareAhead
    <2> QED BY <1>1, <2>1, GotoIs DEF Labels
  <1>6. my' = [my EXCEPT ![p].upto = e.generation] BY DEF CompareAhead
  <1>7. /\ OnlyMine(p) /\ my'[p].upto = e.generation /\ my'[p].source = s
        /\ my'[p].heads = my[p].heads /\ my'[p].todo = my[p].todo /\ my'[p].rows = my[p].rows
    BY <1>1, <1>2, <1>6, SetUpto
  <1>8. UNCHANGED <<primary, standby, reader>> /\ rholder' = Released(rholder, p)
    BY DEF CompareAhead
  <1>9. /\ rholder' \in Pass \cup {None} /\ reader' \in Pass \cup {None}
        /\ \A q \in Pass : q # p => (rholder' = q => rholder = q)
    BY <1>1, <1>8, ReleasedIs DEF PassTypes
  <1>10. PassTypes' BY <1>5, <1>7, <1>9 DEF PassTypes, OnlyMine, AtLabel
  <1>11. PassOK(p)'
    <2>1. UNCHANGED <<history, rhead>> /\ Operations' = Operations
      BY <1>8 DEF primary, standby, Operations, HeadGeneration
    <2>2. my'[p].upto <= rhead'[my'[p].source].generation BY <1>2, <1>7, <2>1
    <2> HIDE DEF s, e
    <2>3. my'[p].source \in Source BY <1>1, <1>7
    <2> QED BY <1>1, <1>5, <1>7, <2>1, <2>2, <2>3 DEF PassOK, AtLabel, Copying
  <1> QED BY <1>5, <1>7, <1>8, <1>9, <1>10, <1>11, LocalStep DEF OnlyMine, AtLabel

LEMMA CompareBehindKeeps ==
  ASSUME ReplicationAssumption, IInv, NEW p \in Pass, CompareBehind(p)
  PROVE  IInv'
  <1> DEFINE s == my[p].source
  <1>1. PassTypes /\ PassOK(p) /\ pc[p] = "compare" /\ s \in Source
    BY DEF IInv, CompareBehind, At, PassOK, Copying
  <1>2. /\ my[p].todo[s] \in Nat /\ my[p].todo[s] >= 1 /\ rhead[s].generation \in Nat
        /\ rhead[s].generation < my[p].todo[s]
    BY <1>1 DEF PassOK, Copying, PassTypes, Values, IInv, StandbyOK, Row0, CompareBehind, AtLeast
  <1>3. AtLabel(p, "put") BY <1>1, GotoIs DEF CompareBehind, Labels
  <1>4. my' = [my EXCEPT ![p].seen = rhead[s].generation] BY DEF CompareBehind
  <1>5. /\ OnlyMine(p) /\ my'[p].seen = rhead[s].generation /\ my'[p].source = s
        /\ my'[p].heads = my[p].heads /\ my'[p].todo = my[p].todo /\ my'[p].rows = my[p].rows
    BY <1>1, <1>2, <1>4, SetSeen
  <1>6. UNCHANGED <<primary, standby, reader, rholder>> BY DEF CompareBehind
  <1>7. PassTypes' BY <1>1, <1>3, <1>5, <1>6 DEF PassTypes, OnlyMine, AtLabel
  <1>8. PassOK(p)'
    <2>1. UNCHANGED <<history, rhead>> /\ Operations' = Operations
      BY <1>6 DEF primary, standby, Operations, HeadGeneration
    <2> HIDE DEF s
    <2>2. my'[p].source \in Source BY <1>1, <1>5
    <2>3. my'[p].seen < my'[p].todo[my'[p].source] /\ my'[p].todo[my'[p].source] >= 1
      BY <1>2, <1>5
    <2> QED BY <1>1, <1>3, <1>5, <2>1, <2>2, <2>3 DEF PassOK, AtLabel, Copying
  <1> QED BY <1>3, <1>5, <1>6, <1>7, <1>8, LocalStep DEF OnlyMine, AtLabel

(* The graph that is needed was read back; it stays while the lease does. *)
LEMMA ReadbackKeeps ==
  ASSUME ReplicationAssumption, IInv, NEW p \in Pass, Readback(p)
  PROVE  IInv'
  <1>1. PassTypes /\ PassOK(p) /\ pc[p] = "readback" /\ TargetManifest(p) \in stored
    BY DEF IInv, Readback, At
  <1>2. AtLabel(p, "advance") BY <1>1, GotoIs DEF Readback, Labels
  <1>3. UNCHANGED <<primary, standby, reader, rholder, my>> BY DEF Readback
  <1>4. PassTypes' BY <1>1, <1>2, <1>3 DEF PassTypes, AtLabel
  <1>5. PassOK(p)'
    <2>1. UNCHANGED <<history, rhead, stored>> /\ Operations' = Operations
      BY <1>3 DEF primary, standby, Operations, HeadGeneration
    <2>2. TargetManifest(p)' \in stored' BY <1>1, <1>3, <2>1 DEF TargetManifest
    <2> QED BY <1>1, <1>2, <1>3, <2>1, <2>2 DEF PassOK, AtLabel, Copying
  <1> QED BY <1>2, <1>3, <1>4, <1>5, LocalStep DEF AtLabel

(* Nothing up to the captured heads is left to acknowledge: the standby is there. *)
LEMMA CountPendingKeeps ==
  ASSUME ReplicationAssumption, IInv, NEW p \in Pass, CountPending(p)
  PROVE  IInv'
  <1> DEFINE left == \E s \in Source : \E g \in Unacked(s) : g <= my[p].heads[s]
             failed == my[p].failed \/ left
  <1>1. PassTypes /\ PassOK(p) /\ pc[p] = "count" BY DEF IInv, CountPending, At
  <1>2. my' = [my EXCEPT ![p].failed = failed] /\ failed \in BOOLEAN
    BY <1>1 DEF CountPending, PassTypes, Values
  <1>3. ~failed => \A s \in Source : my[p].heads[s] <= rhead[s].generation
    <2> SUFFICES ASSUME ~left, NEW s \in Source PROVE my[p].heads[s] <= rhead[s].generation
      OBVIOUS
    <2>1. my[p].heads[s] \in Generations(s)
      BY <1>1 DEF PassOK, PassTypes, Values, Generations, IInv, PrimaryOK
    <2>2. my[p].heads[s] \notin Unacked(s)
      <3>1. my[p].heads[s] \in Nat BY <1>1 DEF PassTypes, Values
      <3> QED BY <3>1
    <2> QED BY <2>1, <2>2 DEF IInv, AckedIsOnStandby
  <1> HIDE DEF failed
  <1>4. /\ OnlyMine(p) /\ my'[p].failed = failed
        /\ my'[p].heads = my[p].heads /\ my'[p].todo = my[p].todo /\ my'[p].rows = my[p].rows
    BY <1>1, <1>2, SetFailed
  <1>5. AtLabel(p, "verify") BY <1>1, GotoIs DEF CountPending, Labels
  <1>6. UNCHANGED <<primary, standby, reader, rholder>> BY DEF CountPending
  <1>7. PassTypes' BY <1>1, <1>4, <1>5, <1>6 DEF PassTypes, OnlyMine, AtLabel
  <1>8. PassOK(p)'
    <2>1. UNCHANGED <<history, rhead>> /\ Operations' = Operations
      BY <1>6 DEF primary, standby, Operations, HeadGeneration
    <2> QED BY <1>1, <1>3, <1>4, <1>5, <2>1 DEF PassOK, AtLabel, Copying
  <1> QED BY <1>4, <1>5, <1>6, <1>7, <1>8, LocalStep DEF OnlyMine, AtLabel

(* The end of a pass: it starts anew. *)
LEMMA EndKeeps ==
  ASSUME ReplicationAssumption, IInv, NEW p \in Pass, my' = [my EXCEPT ![p] = Start],
         AtLabel(p, "idle"), UNCHANGED <<primary, standby>>,
         reader' \in Pass \cup {None}, rholder' \in Pass \cup {None},
         \A q \in Pass : q # p => (rholder' = q => rholder = q)
  PROVE  IInv'
  <1>1. PassTypes /\ PrimaryOK BY DEF IInv
  <1>2. /\ Start \in Values /\ Start.todo = [s \in Source |-> 0]
        /\ Start.heads = [s \in Source |-> 0] /\ Start.rows = {}
    BY DEF Start, Values
  <1>3. OnlyMine(p) /\ my'[p] = Start BY <1>1, <1>2, SetAll
  <1>4. PassTypes' BY <1>3 DEF PassTypes, OnlyMine, AtLabel
  <1>5. PassOK(p)'
    <2>1. \A s \in Source : Len(history'[s]) \in Nat BY <1>1 DEF primary, PrimaryOK
    <2> QED BY <1>2, <1>3, <2>1 DEF PassOK, AtLabel, Copying
  <1> QED BY <1>3, <1>4, <1>5, LocalStep DEF OnlyMine, AtLabel

LEMMA VerifyHeadsKeeps ==
  ASSUME ReplicationAssumption, IInv, NEW p \in Pass, VerifyHeads(p)
  PROVE  IInv'
  <1>1. PassTypes /\ PassOK(p) /\ pc[p] = "verify" BY DEF IInv, VerifyHeads, At
  <1>2. my[p].failed \/ \A s \in Source : Matches(p, s)
    <2> SUFFICES ASSUME ~my[p].failed, NEW s \in Source PROVE Matches(p, s)
      OBVIOUS
    <2>1. /\ my[p].heads[s] \in Nat /\ my[p].heads[s] >= 1
          /\ my[p].heads[s] <= rhead[s].generation /\ rhead[s].generation \in Nat
      BY <1>1 DEF PassOK, PassTypes, Values, IInv, StandbyOK, Row0
    <2>2. rhead[s].generation > my[p].heads[s] \/ rhead[s].generation = my[p].heads[s] BY <2>1
    <2> QED BY <2>1, <2>2, HeadIs DEF Matches
  <1>3. Goto(p, "idle") BY <1>2 DEF VerifyHeads
  <1>4. AtLabel(p, "idle") BY <1>1, <1>3, GotoIs DEF Labels
  <1> QED BY <1>1, <1>4, EndKeeps DEF VerifyHeads, PassTypes

LEMMA CrashKeeps ==
  ASSUME ReplicationAssumption, IInv, NEW p \in Pass, Crash(p)
  PROVE  IInv'
  <1>1. PassTypes /\ AtLabel(p, "idle") BY GotoIs DEF IInv, Crash, Labels
  <1>2. /\ reader' \in Pass \cup {None} /\ rholder' \in Pass \cup {None}
        /\ \A q \in Pass : rholder' = q => rholder = q
    BY <1>1, ReleasedIs DEF Crash, PassTypes
  <1> QED BY <1>1, <1>2, EndKeeps DEF Crash
--------------------------------------------------------------------------------
(* Steps that change the standby *)

(* A pass adds graphs or changes the metadata. *)
LEMMA StandbyStep ==
  ASSUME ReplicationAssumption, IInv, NEW p \in Pass, UNCHANGED <<primary, rhead>>, PassTypes',
         stored \subseteq stored', stored' \subseteq Manifest,
         rpending' \subseteq Operations, rpins' \subseteq Pinned,
         \A q \in Pass : q # p => my'[q] = my[q] /\ pc'[q] = pc[q],
         \A q \in Pass : q # p => (rholder' = q => rholder = q),
         PassOK(p)'
  PROVE  IInv'
  <1>1. PrimaryOK' BY DEF IInv, primary, PrimaryOK, Generations, Operations, HeadGeneration
  <1>2. StandbyOK' BY DEF IInv, primary, StandbyOK, Operations, HeadGeneration
  <1>3. HistoryGrows BY NothingGrows DEF primary
  <1>4. HeadsAdvance BY DEF HeadsAdvance, IInv, StandbyOK, Row0
  <1>5. \A q \in Pass : q # p => PassOK(q)'
    <2> TAKE q \in Pass
    <2> HAVE q # p
    <2>1. Holds(q) BY DEF Holds
    <2> QED BY <1>1, <1>2, <1>3, <1>4, <2>1, PassStays
  <1>6. StandbyIsHistory' /\ StandbyHeadsDecode'
    BY <1>3, HeadsStay DEF IInv, StandbyHeadsDecode
  <1>7. AckedIsOnStandby'
    BY DEF IInv, primary, AckedIsOnStandby, Generations, Unacked
  <1> QED BY <1>1, <1>2, <1>5, <1>6, <1>7 DEF IInv

LEMMA PutGraphKeeps ==
  ASSUME ReplicationAssumption, IInv, NEW p \in Pass, PutGraph(p)
  PROVE  IInv'
  <1>1. PassTypes /\ PassOK(p) /\ pc[p] = "put" /\ StandbyOK BY DEF IInv, PutGraph, At
  <1>2. AtLabel(p, "readback") BY <1>1, GotoIs DEF PutGraph, Labels
  <1>3. UNCHANGED <<primary, reader, rhead, rpending, rpins, rholder, my>> BY DEF PutGraph
  <1>4. PassTypes' BY <1>1, <1>2, <1>3 DEF PassTypes, AtLabel
  <1>5. TargetManifest(p) \in Manifest
    <2>1. my[p].source \in Source /\ my[p].todo[my[p].source] \in 1..Len(history[my[p].source])
      BY <1>1 DEF PassOK, Copying, PassTypes, Values, IInv, PrimaryOK
    <2> QED BY <2>1 DEF TargetManifest, IInv, PrimaryOK
  <1>6. stored' = stored \cup {TargetManifest(p)} BY DEF PutGraph
  <1>7. PassOK(p)'
    <2>1. UNCHANGED history /\ Operations' = Operations
      BY <1>3 DEF primary, Operations, HeadGeneration
    <2> QED BY <1>1, <1>2, <1>3, <2>1 DEF PassOK, AtLabel, Copying
  <1> QED BY <1>1, <1>2, <1>3, <1>4, <1>5, <1>6, <1>7, StandbyStep DEF StandbyOK, AtLabel

(* The sweep relies only on what the pass captured. *)
LEMMA SweepStep ==
  ASSUME ReplicationAssumption, IInv, NEW p \in Pass, NEW label \in Simple, AtLabel(p, label),
         pc[p] # "idle", OnlyMine(p), my'[p].heads = my[p].heads, my'[p].rows = my[p].rows,
         my'[p].todo = my[p].todo,
         UNCHANGED <<primary, rhead, reader>>, rholder' \in {rholder, p},
         stored \subseteq stored', stored' \subseteq Manifest,
         rpending' \subseteq Operations, rpins' \subseteq Pinned
  PROVE  IInv'
  <1>1. PrimaryOK' BY DEF IInv, primary, PrimaryOK, Generations, Operations, HeadGeneration
  <1>2. HistoryGrows BY NothingGrows DEF primary
  <1>3. PassOK(p)' BY <1>1, <1>2, SimplePass, LessTodo DEF IInv
  <1>4. PassTypes' BY DEF IInv, PassTypes, OnlyMine, AtLabel
  <1> QED BY <1>3, <1>4, StandbyStep DEF OnlyMine, AtLabel

LEMMA SameLabel ==
  ASSUME PassTypes, NEW p \in Pass, pc' = pc
  PROVE  AtLabel(p, pc[p])
  BY DEF PassTypes, AtLabel

LEMMA PutRootsKeeps ==
  ASSUME ReplicationAssumption, IInv, NEW p \in Pass, PutRoots(p)
  PROVE  IInv'
  <1>1. PassTypes /\ StandbyOK /\ pc[p] = "sweep" BY DEF IInv, PutRoots, At
  <1>2. AtLabel(p, "readRoots") BY <1>1, GotoIs DEF PutRoots, Labels
  <1>3. OnlyMine(p) /\ my'[p] = my[p] BY <1>1 DEF PutRoots, OnlyMine, PassTypes
  <1>4. stored' = stored \cup my[p].roots /\ my[p].roots \subseteq Manifest
    BY <1>1 DEF PutRoots, PassTypes, Values
  <1>5. rholder' = p /\ UNCHANGED <<primary, reader, rhead, rpending, rpins>> BY DEF PutRoots
  <1> QED BY <1>1, <1>2, <1>3, <1>4, <1>5, SweepStep DEF StandbyOK, Simple

LEMMA InstallOperationKeeps ==
  ASSUME ReplicationAssumption, IInv, NEW p \in Pass, NEW op \in my[p].rows, InstallOperation(p, op)
  PROVE  IInv'
  <1>1. /\ PassTypes /\ StandbyOK /\ pc[p] = "install" /\ AtLabel(p, "install")
        /\ op \in Operations
    BY SameLabel DEF IInv, InstallOperation, At, PassOK
  <1>2. OnlyMine(p) /\ my'[p] = my[p] BY <1>1 DEF InstallOperation, OnlyMine, PassTypes
  <1>3. UNCHANGED <<primary, reader, rhead, stored, rpins, rholder>> BY DEF InstallOperation
  <1>4. rpending' \subseteq Operations BY <1>1 DEF InstallOperation, StandbyOK
  <1> QED BY <1>1, <1>2, <1>3, <1>4, SweepStep DEF StandbyOK, Simple

LEMMA InstallEvidenceKeeps ==
  ASSUME ReplicationAssumption, IInv, NEW p \in Pass, NEW m \in my[p].wasPinned, InstallEvidence(p, m)
  PROVE  IInv'
  <1>1. /\ PassTypes /\ StandbyOK /\ pc[p] = "install" /\ AtLabel(p, "install")
        /\ m \in Pinned
    BY SameLabel DEF IInv, InstallEvidence, At, PassTypes, Values
  <1>2. OnlyMine(p) /\ my'[p] = my[p] BY <1>1 DEF InstallEvidence, OnlyMine, PassTypes
  <1>3. UNCHANGED <<primary, reader, rhead, stored, rpending, rholder>> BY DEF InstallEvidence
  <1>4. rpins' \subseteq Pinned BY <1>1 DEF InstallEvidence, StandbyOK
  <1> QED BY <1>1, <1>2, <1>3, <1>4, SweepStep DEF StandbyOK, Simple

LEMMA DropEvidenceKeeps ==
  ASSUME ReplicationAssumption, IInv, NEW p \in Pass, NEW m \in my[p].roots, DropEvidence(p, m)
  PROVE  IInv'
  <1>1. PassTypes /\ StandbyOK /\ pc[p] = "drop" /\ AtLabel(p, "drop")
    BY SameLabel DEF IInv, DropEvidence, At
  <1>2. /\ OnlyMine(p) /\ my'[p].heads = my[p].heads /\ my'[p].rows = my[p].rows
        /\ my'[p].todo = my[p].todo
    <2>1. (my[p].roots \ {m}) \in SUBSET Manifest BY <1>1 DEF PassTypes, Values
    <2>2. my' = [my EXCEPT ![p].roots = my[p].roots \ {m}] BY DEF DropEvidence
    <2> QED BY <1>1, <2>1, <2>2, SetRoots
  <1>3. UNCHANGED <<primary, reader, rhead, stored, rpending, rholder>> BY DEF DropEvidence
  <1>4. rpins' \subseteq Pinned BY <1>1 DEF DropEvidence, StandbyOK
  <1> QED BY <1>1, <1>2, <1>3, <1>4, SweepStep DEF StandbyOK, Simple

(* The CAS of the pass that holds the lease: its target is newer than the head it
   compared, and its graph is there. *)
LEMMA AdvanceKeeps ==
  ASSUME ReplicationAssumption, IInv, NEW p \in Pass, Advance(p)
  PROVE  IInv' /\ HeadsAdvance
  <1> DEFINE s == my[p].source
             n == my[p].todo[s]
  <1>1. /\ PassTypes /\ PassOK(p) /\ PrimaryOK /\ StandbyOK
        /\ pc[p] = "advance" /\ rholder = p /\ s \in Source
    BY DEF IInv, Advance, At, MayAdvance, PassOK, Copying
  <1>2. /\ n \in 1..Len(history[s]) /\ Len(history[s]) \in 1..MaxGeneration
        /\ rhead[s].generation < n /\ TargetManifest(p) \in stored
        /\ TargetManifest(p) = history[s][n] /\ history[s][n] \in Manifest
    <2>1. n \in Nat /\ n >= 1 /\ n <= Len(history[s]) /\ Len(history[s]) \in 1..MaxGeneration
      BY <1>1 DEF PassOK, Copying, PassTypes, Values, PrimaryOK
    <2>2. rhead[s].generation < n BY <1>1 DEF Advance, MayAdvance, PassOK
    <2>3. TargetManifest(p) \in stored /\ TargetManifest(p) = history[s][n]
      BY <1>1 DEF PassOK, TargetManifest
    <2>4. history[s] \in Seq(Manifest) BY <1>1 DEF PrimaryOK
    <2> QED BY <2>1, <2>2, <2>3, <2>4
  <1>3. rhead' = [rhead EXCEPT ![s] = [generation |-> n, manifest |-> TargetManifest(p)]]
    BY DEF Advance
  <1>4. UNCHANGED <<primary, reader, stored, rpending, rpins>> /\ rholder' = Released(rholder, p)
    BY DEF Advance
  <1>5. /\ OnlyMine(p) /\ my'[p].heads = my[p].heads /\ my'[p].rows = my[p].rows
        /\ Less(p)
        /\ \/ AtLabel(p, "ack") /\ my'[p].upto = n /\ my'[p].source = s
           \/ AtLabel(p, "loop")
    <2>1. CASE Goto(p, "ack") /\ my' = [my EXCEPT ![p].upto = n]
      <3>1. n \in Nat BY <1>2
      <3>2. AtLabel(p, "ack") BY <1>1, <2>1, GotoIs DEF Labels
      <3>3. /\ OnlyMine(p) /\ my'[p].upto = n /\ my'[p].source = my[p].source
            /\ my'[p].heads = my[p].heads /\ my'[p].todo = my[p].todo /\ my'[p].rows = my[p].rows
        BY <1>1, <2>1, <3>1, SetUpto
      <3> QED BY <1>1, <3>2, <3>3, LessTodo
    <2>2. CASE Goto(p, "loop") /\ my' = [my EXCEPT ![p].todo[s] = 0, ![p].failed = TRUE]
      <3>1. AtLabel(p, "loop") BY <1>1, <2>2, GotoIs DEF Labels
      <3>2. /\ OnlyMine(p) /\ my'[p].heads = my[p].heads /\ my'[p].rows = my[p].rows
            /\ my'[p].todo = [my[p].todo EXCEPT ![s] = 0]
        BY <1>1, <2>2, DropSource
      <3> QED BY <1>1, <3>1, <3>2, LessDropped
    <2> QED BY <2>1, <2>2 DEF Advance
  <1>6. /\ rholder' \in Pass \cup {None} /\ reader' \in Pass \cup {None}
        /\ \A q \in Pass : rholder' # p /\ (rholder' = q => rholder = q)
    BY <1>1, <1>4, ReleasedIs DEF PassTypes
  <1> HIDE DEF s, n
  <1>7. /\ rhead' \in [Source -> Row0] /\ rhead'[s] = [generation |-> n, manifest |-> history[s][n]]
        /\ \A q \in Source : q # s => rhead'[q] = rhead[q]
    <2>1. [generation |-> n, manifest |-> TargetManifest(p)] \in Row0 BY <1>2 DEF Row0
    <2> QED BY <1>1, <1>2, <1>3, <2>1 DEF StandbyOK
  <1>8. PrimaryOK' BY <1>4 DEF IInv, primary, PrimaryOK, Generations, Operations, HeadGeneration
  <1>9. StandbyOK' BY <1>1, <1>4, <1>7 DEF primary, StandbyOK, Operations, HeadGeneration
  <1>10. PassTypes' BY <1>5, <1>6 DEF PassTypes, OnlyMine, AtLabel
  <1>11. HistoryGrows BY <1>4, NothingGrows DEF primary
  <1>12. HeadsAdvance
    <2>1. \A q \in Source : rhead[q].generation \in Nat BY <1>1 DEF StandbyOK, Row0
    <2> QED BY <1>2, <1>7, <2>1 DEF HeadsAdvance
  <1>13. \A q \in Pass : q # p => PassOK(q)'
    <2> TAKE q \in Pass
    <2> HAVE q # p
    <2>1. Holds(q) BY <1>4, <1>6 DEF Holds
    <2>2. my'[q] = my[q] /\ pc'[q] = pc[q] BY <1>5 DEF OnlyMine, AtLabel
    <2> QED BY <1>8, <1>9, <1>11, <1>12, <2>1, <2>2, PassStays
  <1>14. PassOK(p)'
    <2>1. CASE AtLabel(p, "loop") BY <1>1, <1>5, <1>8, <1>11, <2>1, SimplePass DEF Simple
    <2>2. CASE AtLabel(p, "ack") /\ my'[p].upto = n /\ my'[p].source = s
      <3>1. UNCHANGED history /\ Operations' = Operations
        BY <1>4 DEF primary, Operations, HeadGeneration
      <3>2. my'[p].source \in Source /\ my'[p].upto <= rhead'[my'[p].source].generation
        BY <1>1, <1>2, <1>7, <2>2 DEF s
      <3>3. \A q \in Source : my'[p].todo[q] <= Len(history[q])
        BY <1>1, <1>5 DEF Less, PassOK, PassTypes, OnlyMine, Values, PrimaryOK
      <3> QED BY <1>1, <1>5, <2>2, <3>1, <3>2, <3>3 DEF PassOK, AtLabel, Copying
    <2> QED BY <1>5, <2>1, <2>2
  <1>15. StandbyIsHistory'
    <2>1. history' = history BY <1>4 DEF primary
    <2>2. rhead'[s].generation <= HeadGeneration(s) /\ rhead'[s] = Row(s, rhead'[s].generation)
      BY <1>2, <1>7 DEF HeadGeneration, Row
    <2> QED BY <1>7, <2>1, <2>2 DEF IInv, StandbyIsHistory, Row, HeadGeneration
  <1>16. StandbyHeadsDecode' BY <1>2, <1>4, <1>7 DEF IInv, StandbyHeadsDecode
  <1>17. AckedIsOnStandby'
    <2>1. \A q \in Source : Generations(q)' = Generations(q) /\ Unacked(q)' = Unacked(q)
      BY <1>4 DEF primary, Generations, Unacked
    <2>2. \A q \in Source : Generations(q) \subseteq Nat BY DEF Generations
    <2>3. \A q \in Source : rhead[q].generation \in Nat /\ rhead'[q].generation \in Nat
      BY <1>1, <1>7 DEF StandbyOK, Row0
    <2> QED BY <1>12, <2>1, <2>2, <2>3 DEF IInv, AckedIsOnStandby, HeadsAdvance
  <1> QED BY <1>8, <1>9, <1>10, <1>12, <1>13, <1>14, <1>15, <1>16, <1>17 DEF IInv

(* The standby's collector needs a free lease, and leaves what a head names. *)
LEMMA CollectStandbyKeeps ==
  ASSUME ReplicationAssumption, IInv, CollectStandby
  PROVE  IInv'
  <1>1. UNCHANGED <<primary, reader, rhead, rpending, rpins, rholder, pc, my>> /\ rholder = None
    BY DEF CollectStandby
  <1>2. PICK m \in stored \ StandbyRoots : stored' = stored \ {m} BY DEF CollectStandby
  <1>3. PrimaryOK' BY <1>1 DEF IInv, primary, PrimaryOK, Generations, Operations, HeadGeneration
  <1>4. StandbyOK' BY <1>1, <1>2 DEF IInv, primary, StandbyOK, Operations, HeadGeneration
  <1>5. PassTypes' BY <1>1 DEF IInv, PassTypes
  <1>6. HistoryGrows BY <1>1, NothingGrows DEF primary
  <1>7. HeadsAdvance BY <1>1 DEF HeadsAdvance, IInv, StandbyOK, Row0
  <1>8. \A q \in Pass : PassOK(q)'
    <2> TAKE q \in Pass
    <2>1. Holds(q) BY <1>1 DEF Holds, ReplicationAssumption
    <2> QED BY <1>1, <1>3, <1>4, <1>6, <1>7, <2>1, PassStays
  <1>9. \A s \in Source : rhead[s].generation > 0 => rhead[s].manifest \in stored'
    BY <1>2 DEF StandbyRoots, IInv, StandbyHeadsDecode
  <1>10. StandbyIsHistory' /\ StandbyHeadsDecode' BY <1>1, <1>6, <1>9, HeadsStay
  <1>11. AckedIsOnStandby' BY <1>1 DEF IInv, primary, AckedIsOnStandby, Generations, Unacked
  <1> QED BY <1>3, <1>4, <1>5, <1>8, <1>10, <1>11 DEF IInv
--------------------------------------------------------------------------------
(* Steps that change the primary *)

LEMMA PrimaryStep ==
  ASSUME ReplicationAssumption, IInv, PrimaryOK', HistoryGrows, AckedIsOnStandby',
         UNCHANGED <<standby, rholder, reader, pc, my>>
  PROVE  IInv'
  <1>1. StandbyOK' BY OperationsStay DEF IInv, standby, StandbyOK
  <1>2. PassTypes' BY DEF IInv, PassTypes
  <1>3. HeadsAdvance BY DEF standby, HeadsAdvance, IInv, StandbyOK, Row0
  <1>4. \A q \in Pass : PassOK(q)'
    <2> TAKE q \in Pass
    <2>1. Holds(q) BY DEF Holds, standby
    <2> QED BY <1>1, <1>3, <2>1, PassStays
  <1>5. StandbyIsHistory' /\ StandbyHeadsDecode'
    BY HeadsStay DEF IInv, standby, StandbyHeadsDecode
  <1> QED BY <1>1, <1>2, <1>4, <1>5 DEF IInv

LEMMA PublishKeeps ==
  ASSUME ReplicationAssumption, IInv, NEW s \in Source, NEW m \in Manifest, NEW delivery \in Delivery,
         Publish(s, m, delivery)
  PROVE  IInv'
  <1> DEFINE g == HeadGeneration(s) + 1
  <1>1. /\ history' = [history EXCEPT ![s] = Append(history[s], m)]
        /\ outbox' = [outbox EXCEPT ![s] = outbox[s] \cup {g}]
        /\ pending' \subseteq pending \cup {<<s, g>>}
        /\ UNCHANGED <<acked, pins, reader, standby, rholder, pc, my>>
        /\ Len(history[s]) < MaxGeneration /\ g = Len(history[s]) + 1
    BY DEF Publish, PrimaryOnly, HeadGeneration
  <1> HIDE DEF g
  <1>2. /\ PrimaryOK /\ history \in [Source -> Seq(Manifest)] /\ history[s] \in Seq(Manifest)
        /\ MaxGeneration \in Nat /\ Len(history[s]) \in 1..MaxGeneration
    BY DEF IInv, PrimaryOK, ReplicationAssumption
  <1>3. /\ history' \in [Source -> Seq(Manifest)] /\ Len(history'[s]) = g
        /\ \A i \in 1..Len(history[s]) : history'[s][i] = history[s][i]
        /\ \A q \in Source : q # s => history'[q] = history[q]
    BY <1>1, <1>2
  <1>4. \A q \in Source : Len(history[q]) \in Nat BY <1>2 DEF PrimaryOK
  <1>5. HistoryGrows BY <1>1, <1>2, <1>3, <1>4 DEF HistoryGrows
  <1>6. g \in Nat /\ g \in 2..MaxGeneration /\ g \in 1..MaxGeneration BY <1>1, <1>2
  <1>7. /\ outbox' \in [Source -> SUBSET Nat] /\ outbox'[s] = outbox[s] \cup {g}
        /\ \A q \in Source : q # s => outbox'[q] = outbox[q]
    BY <1>1, <1>2, <1>6 DEF PrimaryOK
  <1>8. PrimaryOK'
    <2>1. \A q \in Source : Len(history'[q]) \in 1..MaxGeneration BY <1>2, <1>3, <1>6 DEF PrimaryOK
    <2>2. \A q \in Source : acked'[q] \subseteq outbox'[q] BY <1>1, <1>2, <1>7 DEF PrimaryOK
    <2>3. \A q \in Source : outbox'[q] \subseteq 1..Len(history'[q])
      BY <1>1, <1>2, <1>3, <1>6, <1>7 DEF PrimaryOK, Generations
    <2>4. Operations \subseteq Operations'
      <3>1. \A q \in Source : Len(history[q]) <= Len(history'[q]) BY <1>5 DEF HistoryGrows
      <3>2. \A q \in Source : Len(history'[q]) \in Nat BY <2>1
      <3> QED BY <1>4, <3>1, <3>2 DEF Operations, Known, HeadGeneration
    <2>5. <<s, g>> \in Operations' BY <1>3, <1>6 DEF Operations, Known, HeadGeneration
    <2> QED BY <1>1, <1>2, <1>3, <1>7, <2>1, <2>2, <2>3, <2>4, <2>5 DEF PrimaryOK, Generations
  <1>9. AckedIsOnStandby'
    <2> SUFFICES ASSUME NEW q \in Source, NEW i \in 1..Len(history'[q]),
                        i \notin outbox'[q] \ acked[q]
                 PROVE  i <= rhead[q].generation
      BY <1>1 DEF AckedIsOnStandby, Generations, Unacked, standby
    <2>1. i \in 1..Len(history[q])
      <3>1. CASE q = s
        <4>1. i # g
          <5>1. g \notin acked[s] BY <1>1, <1>2 DEF PrimaryOK, Generations
          <5> QED BY <1>7, <3>1, <5>1
        <4> QED BY <1>1, <1>2, <1>3, <3>1, <4>1
      <3>2. CASE q # s BY <1>3, <3>2
      <3> QED BY <3>1, <3>2
    <2>2. i \notin outbox[q] \ acked[q] BY <1>7
    <2> QED BY <2>1, <2>2 DEF IInv, AckedIsOnStandby, Generations, Unacked
  <1> QED BY <1>1, <1>5, <1>8, <1>9, PrimaryStep

(* Evidence and what Git has shown do not concern the standby's heads. *)
LEMMA RetainKeeps ==
  ASSUME ReplicationAssumption, IInv, UNCHANGED <<history, outbox, acked>>,
         pending' \subseteq pending, pins' \subseteq Pinned,
         UNCHANGED <<standby, rholder, reader, pc, my>>
  PROVE  IInv'
  <1>1. PrimaryOK' BY DEF IInv, PrimaryOK, Generations, Operations, HeadGeneration
  <1>2. HistoryGrows BY NothingGrows
  <1>3. AckedIsOnStandby' BY DEF IInv, standby, AckedIsOnStandby, Generations, Unacked
  <1> QED BY <1>1, <1>2, <1>3, PrimaryStep

(* Only what is acknowledged is collected. *)
LEMMA CollectPrimaryKeeps ==
  ASSUME ReplicationAssumption, IInv, NEW s \in Source, NEW g \in 1..MaxGeneration, CollectPrimary(s, g)
  PROVE  IInv'
  <1>1. /\ outbox' = [outbox EXCEPT ![s] = outbox[s] \ {g}]
        /\ acked' = [acked EXCEPT ![s] = acked[s] \ {g}]
        /\ UNCHANGED <<history, pending, pins, reader, standby, rholder, pc, my>> /\ g \in acked[s]
    BY DEF CollectPrimary, PrimaryOnly
  <1>2. /\ PrimaryOK /\ outbox \in [Source -> SUBSET Nat] /\ acked \in [Source -> SUBSET Nat]
    BY DEF IInv, PrimaryOK
  <1>3. /\ outbox' \in [Source -> SUBSET Nat] /\ acked' \in [Source -> SUBSET Nat]
        /\ outbox'[s] = outbox[s] \ {g} /\ acked'[s] = acked[s] \ {g}
        /\ \A q \in Source : q # s => outbox'[q] = outbox[q] /\ acked'[q] = acked[q]
    BY <1>1, <1>2
  <1>4. PrimaryOK' BY <1>1, <1>2, <1>3 DEF PrimaryOK, Generations, Operations, HeadGeneration
  <1>5. HistoryGrows BY <1>1, NothingGrows
  <1>6. \A q \in Source : outbox'[q] \ acked'[q] = outbox[q] \ acked[q] BY <1>1, <1>3
  <1>7. AckedIsOnStandby' BY <1>1, <1>6 DEF IInv, standby, AckedIsOnStandby, Generations, Unacked
  <1> QED BY <1>1, <1>4, <1>5, <1>7, PrimaryStep

(* What is acknowledged was found, or put, on the standby. *)
LEMMA AckKeeps ==
  ASSUME ReplicationAssumption, IInv, NEW p \in Pass, Ack(p)
  PROVE  IInv'
  <1> DEFINE s == my[p].source
             upto == my[p].upto
  <1>1. /\ PassTypes /\ PrimaryOK /\ StandbyOK /\ PassOK(p) /\ pc[p] = "ack" /\ s \in Source
        /\ upto <= rhead[s].generation /\ upto \in Nat /\ rhead[s].generation \in Nat
    <2>1. PassTypes /\ PrimaryOK /\ StandbyOK /\ PassOK(p) /\ pc[p] = "ack"
      BY DEF IInv, Ack, At
    <2>2. s \in Source /\ upto <= rhead[s].generation BY <2>1 DEF PassOK
    <2>3. upto \in Nat BY <2>1 DEF PassTypes, Values
    <2>4. rhead[s].generation \in Nat BY <2>1, <2>2 DEF StandbyOK, Row0
    <2> QED BY <2>1, <2>2, <2>3, <2>4
  <1>2. /\ acked' = [acked EXCEPT ![s] = acked[s] \cup {g \in outbox[s] : g <= upto}]
        /\ UNCHANGED <<history, outbox, pending, pins, reader, standby, rholder>>
    BY DEF Ack, AckThrough
  <1>3. AtLabel(p, "loop") BY <1>1, GotoIs DEF Ack, Labels
  <1>4. /\ OnlyMine(p) /\ my'[p].heads = my[p].heads /\ my'[p].rows = my[p].rows
        /\ my'[p].todo = [my[p].todo EXCEPT ![s] = 0]
    BY <1>1, EndSource DEF Ack
  <1>5. Less(p) BY <1>1, <1>4, LessDropped
  <1> HIDE DEF s, upto
  <1>6. /\ acked' \in [Source -> SUBSET Nat]
        /\ acked'[s] = acked[s] \cup {g \in outbox[s] : g <= upto}
        /\ \A q \in Source : q # s => acked'[q] = acked[q]
    BY <1>1, <1>2 DEF PrimaryOK
  <1>7. PrimaryOK'
    <2>1. \A q \in Source : acked'[q] \subseteq outbox[q] BY <1>1, <1>6 DEF PrimaryOK
    <2> QED BY <1>1, <1>2, <1>6, <2>1 DEF PrimaryOK, Generations, Operations, HeadGeneration
  <1>8. StandbyOK' BY <1>1, <1>2 DEF standby, StandbyOK, Operations, HeadGeneration
  <1>9. PassTypes' BY <1>1, <1>2, <1>3, <1>4 DEF PassTypes, OnlyMine, AtLabel
  <1>10. HistoryGrows BY <1>2, NothingGrows
  <1>11. HeadsAdvance BY <1>1, <1>2 DEF standby, HeadsAdvance, StandbyOK, Row0
  <1>12. \A q \in Pass : PassOK(q)'
    <2> TAKE q \in Pass
    <2>1. CASE q = p BY <1>1, <1>3, <1>4, <1>5, <1>7, <1>10, <2>1, SimplePass DEF Simple
    <2>2. CASE q # p
      <3>1. Holds(q) BY <1>2 DEF Holds, standby
      <3>2. my'[q] = my[q] /\ pc'[q] = pc[q] BY <1>3, <1>4, <2>2 DEF OnlyMine, AtLabel
      <3> QED BY <1>7, <1>8, <1>10, <1>11, <3>1, <3>2, PassStays
    <2> QED BY <2>1, <2>2
  <1>13. StandbyIsHistory' /\ StandbyHeadsDecode'
    BY <1>2, <1>10, HeadsStay DEF IInv, standby, StandbyHeadsDecode
  <1>14. AckedIsOnStandby'
    <2> SUFFICES ASSUME NEW q \in Source, NEW i \in 1..Len(history[q]),
                        i \notin outbox[q] \ acked'[q]
                 PROVE  i <= rhead[q].generation
      BY <1>2 DEF AckedIsOnStandby, Generations, Unacked, standby
    <2>1. CASE i \notin outbox[q] \ acked[q]
      BY <2>1 DEF IInv, AckedIsOnStandby, Generations, Unacked
    <2>2. CASE i \in outbox[q] \ acked[q]
      <3>1. q = s /\ i <= upto BY <1>6, <2>2
      <3> QED BY <1>1, <3>1
    <2> QED BY <2>1, <2>2
  <1> QED BY <1>7, <1>8, <1>9, <1>12, <1>13, <1>14 DEF IInv
--------------------------------------------------------------------------------
(* A lease lapses. *)
LEMMA LapseKeeps ==
  ASSUME ReplicationAssumption, IInv, UNCHANGED <<primary, standby, pc, my>>,
         reader' \in {reader, None}, rholder' \in {rholder, None}
  PROVE  IInv'
  <1>1. PrimaryOK' BY DEF IInv, primary, PrimaryOK, Generations, Operations, HeadGeneration
  <1>2. StandbyOK' BY DEF IInv, primary, standby, StandbyOK, Operations, HeadGeneration
  <1>3. PassTypes' BY DEF IInv, PassTypes
  <1>4. HistoryGrows BY NothingGrows DEF primary
  <1>5. HeadsAdvance BY DEF standby, HeadsAdvance, IInv, StandbyOK, Row0
  <1>6. \A q \in Pass : PassOK(q)'
    <2> TAKE q \in Pass
    <2>1. Holds(q) BY DEF Holds, standby, ReplicationAssumption
    <2> QED BY <1>1, <1>2, <1>4, <1>5, <2>1, PassStays
  <1>7. StandbyIsHistory' /\ StandbyHeadsDecode'
    BY <1>4, HeadsStay DEF IInv, standby, StandbyHeadsDecode
  <1>8. AckedIsOnStandby' BY DEF IInv, primary, standby, AckedIsOnStandby, Generations, Unacked
  <1> QED BY <1>1, <1>2, <1>3, <1>6, <1>7, <1>8 DEF IInv

LEMMA InvInit ==
  ASSUME ReplicationAssumption, Init
  PROVE  IInv
  <1>1. \A s \in Source : \E m \in Manifest : history[s] = <<m>> BY DEF Init
  <1>2. \A s \in Source : /\ history[s] \in Seq(Manifest) /\ Len(history[s]) = 1
                          /\ history[s][1] \in Manifest
    <2> TAKE s \in Source
    <2>1. PICK m \in Manifest : history[s] = <<m>> BY <1>1
    <2> QED BY <2>1
  <1>3. history \in [Source -> Seq(Manifest)]
    <2>1. \A s \in Source : history[s] \in Seq(Manifest) BY <1>2
    <2> QED BY <2>1 DEF Init
  <1>4. 1 \in 1..MaxGeneration /\ 0 \in 0..MaxGeneration BY DEF ReplicationAssumption
  <1>5. /\ outbox \in [Source -> SUBSET Nat] /\ acked \in [Source -> SUBSET Nat]
        /\ \A s \in Source : outbox[s] = {1} /\ acked[s] = {}
    BY DEF Init
  <1>6. PrimaryOK
    <2>1. \A s \in Source : Len(history[s]) \in 1..MaxGeneration BY <1>2, <1>4
    <2>2. \A s \in Source : acked[s] \subseteq outbox[s] BY <1>5
    <2>3. \A s \in Source : outbox[s] \subseteq 1..Len(history[s])
      <3>1. 1 \in 1..1 OBVIOUS
      <3> QED BY <1>2, <1>5, <3>1
    <2> QED BY <1>3, <1>5, <2>1, <2>2, <2>3 DEF PrimaryOK, Generations, Init
  <1>7. rhead \in [Source -> Row0] /\ \A s \in Source : rhead[s].generation = 0
    BY <1>2, <1>4 DEF Init, Row0
  <1>8. StandbyOK BY <1>7 DEF Init, StandbyOK
  <1>9. /\ Start \in Values /\ Start.todo = [s \in Source |-> 0]
        /\ Start.heads = [s \in Source |-> 0] /\ Start.rows = {}
    BY DEF Start, Values
  <1>10. PassTypes BY <1>9 DEF Init, PassTypes, Labels
  <1>11. \A p \in Pass : PassOK(p)
    <2> TAKE p \in Pass
    <2>1. my[p] = Start /\ pc[p] = "idle" BY DEF Init
    <2> QED BY <1>2, <1>9, <2>1 DEF PassOK, Copying
  <1>12. AckedIsOnStandby
    <2>1. \A s \in Source : \A g \in 1..Len(history[s]) : g \in outbox[s] \ acked[s]
      <3>1. \A g \in 1..1 : g = 1 OBVIOUS
      <3> QED BY <1>2, <1>5, <3>1
    <2> QED BY <2>1 DEF AckedIsOnStandby, Generations, Unacked
  <1>13. StandbyIsHistory /\ StandbyHeadsDecode BY <1>7 DEF StandbyIsHistory, StandbyHeadsDecode
  <1> QED BY <1>6, <1>8, <1>10, <1>11, <1>12, <1>13 DEF IInv

LEMMA InvNext ==
  ASSUME ReplicationAssumption, IInv, [Next]_vars
  PROVE  IInv'
  <1>1. ASSUME PrimaryNext PROVE IInv'
    <2>1. ASSUME NEW s \in Source, NEW m \in Manifest, NEW delivery \in Delivery,
                 Publish(s, m, delivery)
          PROVE  IInv'
      BY <2>1, PublishKeeps
    <2>2. ASSUME NEW s \in Source, NEW g \in 1..MaxGeneration, CollectPrimary(s, g) PROVE IInv'
      BY <2>2, CollectPrimaryKeeps
    <2>3. ASSUME NEW op \in pending, Show(op) PROVE IInv'
      BY <2>3, RetainKeeps DEF Show, PrimaryOnly, IInv, PrimaryOK
    <2>4. ASSUME NEW m \in Pinned \ pins, PinEvidence(m) PROVE IInv'
      BY <2>4, RetainKeeps DEF PinEvidence, PrimaryOnly, IInv, PrimaryOK
    <2>5. ASSUME NEW m \in pins, ReleaseEvidence(m) PROVE IInv'
      BY <2>5, RetainKeeps DEF ReleaseEvidence, PrimaryOnly, IInv, PrimaryOK
    <2> QED BY <1>1, <2>1, <2>2, <2>3, <2>4, <2>5 DEF PrimaryNext
  <1>2. ASSUME NEW p \in Pass, Replicate(p) PROVE IInv'
    <2>1. ASSUME NEW s \in Source, BeginReplicate(p, s) \/ GraphMissing(p, s) PROVE IInv'
      BY <2>1, BeginReplicateKeeps, GraphMissingKeeps
    <2> QED BY <1>2, <2>1, CaptureHeadsKeeps, CaptureEventsKeeps, CompareAheadKeeps,
               CompareBehindKeeps, PutGraphKeeps, ReadbackKeeps, AdvanceKeeps, AckKeeps,
               FailSourceKeeps
            DEF Replicate
  <1>3. ASSUME NEW p \in Pass, Sweep(p) PROVE IInv'
    <2>1. ASSUME NEW op \in my[p].rows, InstallOperation(p, op) PROVE IInv'
      BY <2>1, InstallOperationKeeps
    <2>2. ASSUME NEW m \in my[p].wasPinned, InstallEvidence(p, m) PROVE IInv'
      BY <2>2, InstallEvidenceKeeps
    <2>3. ASSUME NEW m \in my[p].roots, DropEvidence(p, m) PROVE IInv'
      BY <2>3, DropEvidenceKeeps
    <2> QED BY <1>3, <2>1, <2>2, <2>3, ReadMetadataKeeps, ReadRootsKeeps, PutRootsKeeps,
               ReadbackRootsKeeps, SelectReleasedKeeps, SweepDoneKeeps, FailSweepKeeps
            DEF Sweep
  <1>4. ASSUME NEW p \in Pass, CountPending(p) \/ VerifyHeads(p) \/ Crash(p) PROVE IInv'
    BY <1>4, CountPendingKeeps, VerifyHeadsKeeps, CrashKeeps
  <1>5. ASSUME LapseStandby \/ LapsePrimary PROVE IInv'
    BY <1>5, LapseKeeps DEF LapseStandby, LapsePrimary
  <1>6. ASSUME UNCHANGED vars PROVE IInv'
    BY <1>6, LapseKeeps DEF vars
  <1>7. CASE Next
    BY <1>1, <1>2, <1>3, <1>4, <1>5, <1>7, CollectStandbyKeeps DEF Next, PassStep
  <1> QED BY <1>6, <1>7

LEMMA InvAlways == Spec => []IInv
  BY ReplicationAssumption, InvInit, InvNext, PTL DEF Spec

(* The tables of both databases and the passes hold values of their kinds, and the
   acknowledged events are a part of the outbox (primary_store.py, documents.py). *)
THEOREM TypeCorrect == Spec => []TypeOK
  <1>1. IInv => TypeOK
    BY DEF IInv, PrimaryOK, StandbyOK, PassTypes, TypeOK, Row0
  <1> QED BY <1>1, InvAlways, PTL

(* An event counts as replicated, and may be collected, only when the standby has
   its generation or a later one (_ack after _replicate_one): for any number of
   overlapping passes and of faults. *)
THEOREM AckedAlways == Spec => []AckedIsOnStandby
  <1>1. IInv => AckedIsOnStandby BY DEF IInv
  <1> QED BY <1>1, InvAlways, PTL

(* The standby's heads are generations of the primary, with their manifests
   (_replicate_one, the trigger's CAS). *)
THEOREM HistoryAlways == Spec => []StandbyIsHistory
  <1>1. IInv => StandbyIsHistory BY DEF IInv
  <1> QED BY <1>1, InvAlways, PTL

(* What the standby's heads name is there, although its collector runs between any
   two steps of a pass (_put_graph, garbage_collect with replica_mode). *)
THEOREM DecodeAlways == Spec => []StandbyHeadsDecode
  <1>1. IInv => StandbyHeadsDecode BY DEF IInv
  <1> QED BY <1>1, InvAlways, PTL

(* REPLICA_AHEAD, REPLICA_CONFLICT and REPLICA_MISMATCH are never reported of two
   healthy databases (_replicate_one, verify_heads). *)
THEOREM AlarmNever == Spec => []NoFalseAlarm
  <1>1. IInv => NoFalseAlarm BY DEF IInv, PassOK, NoFalseAlarm
  <1> QED BY <1>1, InvAlways, PTL

(* The standby never goes back, whichever of two passes advances it last (the CAS
   on the generation that was compared, and the trigger's lease test). *)
THEOREM BackNever == Spec => NeverBack
  <1>1. ASSUME IInv, [Next]_vars
        PROVE  [\A s \in Source : rhead'[s].generation >= rhead[s].generation]_vars
    <2>1. \A s \in Source : rhead[s].generation \in Nat BY <1>1 DEF IInv, StandbyOK, Row0
    <2>2. ASSUME NEW p \in Pass, Advance(p) PROVE HeadsAdvance
      BY <1>1, <2>2, AdvanceKeeps, ReplicationAssumption
    <2>3. CASE \E p \in Pass : Advance(p)
      <3>1. HeadsAdvance BY <2>2, <2>3
      <3>2. IInv' BY <1>1, InvNext, ReplicationAssumption
      <3>3. \A s \in Source : rhead'[s].generation \in Nat BY <3>2 DEF IInv, StandbyOK, Row0
      <3> QED BY <2>1, <3>1, <3>3 DEF HeadsAdvance
    <2>4. CASE Next /\ ~\E p \in Pass : Advance(p)
      <3>1. rhead' = rhead
        BY <2>4 DEF Next, PrimaryNext, PassStep, Replicate, Sweep, standby, PrimaryOnly,
           Publish, Show, PinEvidence, ReleaseEvidence, CollectPrimary, CollectStandby,
           CaptureHeads, CaptureEvents, BeginReplicate, GraphMissing, CompareAhead, CompareBehind,
           PutGraph, Readback, Ack, FailSource, ReadMetadata, ReadRoots, PutRoots, ReadbackRoots,
           InstallOperation, InstallEvidence, SelectReleased, DropEvidence, SweepDone, FailSweep,
           CountPending, VerifyHeads, Crash, LapseStandby, LapsePrimary
      <3> QED BY <2>1, <3>1
    <2>5. CASE UNCHANGED vars BY <2>5
    <2> QED BY <1>1, <2>3, <2>4, <2>5
  <1> QED BY <1>1, InvAlways, PTL DEF Spec, NeverBack
--------------------------------------------------------------------------------
(* The roots of the metadata, while no read lease of the primary lapses.  Between its
   two reads the primary stands still; so what the sweep installs, it has copied, and
   while it holds the standby's lease that stays there. *)

MetadataDecodes ==
  /\ rpins \subseteq stored
  /\ \A op \in rpending : ManifestOf(op) \in stored

Sweeping == {"sweep", "readRoots", "install"}

SweepOK(p) ==
  /\ pc[p] = "roots" => reader = p /\ my[p].wasPending = pending /\ my[p].wasPinned = pins
  /\ pc[p] \in Sweeping =>
       /\ my[p].wasPending \subseteq Operations
       /\ my[p].wasPinned \subseteq my[p].roots
       /\ \A op \in my[p].wasPending : ManifestOf(op) \in my[p].roots
  /\ pc[p] = "install" /\ rholder = p => my[p].roots \subseteq stored

RootsInv ==
  IInv /\ MetadataDecodes /\ \A p \in Pass : SweepOK(p)

LEMMA RootsDecode ==
  ASSUME RootsInv
  PROVE  StandbyRootsDecode
  BY DEF RootsInv, IInv, MetadataDecodes, StandbyHeadsDecode, StandbyRootsDecode, StandbyRoots

(* The manifest of an operation is never rewritten. *)
LEMMA ManifestStays ==
  ASSUME PrimaryOK, HistoryGrows, NEW op \in Operations
  PROVE  ManifestOf(op)' = ManifestOf(op)
  <1>1. op[1] \in Source /\ op[2] \in 1..Len(history[op[1]])
    BY DEF Operations, Known, HeadGeneration, PrimaryOK
  <1> QED BY <1>1 DEF ManifestOf, HistoryGrows

(* What another client does leaves the sweep of q as it was. *)
LEMMA SweepStays ==
  ASSUME PrimaryOK, PrimaryOK', HistoryGrows, NEW q \in Pass, SweepOK(q),
         my'[q] = my[q], pc'[q] = pc[q], Holds(q),
         reader = q => reader' = q /\ UNCHANGED <<pending, pins>>
  PROVE  SweepOK(q)'
  <1>1. Operations \subseteq Operations'
    BY OperationsStay
  <1>2. ASSUME pc[q] \in Sweeping, NEW op \in my[q].wasPending
        PROVE  ManifestOf(op)' = ManifestOf(op)
    BY <1>2, ManifestStays DEF SweepOK
  <1>3. pc[q] \in Sweeping =>
          /\ my[q].wasPending \subseteq Operations'
          /\ my[q].wasPinned \subseteq my[q].roots
          /\ \A op \in my[q].wasPending : ManifestOf(op)' \in my[q].roots
    BY <1>1, <1>2 DEF SweepOK
  <1>4. pc[q] = "install" /\ rholder' = q => my[q].roots \subseteq stored'
    BY DEF SweepOK, Holds
  <1> QED BY <1>3, <1>4 DEF SweepOK

(* The rows of the metadata stay decodable while no graph they name is taken. *)
LEMMA MetadataStays ==
  ASSUME IInv, HistoryGrows, MetadataDecodes, stored \subseteq stored',
         UNCHANGED <<rpending, rpins>>
  PROVE  MetadataDecodes'
  <1>1. \A op \in rpending : ManifestOf(op)' = ManifestOf(op)
    BY ManifestStays DEF IInv, StandbyOK
  <1> QED BY <1>1 DEF MetadataDecodes

(* Clients of the primary. *)
LEMMA PrimaryKeepsRoots ==
  ASSUME ReplicationAssumption, RootsInv, IInv', HistoryGrows, reader = None,
         UNCHANGED <<standby, rholder, reader, pc, my>>
  PROVE  RootsInv'
  <1>1. MetadataDecodes'
    BY MetadataStays DEF RootsInv, standby
  <1>2. \A q \in Pass : SweepOK(q)'
    <2> TAKE q \in Pass
    <2>1. Holds(q) /\ reader # q
      BY DEF Holds, standby, ReplicationAssumption
    <2> QED BY <2>1, SweepStays DEF RootsInv, IInv
  <1> QED BY <1>1, <1>2 DEF RootsInv

(* A step of pass p: the sweeps of the others stay, and it answers for its own. *)
LEMMA PassKeepsRoots ==
  ASSUME RootsInv, IInv', NEW p \in Pass, UNCHANGED primary, stored \subseteq stored',
         \A q \in Pass : q # p => my'[q] = my[q] /\ pc'[q] = pc[q],
         \A q \in Pass : q # p => (rholder' = q => rholder = q) /\ (reader = q => reader' = q),
         MetadataDecodes', SweepOK(p)'
  PROVE  RootsInv'
  <1>1. HistoryGrows
    BY NothingGrows DEF primary
  <1>2. \A q \in Pass : q # p => SweepOK(q)'
    <2> TAKE q \in Pass
    <2> HAVE q # p
    <2>1. Holds(q)
      BY DEF Holds
    <2> QED BY <1>1, <2>1, SweepStays DEF RootsInv, IInv, primary
  <1> QED BY <1>2 DEF RootsInv

(* A step of p that leaves the sweep, or has not begun it. *)
OtherStep(p) ==
  /\ UNCHANGED primary /\ stored \subseteq stored'
  /\ \A q \in Pass : q # p => my'[q] = my[q] /\ pc'[q] = pc[q]
  /\ \A q \in Pass : q # p => (rholder' = q => rholder = q) /\ (reader = q => reader' = q)
  /\ rpending' = rpending /\ rpins' \subseteq rpins
  /\ pc'[p] \notin Sweeping /\ pc'[p] # "roots"

LEMMA OtherStepsKeepRoots ==
  ASSUME RootsInv, IInv', NEW p \in Pass, OtherStep(p)
  PROVE  RootsInv'
  <1>1. MetadataDecodes'
    <2>1. \A op \in rpending : ManifestOf(op)' = ManifestOf(op)
      BY DEF OtherStep, primary, ManifestOf
    <2> QED BY <2>1 DEF RootsInv, MetadataDecodes, OtherStep
  <1>2. SweepOK(p)'
    BY DEF SweepOK, Sweeping, OtherStep
  <1> QED BY <1>1, <1>2, PassKeepsRoots DEF OtherStep

LEMMA ReplicateKeepsRoots ==
  ASSUME ReplicationAssumption, RootsInv, IInv', NEW p \in Pass, Replicate(p), ~Ack(p)
  PROVE  OtherStep(p)
  <1>1. /\ pc \in [Pass -> Labels] /\ my \in [Pass -> Values] /\ None \notin Pass
        /\ \A lease, q : Released(lease, p) = q => lease = q \/ q = None
        /\ \A lease : lease # p => Released(lease, p) = lease
    BY DEF RootsInv, IInv, PassTypes, ReplicationAssumption, Released
  <1> USE DEF OtherStep, standby, Goto, At, Sweeping
  <1>2. ASSUME NEW s \in Source, BeginReplicate(p, s) PROVE OtherStep(p)
    BY <1>1, <1>2 DEF BeginReplicate
  <1>3. ASSUME NEW s \in Source, GraphMissing(p, s) PROVE OtherStep(p)
    BY <1>1, <1>3 DEF GraphMissing
  <1>4. CASE CaptureHeads(p)
    BY <1>4, <1>1 DEF CaptureHeads
  <1>5. CASE CaptureEvents(p)
    BY <1>5, <1>1 DEF CaptureEvents
  <1>6. CASE CompareAhead(p)
    BY <1>6, <1>1 DEF CompareAhead
  <1>7. CASE CompareBehind(p)
    BY <1>7, <1>1 DEF CompareBehind
  <1>8. CASE PutGraph(p)
    BY <1>8, <1>1 DEF PutGraph
  <1>9. CASE Readback(p)
    BY <1>9, <1>1 DEF Readback
  <1>10. CASE Advance(p)
    BY <1>10, <1>1 DEF Advance
  <1>11. CASE FailSource(p)
    BY <1>11, <1>1 DEF FailSource
  <1> QED BY <1>2, <1>3, <1>4, <1>5, <1>6, <1>7, <1>8, <1>9, <1>10, <1>11 DEF Replicate

(* Between its two reads of the primary nothing there changes. *)
LEMMA ReadsKeepRoots ==
  ASSUME ReplicationAssumption, RootsInv, IInv', NEW p \in Pass, ReadMetadata(p) \/ ReadRoots(p)
  PROVE  RootsInv'
  <1>1. PassTypes /\ PrimaryOK /\ SweepOK(p) /\ IInv
    BY DEF RootsInv, IInv
  <1>2. /\ UNCHANGED <<primary, standby, rholder>>
        /\ \A q \in Pass : q # p => my'[q] = my[q] /\ pc'[q] = pc[q]
        /\ \A q \in Pass : q # p => (reader = q => reader' = q)
    BY <1>1 DEF ReadMetadata, ReadRoots, Goto, PassTypes, Released, ReplicationAssumption
  <1>3. MetadataDecodes'
    BY <1>1, <1>2, MetadataStays, NothingGrows DEF RootsInv, primary, standby
  <1>4. SweepOK(p)'
    <2>1. CASE ReadMetadata(p)
      <3>1. /\ pc'[p] = "roots" /\ reader' = p
            /\ my'[p].wasPending = pending /\ my'[p].wasPinned = pins
        BY <1>1, <2>1 DEF ReadMetadata, Goto, PassTypes, Values
      <3> QED BY <1>2, <3>1 DEF SweepOK, Sweeping, primary
    <2>2. CASE ReadRoots(p)
      <3>1. /\ pc[p] = "roots" /\ pc'[p] = "sweep" /\ my'[p].roots = RetainedRoots
            /\ my'[p].wasPending = my[p].wasPending /\ my'[p].wasPinned = my[p].wasPinned
        BY <1>1, <2>2 DEF ReadRoots, Goto, At, PassTypes, Values
      <3>2. my[p].wasPending = pending /\ my[p].wasPinned = pins
        BY <1>1, <3>1 DEF SweepOK
      <3>3. pending \subseteq Operations'
        BY <1>1, <1>2 DEF PrimaryOK, primary, Operations, HeadGeneration
      <3>4. \A op \in pending : ManifestOf(op)' \in RetainedRoots
        BY <1>2 DEF primary, ManifestOf, RetainedRoots
      <3>5. pins \subseteq RetainedRoots
        BY DEF RetainedRoots
      <3> QED BY <3>1, <3>2, <3>3, <3>4, <3>5 DEF SweepOK, Sweeping
    <2> QED BY <2>1, <2>2
  <1> QED BY <1>2, <1>3, <1>4, PassKeepsRoots DEF standby, RootsInv

(* The roots are copied and read back under the standby's lease. *)
LEMMA CopyKeepsRoots ==
  ASSUME ReplicationAssumption, RootsInv, IInv', NEW p \in Pass, PutRoots(p) \/ ReadbackRoots(p)
  PROVE  RootsInv'
  <1>1. PassTypes /\ PrimaryOK /\ SweepOK(p) /\ IInv
    BY DEF RootsInv, IInv
  <1>2. /\ UNCHANGED <<primary, reader, rpending, rpins, my>> /\ stored \subseteq stored'
        /\ \A q \in Pass : q # p => pc'[q] = pc[q]
        /\ \A q \in Pass : q # p => (rholder' = q => rholder = q)
        /\ pc[p] \in Sweeping
        /\ \/ pc'[p] = "readRoots"
           \/ pc'[p] = "install" /\ my[p].roots \subseteq stored
    BY <1>1 DEF PutRoots, ReadbackRoots, Goto, At, PassTypes, Sweeping, standby
  <1>3. MetadataDecodes'
    BY <1>1, <1>2, MetadataStays, NothingGrows DEF RootsInv, primary
  <1>4. SweepOK(p)'
    <2>1. /\ my[p].wasPending \subseteq Operations' /\ my[p].wasPinned \subseteq my[p].roots
          /\ \A op \in my[p].wasPending : ManifestOf(op)' \in my[p].roots
      BY <1>1, <1>2 DEF SweepOK, primary, Operations, HeadGeneration, ManifestOf
    <2> QED BY <1>2, <2>1 DEF SweepOK, Sweeping
  <1> QED BY <1>2, <1>3, <1>4, PassKeepsRoots

(* What is installed has been copied. *)
LEMMA InstallKeepsRoots ==
  ASSUME ReplicationAssumption, RootsInv, IInv', NEW p \in Pass,
         \/ \E op \in my[p].rows : InstallOperation(p, op)
         \/ \E m \in my[p].wasPinned : InstallEvidence(p, m)
  PROVE  RootsInv'
  <1>1. PassTypes /\ PrimaryOK /\ SweepOK(p) /\ IInv /\ MetadataDecodes
    BY DEF RootsInv, IInv
  <1>2. /\ UNCHANGED <<primary, reader, stored, rholder, pc, my>>
        /\ pc[p] = "install" /\ rholder = p
        /\ rpending' \subseteq rpending \cup my[p].wasPending
        /\ rpins' \subseteq rpins \cup my[p].wasPinned
    BY DEF InstallOperation, InstallEvidence, At
  <1>3. /\ my[p].roots \subseteq stored /\ my[p].wasPinned \subseteq my[p].roots
        /\ \A op \in my[p].wasPending : ManifestOf(op) \in my[p].roots
    BY <1>1, <1>2 DEF SweepOK, Sweeping
  <1>4. MetadataDecodes'
    <2>1. \A op : ManifestOf(op)' = ManifestOf(op)
      BY <1>2 DEF primary, ManifestOf
    <2> QED BY <1>1, <1>2, <1>3, <2>1 DEF MetadataDecodes
  <1>5. SweepOK(p)'
    BY <1>1, <1>2 DEF SweepOK, Sweeping, primary, Operations, HeadGeneration, ManifestOf
  <1> QED BY <1>2, <1>4, <1>5, PassKeepsRoots

LEMMA SweepKeepsRoots ==
  ASSUME ReplicationAssumption, RootsInv, IInv', NEW p \in Pass,
         Sweep(p) \/ CountPending(p) \/ VerifyHeads(p) \/ Crash(p)
  PROVE  RootsInv'
  <1>1. /\ pc \in [Pass -> Labels] /\ my \in [Pass -> Values] /\ None \notin Pass
        /\ \A lease, q : Released(lease, p) = q => lease = q \/ q = None
        /\ \A lease : lease # p => Released(lease, p) = lease
    BY DEF RootsInv, IInv, PassTypes, ReplicationAssumption, Released
  <1>2. ASSUME \/ SelectReleased(p) \/ (\E m \in my[p].roots : DropEvidence(p, m))
               \/ SweepDone(p) \/ FailSweep(p)
        PROVE  OtherStep(p)
    <2> USE <1>1 DEF OtherStep, standby, Goto, At, Sweeping
    <2>1. CASE SelectReleased(p)
      BY <2>1 DEF SelectReleased
    <2>2. ASSUME NEW m \in my[p].roots, DropEvidence(p, m) PROVE OtherStep(p)
      BY <2>2 DEF DropEvidence
    <2>3. CASE SweepDone(p)
      BY <2>3 DEF SweepDone
    <2>4. CASE FailSweep(p)
      BY <2>4 DEF FailSweep
    <2> QED BY <1>2, <2>1, <2>2, <2>3, <2>4
  <1>3. ASSUME CountPending(p) \/ VerifyHeads(p) \/ Crash(p) PROVE OtherStep(p)
    <2> USE <1>1 DEF OtherStep, standby, Goto, At, Sweeping
    <2>1. CASE CountPending(p)
      BY <2>1 DEF CountPending
    <2>2. CASE VerifyHeads(p)
      BY <2>2 DEF VerifyHeads
    <2>3. CASE Crash(p)
      BY <2>3 DEF Crash
    <2> QED BY <1>3, <2>1, <2>2, <2>3
  <1> QED BY <1>2, <1>3, OtherStepsKeepRoots, ReadsKeepRoots, CopyKeepsRoots, InstallKeepsRoots
          DEF Sweep

(* An acknowledgement changes neither the history nor what is retained. *)
LEMMA AckKeepsRoots ==
  ASSUME ReplicationAssumption, RootsInv, IInv', NEW p \in Pass, Ack(p)
  PROVE  RootsInv'
  <1>1. /\ UNCHANGED <<history, pending, pins, reader, standby, rholder>>
        /\ \A q \in Pass : q # p => my'[q] = my[q] /\ pc'[q] = pc[q]
        /\ pc'[p] = "loop"
    BY DEF Ack, Goto, RootsInv, IInv, PassTypes
  <1>2. MetadataDecodes'
    BY <1>1, MetadataStays, NothingGrows DEF RootsInv, standby
  <1>3. \A q \in Pass : q # p => SweepOK(q)'
    <2> TAKE q \in Pass
    <2> HAVE q # p
    <2>1. Holds(q)
      BY <1>1 DEF Holds, standby
    <2> QED BY <1>1, <2>1, SweepStays, NothingGrows DEF RootsInv, IInv
  <1>4. SweepOK(p)'
    BY <1>1 DEF SweepOK, Sweeping
  <1> QED BY <1>2, <1>3, <1>4 DEF RootsInv

(* The collector of the standby takes no root. *)
LEMMA CollectKeepsRoots ==
  ASSUME ReplicationAssumption, RootsInv, IInv', CollectStandby
  PROVE  RootsInv'
  <1>1. /\ UNCHANGED <<primary, reader, rpending, rpins, rholder, pc, my>> /\ rholder = None
        /\ StandbyRoots \cap stored \subseteq stored'
    BY DEF CollectStandby
  <1>2. MetadataDecodes'
    <2>1. \A op : ManifestOf(op)' = ManifestOf(op)
      BY <1>1 DEF primary, ManifestOf
    <2> QED BY <1>1, <2>1 DEF RootsInv, MetadataDecodes, StandbyRoots
  <1>3. \A q \in Pass : SweepOK(q)'
    <2> TAKE q \in Pass
    <2>1. Holds(q)
      BY <1>1 DEF Holds, ReplicationAssumption
    <2> QED BY <1>1, <2>1, SweepStays, NothingGrows DEF RootsInv, IInv, primary
  <1> QED BY <1>2, <1>3 DEF RootsInv

LEMMA LapseKeepsRoots ==
  ASSUME ReplicationAssumption, RootsInv, IInv', UNCHANGED <<primary, standby, pc, my, reader>>,
         rholder' \in {rholder, None}
  PROVE  RootsInv'
  <1>1. MetadataDecodes'
    BY MetadataStays, NothingGrows DEF RootsInv, primary, standby
  <1>2. \A q \in Pass : SweepOK(q)'
    <2> TAKE q \in Pass
    <2>1. Holds(q)
      BY DEF Holds, ReplicationAssumption, standby
    <2> QED BY <2>1, SweepStays, NothingGrows DEF RootsInv, IInv, primary
  <1> QED BY <1>1, <1>2 DEF RootsInv

LEMMA GrowingHistory ==
  ASSUME ReplicationAssumption, IInv, PrimaryNext
  PROVE  /\ HistoryGrows /\ reader = None
         /\ UNCHANGED <<standby, rholder, reader, pc, my>>
  <1>1. ASSUME NEW s \in Source, NEW m \in Manifest, NEW delivery \in Delivery,
               Publish(s, m, delivery)
        PROVE  HistoryGrows
    <2>1. history' = [history EXCEPT ![s] = Append(history[s], m)]
      BY <1>1 DEF Publish
    <2>2. /\ history \in [Source -> Seq(Manifest)]
          /\ \A q \in Source : Len(history[q]) \in Nat
      BY DEF IInv, PrimaryOK
    <2>3. \A q \in Source : q # s => history'[q] = history[q]
      BY <2>1, <2>2
    <2>4. /\ Len(history'[s]) = Len(history[s]) + 1
          /\ \A i \in 1..Len(history[s]) : history'[s][i] = history[s][i]
      BY <2>1, <2>2
    <2> QED BY <2>2, <2>3, <2>4 DEF HistoryGrows
  <1>2. (\E s \in Source, m \in Manifest, delivery \in Delivery : Publish(s, m, delivery))
        \/ UNCHANGED history
    BY DEF PrimaryNext, Show, PinEvidence, ReleaseEvidence, CollectPrimary
  <1>3. HistoryGrows
    BY <1>1, <1>2, NothingGrows
  <1> QED BY <1>3 DEF PrimaryNext, PrimaryFree, PrimaryOnly, Publish, Show, PinEvidence,
                      ReleaseEvidence, CollectPrimary

LEMMA RootsNext ==
  ASSUME ReplicationAssumption, RootsInv, [Next]_vars, lapses = 0, lapses' = 0
  PROVE  RootsInv'
  <1>1. IInv /\ IInv'
    BY InvNext DEF RootsInv
  <1>2. CASE PrimaryNext
    BY <1>1, <1>2, GrowingHistory, PrimaryKeepsRoots
  <1>3. CASE CollectStandby
    BY <1>1, <1>3, CollectKeepsRoots
  <1>4. ASSUME NEW p \in Pass, PassStep(p) \/ Crash(p) PROVE RootsInv'
    <2>1. CASE Replicate(p)
      BY <1>1, <2>1, ReplicateKeepsRoots, OtherStepsKeepRoots, AckKeepsRoots
    <2> QED BY <1>1, <1>4, <2>1, SweepKeepsRoots DEF PassStep
  <1>5. CASE LapseStandby
    BY <1>1, <1>5, LapseKeepsRoots DEF LapseStandby
  <1>6. ~LapsePrimary
    BY DEF LapsePrimary
  <1>7. CASE UNCHANGED vars
    BY <1>1, <1>7, LapseKeepsRoots DEF vars
  <1> QED BY <1>2, <1>3, <1>4, <1>5, <1>6, <1>7 DEF Next

(* Every root of the standby's metadata can be decoded, and its collector never finds
   one missing (install_metadata after the readback of the roots), in any behaviour in
   which no read lease of the primary lapses between the two reads of a sweep. *)
THEOREM RootsAlways == Spec /\ [](lapses = 0) => []StandbyRootsDecode
  <1>1. Init => RootsInv
    <2> SUFFICES ASSUME Init PROVE RootsInv
      OBVIOUS
    <2>1. IInv
      BY ReplicationAssumption, InvInit
    <2> QED BY <2>1 DEF Init, RootsInv, MetadataDecodes, SweepOK, Sweeping
  <1>2. RootsInv /\ [Next]_vars /\ lapses = 0 /\ (lapses = 0)' => RootsInv'
    BY ReplicationAssumption, RootsNext
  <1>3. RootsInv => StandbyRootsDecode
    BY RootsDecode
  <1> QED BY <1>1, <1>2, <1>3, PTL DEF Spec
================================================================================
