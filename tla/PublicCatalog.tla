----------------------------- MODULE PublicCatalog -----------------------------
(***************************************************************************)
(* The public catalogue (application/public_shards.build, publication/      *)
(* steam.publish_catalog, publication/activity_origins.py).  One job at a   *)
(* time publishes a frozen copy of the private master; each attempt builds  *)
(* on the public files it has just fetched, and its push is refused if      *)
(* others pushed meanwhile.  The others are the public site's own content   *)
(* refresh and, before the database is primary, the manual audit of the     *)
(* release dates (scripts/audit_published_release_dates.py).  Every game    *)
(* here has 5000 Followers or a Twitch admission: the recent launches that  *)
(* are shown with fewer are left out.                                       *)
(***************************************************************************)
EXTENDS Integers, Sequences, FiniteSets, SequencesExt, Functions

CONSTANTS
  Game,
  MaxToday,    \* BOUND on the days
  MaxTime,     \* BOUND on the observations
  MaxAttempts, \* BOUND on the attempts of a publication, 8 in the code
  MaxOthers,   \* BOUND on the pushes of others
  MaxFreeze    \* BOUND on the publications

CatalogAssumption ==
  /\ IsFiniteSet(Game)
  /\ MaxToday \in Nat \ {0} /\ {MaxTime, MaxAttempts, MaxOthers, MaxFreeze} \subseteq Nat

VARIABLES
  master,      \* the private catalogue: the row of each game
  blocked,     \* the adult exclusions
  public,      \* the public files
  today, time,
  publisher, auditor,
  unheard,     \* games whose date changed without an activity origin
  arrivals,    \* how often each game came into the catalogue
  others, publications

vars == <<master, blocked, public, today, time, publisher, auditor, unheard, arrivals,
          others, publications>>
--------------------------------------------------------------------------------
Date == 1..MaxToday + 1
Time == 1..MaxTime

(* A row: the time of its Followers count, and its release date, which the
   Store shows in full since the time verified, or which comes from a query. *)
NoRow == [checked |-> 0, start |-> 0, full |-> FALSE, verified |-> 0, twitch |-> FALSE]
Shown(rows) == {g \in Game : rows[g] # NoRow}

Upcoming(rows, day) == {g \in Shown(rows) : rows[g].start >= day}
Released(rows, day) == {g \in Shown(rows) : rows[g].start < day}

Empty == [g \in Game |-> NoRow]
NoFiles == [version |-> 0, by |-> "catalog", day |-> 1, games |-> Empty, catalog |-> Empty,
            upcoming |-> {}, released |-> {}, unconfirmed |-> {}, origins |-> <<>>]
Idle == [pc |-> "idle", source |-> Empty, day |-> 1, tries |-> 0, built |-> NoFiles]

Init ==
  /\ master = Empty
  /\ blocked = {}
  /\ public = NoFiles
  /\ today = 1 /\ time = 0
  /\ publisher = Idle
  /\ auditor = [busy |-> FALSE, base |-> 0, at |-> 0]
  /\ unheard = {} /\ arrivals = [g \in Game |-> 0]
  /\ others = 0 /\ publications = 0
--------------------------------------------------------------------------------
(* The private master, as the other modules' jobs change it. *)

World == UNCHANGED <<public, publisher, auditor, unheard, arrivals, others, publications>>
Observes(row, g) ==
  /\ time < MaxTime /\ time' = time + 1
  /\ master' = [master EXCEPT ![g] = row]
  /\ UNCHANGED <<blocked, today>> /\ World

(* A new count; the date of a new game comes from the query or the Store. *)
Count(g) ==
  \E s \in Date, full, twitch \in BOOLEAN :
    Observes(IF master[g] # NoRow THEN [master[g] EXCEPT !.checked = time + 1]
             ELSE [checked |-> time + 1, start |-> s, full |-> full,
                   verified |-> IF full THEN time + 1 ELSE 0, twitch |-> twitch], g)

Verify(g) ==
  /\ master[g] # NoRow
  /\ \E s \in Date :
       Observes([master[g] EXCEPT !.start = s, !.full = TRUE, !.verified = time + 1], g)

Leave(g) == master[g] # NoRow /\ Observes(NoRow, g)

Exclude(g) ==
  /\ blocked = {} /\ blocked' = {g}
  /\ UNCHANGED <<master, today, time>> /\ World

Midnight ==
  /\ today < MaxToday /\ today' = today + 1
  /\ UNCHANGED <<master, blocked, time>> /\ World
--------------------------------------------------------------------------------
(* The builder *)

AnyDate(g, row, day, unconfirmed) == row # NoRow /\ g \notin blocked   \* a slip
Publishable(g, row, day, unconfirmed) ==
  /\ row # NoRow /\ g \notin blocked
  /\ g \in unconfirmed => row.full
  /\ row.start >= day => row.full

StaleFuture(g, row, source, day) ==
  row.start >= day /\ source[g] = NoRow /\ ~row.twitch

(* A newer verified date stays, also against a refresh that has none. *)
KeepsNewerDate(prior, row) == prior.full /\ prior.verified > row.verified
KeepsFullDate(prior, row) == prior.full /\ ~row.full

Merge(prior, row) ==
  LET dated == IF KeepsNewerDate(prior, row) \/ KeepsFullDate(prior, row) THEN prior ELSE row
  IN [checked |-> row.checked, start |-> dated.start, full |-> dated.full,
      verified |-> dated.verified, twitch |-> prior.twitch \/ row.twitch]

Built(source, day) ==
  LET lapsed(g, row) ==
        g \in blocked \/ (g \in public.unconfirmed /\ ~row.full) \/ StaleFuture(g, row, source, day)
      prior(g) ==
        LET row == public.games[g]
        IN IF Publishable(g, row, day, public.unconfirmed) /\ ~lapsed(g, row) THEN row ELSE NoRow
      new(g) ==
        LET row == source[g]
            merged == Merge(prior(g), row)
        IN IF /\ row # NoRow /\ g \notin blocked
              /\ g \in public.unconfirmed => row.full
              /\ Publishable(g, merged, day, public.unconfirmed)
           THEN merged ELSE prior(g)
  IN [g \in Game |-> new(g)]

(* The builder leaves a file that it neither shows nor has a reason to remove. *)
Files(rows, source, day) ==
  [g \in Game |->
    LET row == public.games[g]
    IN IF rows[g] # NoRow THEN rows[g]
       ELSE IF g \in blocked \/ (g \in public.unconfirmed /\ ~row.full)
                 \/ StaleFuture(g, row, source, day)
            THEN NoRow ELSE row]

(* The additions and the changes of date between two catalogues, in the name of
   a publication, unless it has told them already. *)
Origins(before, after, name) ==
  LET changed == {g \in Shown(after) : before[g] = NoRow \/ before[g].start # after[g].start}
      events == {[game |-> g, previous |-> before[g].start, date |-> after[g].start,
                  of |-> name] : g \in changed}
  IN public.origins \o SetToSeq(events \ Range(public.origins))

(* An older source must not roll back a newer published count. *)
CurrentFollowers(source) ==
  \A g \in Shown(source) : public.games[g].checked <= source[g].checked
--------------------------------------------------------------------------------
(* The publication *)

Outside == UNCHANGED <<master, blocked, today, time, auditor>>

Freeze ==
  /\ publisher.pc = "idle" /\ Shown(master) # {}
  /\ publications < MaxFreeze /\ publications' = publications + 1
  /\ publisher' = [Idle EXCEPT !.pc = "fetch", !.source = master, !.day = today]
  /\ UNCHANGED <<public, unheard, arrivals, others>> /\ Outside

(* The files that an attempt builds from those it has fetched. *)
Rendered(source, day) ==
  LET rows == Built(source, day)
      new == [public EXCEPT !.by = "catalog", !.day = day,
                !.games = Files(rows, source, day), !.catalog = rows,
                !.upcoming = Upcoming(rows, day), !.released = Released(rows, day),
                !.origins = Origins(public.catalog, rows, publications)]
  IN IF new = public THEN public ELSE [new EXCEPT !.version = @ + 1]

Fetch ==
  /\ publisher.pc = "fetch"
  /\ publisher' = IF publisher.tries < MaxAttempts /\ CurrentFollowers(publisher.source)
                  THEN [publisher EXCEPT !.pc = "push", !.tries = @ + 1,
                          !.built = Rendered(publisher.source, publisher.day)]
                  ELSE Idle
  /\ UNCHANGED <<public, unheard, arrivals, others, publications>> /\ Outside

Arrived(rows) ==
  [g \in Game |-> IF public.catalog[g] = NoRow /\ rows[g] # NoRow THEN arrivals[g] + 1 ELSE arrivals[g]]
Fits == publisher.built.version = public.version + 1
Told == {publisher.built.origins[i].game :
           i \in Len(public.origins) + 1..Len(publisher.built.origins)}

(* A push is refused if the branch has moved on.  That, and an answer that is
   lost, is tried again; the job may also end here.  Without a change there is
   nothing to push. *)
Push ==
  /\ publisher.pc = "push"
  /\ LET again == [publisher EXCEPT !.pc = "fetch", !.built = NoFiles]
     IN \/ /\ Fits
           /\ public' = publisher.built
           /\ unheard' = unheard \ Told
           /\ arrivals' = Arrived(public'.catalog)
           /\ publisher' \in {Idle, again}
        \/ /\ publisher' = IF publisher.built = public THEN Idle ELSE again
           /\ ~Fits /\ UNCHANGED <<public, unheard, arrivals>>
        \/ publisher' = Idle /\ UNCHANGED <<public, unheard, arrivals>>
  /\ UNCHANGED <<others, publications>> /\ Outside
--------------------------------------------------------------------------------
(* The other publishers *)

Other == others < MaxOthers /\ others' = others + 1
Backend == UNCHANGED <<master, blocked, today, publisher, arrivals, publications>>

(* The public site's refresh (external): a date that the Store shows, with its
   origin, in every file. *)
Refresh(g) ==
  /\ Other
  /\ public.catalog[g] # NoRow
  /\ time < MaxTime /\ time' = time + 1
  /\ \E s \in Date :
       LET row == [public.catalog[g] EXCEPT !.start = s, !.full = TRUE, !.verified = time + 1]
           rows == [public.catalog EXCEPT ![g] = row]
       IN /\ public' = [public EXCEPT !.version = @ + 1, !.by = "content", !.day = today,
                          !.games = [@ EXCEPT ![g] = row], !.catalog = rows,
                          !.upcoming = Upcoming(rows, today), !.released = Released(rows, today),
                          !.origins = Origins(public.catalog, rows, -time')]
          /\ unheard' = IF s = public.catalog[g].start THEN unheard ELSE unheard \ {g}
  /\ UNCHANGED auditor /\ Backend

AuditStarts ==
  /\ ~auditor.busy /\ Other
  /\ time < MaxTime /\ time' = time + 1
  /\ auditor' = [busy |-> TRUE, base |-> public.version, at |-> time + 1]
  /\ UNCHANGED <<public, unheard>> /\ Backend

(* What the Store shows of a date: the full day, or none. *)
SeenDate == Date \cup {0}

(* A date that is confirmed keeps the time of its verification. *)
Redated(row, day) ==
  [row EXCEPT !.start = day, !.full = TRUE,
     !.verified = IF row.full /\ row.start = day /\ @ # 0 THEN @ ELSE auditor.at]

(* The files of an audit: a future game without a full date leaves.  The lists
   of this script know no Twitch admission. *)
Audited(seen) ==
  LET future == DOMAIN seen
      gone == {g \in future : seen[g] = 0}
      rows == [g \in Game |->
        LET row == public.catalog[g]
        IN IF g \in gone THEN NoRow ELSE IF g \in future THEN Redated(row, seen[g]) ELSE row]
      counted == {g \in Game : ~rows[g].twitch}
  IN [public EXCEPT !.version = @ + 1, !.by = "audit", !.day = today,
        !.games = [g \in Game |-> IF g \in gone THEN NoRow ELSE IF rows[g] # NoRow THEN rows[g] ELSE @[g]],
        !.catalog = rows,
        !.upcoming = Upcoming(rows, today) \cap counted,
        !.released = Released(rows, today) \cap counted,
        !.unconfirmed = (@ \ future) \cup gone]

(* Its rebase fails on every commit that it did not see. *)
AuditPushes ==
  /\ auditor.busy
  /\ auditor' = [auditor EXCEPT !.busy = FALSE]
  /\ \/ /\ public.version = auditor.base
        /\ \E seen \in [Upcoming(public.catalog, today) -> SeenDate] :
             /\ public' = Audited(seen)
             /\ unheard' = unheard \cup
                  {g \in DOMAIN seen : seen[g] \notin {0, public.catalog[g].start}}
     \/ public.version # auditor.base /\ UNCHANGED <<public, unheard>>
  /\ UNCHANGED <<time, others>> /\ Backend

Next ==
  \/ \E g \in Game : Count(g) \/ Verify(g) \/ Leave(g) \/ Exclude(g) \/ Refresh(g)
  \/ Midnight
  \/ Freeze \/ Fetch \/ Push
  \/ AuditStarts \/ AuditPushes

Spec == Init /\ [][Next]_vars
--------------------------------------------------------------------------------
Row == [checked : 0..MaxTime, start : 0..MaxToday + 1, full : BOOLEAN, verified : 0..MaxTime,
        twitch : BOOLEAN]

(* Every variable has its type. *)
TypeOK ==
  /\ master \in [Game -> Row] /\ publisher.source \in [Game -> Row]
  /\ blocked \subseteq Game /\ unheard \subseteq Game
  /\ public.games \in [Game -> Row] /\ public.catalog \in [Game -> Row]
  /\ public.upcoming \subseteq Game /\ public.released \subseteq Game
  /\ public.unconfirmed \subseteq Game
  /\ public.origins \in Seq([game : Game, previous : 0..MaxToday + 1, date : Date, of : -MaxTime..MaxFreeze])
  /\ today \in 1..MaxToday /\ time \in 0..MaxTime
  /\ publisher.pc \in {"idle", "fetch", "push"} /\ publisher.tries \in 0..MaxAttempts
  /\ auditor.at \in 0..MaxTime

(* The files of one commit agree: the shards are the rows of the catalogue, and
   the two lists part its games; only the audit leaves Twitch titles out of
   them.  No game is announced for the future on less than a full date. *)
CatalogAgrees ==
  /\ public.games = public.catalog
  /\ public.upcoming = Upcoming(public.catalog, public.day)
       \ (IF public.by = "audit" THEN {g \in Game : public.catalog[g].twitch} ELSE {})
  /\ public.released \subseteq Released(public.catalog, public.day)
  /\ \A g \in public.upcoming : public.catalog[g].full

(* The activity origins tell each public date once, by whoever delivered it: a
   retry claims nothing that it finds already there.  No game is added more often
   than it arrived, the last event's date is the one that is shown, and an event's
   date is the one that the next changes; except that a retry which brings a game
   back after an audit removed it has told its addition already. *)
Tells(g) == {i \in DOMAIN public.origins : public.origins[i].game = g}
OriginsAreTrue ==
  \A g \in Game :
    /\ public.catalog[g] # NoRow /\ g \notin unheard =>
         \E i \in Tells(g) :
           /\ public.origins[i].date = public.catalog[g].start
           /\ \/ \A j \in Tells(g) : j <= i
              \/ auditor.at # 0 /\ public.origins[i].previous = 0
    /\ Cardinality({i \in Tells(g) : public.origins[i].previous = 0}) <= arrivals[g]
    /\ auditor.at = 0 =>
         \A i, j \in Tells(g) :
           i < j /\ (\A k \in Tells(g) : k <= i \/ j <= k) =>
             public.origins[j].previous \in {0, public.origins[i].date}

(* While a game stays public, neither its verified date nor its Followers count
   is replaced by an older one. *)
KeepsNewer ==
  \A g \in Game :
    public.catalog[g] # NoRow /\ public'.catalog[g] # NoRow =>
      /\ public'.catalog[g].verified >= public.catalog[g].verified
      /\ public'.catalog[g].checked >= public.catalog[g].checked
================================================================================
