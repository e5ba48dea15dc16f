----------------------------- MODULE Workers_proofs -----------------------------
(***************************************************************************)
(* What is proved of the jobs beside the store, for whatever they are given.*)
(*                                                                         *)
(* A behaviour of Workers is one of the instance at work, so that what the  *)
(* proofs of the components establish holds of it.  The storage lease is    *)
(* the one component that Workers extends; its proofs are the second part   *)
(* of this module.                                                         *)
(***************************************************************************)
EXTENDS Workers, Jobs_proofs, SteamQueues_proofs

(* The scenario is chosen once. *)
LEMMA ScenarioStays ==
  ASSUME [Next]_vars
  PROVE  scenario' = scenario
  BY DEF Next, vars

--------------------------------------------------------------------------------
(* A behaviour in which one instance is at work is a behaviour of it. *)

LEMMA GitWorks == Is("git") /\ Spec => Git!Spec
  <1>1. Is("git") /\ [Next]_vars => Is("git")'
    BY ScenarioStays DEF Is
  <1>2. Is("git") /\ Init => Git!Init
    BY DEF Init, Is
  <1>3. ASSUME Is("git"), [Next]_vars PROVE [Git!Next]_(Git!vars)
    <2>1. CASE UNCHANGED vars
      BY <2>1 DEF vars, hourlyVars, Git!vars
    <2>2. CASE Next
      BY <1>3, <2>2 DEF Next, Is
    <2> QED BY <1>3, <2>1, <2>2
  <1> QED BY <1>1, <1>2, <1>3, PTL DEF Spec, Git!Spec

LEMMA DatabaseWorks == Is("database") /\ Spec => Database!Spec
  <1>1. Is("database") /\ [Next]_vars => Is("database")'
    BY ScenarioStays DEF Is
  <1>2. Is("database") /\ Init => Database!Init
    BY DEF Init, Is
  <1>3. ASSUME Is("database"), [Next]_vars PROVE [Database!Next]_(Database!vars)
    <2>1. CASE UNCHANGED vars
      BY <2>1 DEF vars, hourlyVars, Database!vars
    <2>2. CASE Next
      BY <1>3, <2>2 DEF Next, Is
    <2> QED BY <1>3, <2>1, <2>2
  <1> QED BY <1>1, <1>2, <1>3, PTL DEF Spec, Database!Spec

LEMMA RaceWorks == Is("race") /\ Spec => Race!Spec
  <1>1. Is("race") /\ [Next]_vars => Is("race")'
    BY ScenarioStays DEF Is
  <1>2. Is("race") /\ Init => Race!Init
    BY DEF Init, Is
  <1>3. ASSUME Is("race"), [Next]_vars PROVE [Race!Next]_(Race!vars)
    <2>1. CASE UNCHANGED vars
      BY <2>1 DEF vars, projectionVars, Race!vars, Race!database
    <2>2. CASE Next
      BY <1>3, <2>2 DEF Next, Is
    <2> QED BY <1>3, <2>1, <2>2
  <1> QED BY <1>1, <1>2, <1>3, PTL DEF Spec, Race!Spec

LEMMA LossyWorks == Is("lossy") /\ Spec => Lossy!Spec
  <1>1. Is("lossy") /\ [Next]_vars => Is("lossy")'
    BY ScenarioStays DEF Is
  <1>2. Is("lossy") /\ Init => Lossy!Init
    BY DEF Init, Is
  <1>3. ASSUME Is("lossy"), [Next]_vars PROVE [Lossy!Next]_(Lossy!vars)
    <2>1. CASE UNCHANGED vars
      BY <2>1 DEF vars, projectionVars, Lossy!vars, Lossy!database
    <2>2. CASE Next
      BY <1>3, <2>2 DEF Next, Is
    <2> QED BY <1>3, <2>1, <2>2
  <1> QED BY <1>1, <1>2, <1>3, PTL DEF Spec, Lossy!Spec

LEMMA RepairWorks == Is("repair") /\ Spec => Repair!Spec
  <1>1. Is("repair") /\ [Next]_vars => Is("repair")'
    BY ScenarioStays DEF Is
  <1>2. Is("repair") /\ Init => Repair!Init
    BY DEF Init, Is
  <1>3. ASSUME Is("repair"), [Next]_vars PROVE [Repair!Next]_(Repair!vars)
    <2>1. CASE UNCHANGED vars
      BY <2>1 DEF vars, projectionVars, Repair!vars, Repair!database
    <2>2. CASE Next
      BY <1>3, <2>2 DEF Next, Is
    <2> QED BY <1>3, <2>1, <2>2
  <1> QED BY <1>1, <1>2, <1>3, PTL DEF Spec, Repair!Spec

LEMMA CutoverWorks == Is("cutover") /\ Spec => Cutover!Spec
  <1>1. Is("cutover") /\ [Next]_vars => Is("cutover")'
    BY ScenarioStays DEF Is
  <1>2. Is("cutover") /\ Init => Cutover!Init
    BY DEF Init, Is
  <1>3. ASSUME Is("cutover"), [Next]_vars PROVE [Cutover!Next]_(Cutover!cutover)
    <2>1. CASE UNCHANGED vars
      BY <2>1 DEF vars, cutoverVars, Cutover!cutover
    <2>2. CASE Next
      BY <1>3, <2>2 DEF Next, Is
    <2> QED BY <1>3, <2>1, <2>2
  <1> QED BY <1>1, <1>2, <1>3, PTL DEF Spec, Cutover!Spec

LEMMA DailyWorks == Is("daily") /\ Spec => Daily!Spec
  <1>1. Is("daily") /\ [Next]_vars => Is("daily")'
    BY ScenarioStays DEF Is
  <1>2. Is("daily") /\ Init => Daily!Init
    BY DEF Init, Is
  <1>3. ASSUME Is("daily"), [Next]_vars PROVE [Daily!Next]_(Daily!daily)
    <2>1. CASE UNCHANGED vars
      BY <2>1 DEF vars, dailyVars, Daily!daily
    <2>2. CASE Next
      BY <1>3, <2>2 DEF Next, Is
    <2> QED BY <1>3, <2>1, <2>2
  <1> QED BY <1>1, <1>2, <1>3, PTL DEF Spec, Daily!Spec

LEMMA QueueWorks == Is("queue") /\ Spec => Queue!Spec
  <1>1. Is("queue") /\ [Next]_vars => Is("queue")'
    BY ScenarioStays DEF Is
  <1>2. Is("queue") /\ Init => Queue!Init
    BY DEF Init, Is
  <1>3. ASSUME Is("queue"), [Next]_vars PROVE [Queue!Next]_(Queue!queue)
    <2>1. CASE UNCHANGED vars
      BY <2>1 DEF vars, queueVars, Queue!queue
    <2>2. CASE Next
      BY <1>3, <2>2 DEF Next, Is
    <2> QED BY <1>3, <2>1, <2>2
  <1> QED BY <1>1, <1>2, <1>3, PTL DEF Spec, Queue!Spec

LEMMA CooldownWorks == Is("cooldown") /\ Spec => Cooldown!Spec
  <1>1. Is("cooldown") /\ [Next]_vars => Is("cooldown")'
    BY ScenarioStays DEF Is
  <1>2. Is("cooldown") /\ Init => Cooldown!Init
    BY DEF Init, Is
  <1>3. ASSUME Is("cooldown"), [Next]_vars PROVE [Cooldown!Next]_(Cooldown!cooldown)
    <2>1. CASE UNCHANGED vars
      BY <2>1 DEF vars, cooldownVars, Cooldown!cooldown
    <2>2. CASE Next
      BY <1>3, <2>2 DEF Next, Is
    <2> QED BY <1>3, <2>1, <2>2
  <1> QED BY <1>1, <1>2, <1>3, PTL DEF Spec, Cooldown!Spec

LEMMA GrowthWorks == Is("growth") /\ Spec => Growth!Spec
  <1>1. Is("growth") /\ [Next]_vars => Is("growth")'
    BY ScenarioStays DEF Is
  <1>2. Is("growth") /\ Init => Growth!Init
    BY DEF Init, Is
  <1>3. ASSUME Is("growth"), [Next]_vars PROVE [Growth!Next]_(Growth!growth)
    <2>1. CASE UNCHANGED vars
      BY <2>1 DEF vars, growthVars, Growth!growth
    <2>2. CASE Next
      BY <1>3, <2>2 DEF Next, Is
    <2> QED BY <1>3, <2>1, <2>2
  <1> QED BY <1>1, <1>2, <1>3, PTL DEF Spec, Growth!Spec

LEMMA FollowersWorks == Is("followers") /\ Spec => Followers!Spec
  <1>1. Is("followers") /\ [Next]_vars => Is("followers")'
    BY ScenarioStays DEF Is
  <1>2. Is("followers") /\ Init => Followers!Init
    BY DEF Init, Is
  <1>3. ASSUME Is("followers"), [Next]_vars PROVE [Followers!Next]_(Followers!followers)
    <2>1. CASE UNCHANGED vars
      BY <2>1 DEF vars, followersVars, Followers!followers
    <2>2. CASE Next
      BY <1>3, <2>2 DEF Next, Is
    <2> QED BY <1>3, <2>1, <2>2
  <1> QED BY <1>1, <1>2, <1>3, PTL DEF Spec, Followers!Spec

LEMMA BackupWorks == Is("backup") /\ Spec => Backup!Spec
  <1>1. Is("backup") /\ [Next]_vars => Is("backup")'
    BY ScenarioStays DEF Is
  <1>2. Is("backup") /\ Init => Backup!Init
    BY DEF Init, Is
  <1>3. ASSUME Is("backup"), [Next]_vars PROVE [Backup!Next]_(Backup!vars)
    <2>1. CASE UNCHANGED vars
      BY <2>1 DEF vars, backupVars, Backup!vars
    <2>2. CASE Next
      BY <1>3, <2>2 DEF Next, Is
    <2> QED BY <1>3, <2>1, <2>2
  <1> QED BY <1>1, <1>2, <1>3, PTL DEF Spec, Backup!Spec

LEMMA CatalogWorks == Is("catalog") /\ Spec => Catalog!Spec
  <1>1. Is("catalog") /\ [Next]_vars => Is("catalog")'
    BY ScenarioStays DEF Is
  <1>2. Is("catalog") /\ Init => Catalog!Init
    BY DEF Init, Is
  <1>3. ASSUME Is("catalog"), [Next]_vars PROVE [Catalog!Next]_(Catalog!vars)
    <2>1. CASE UNCHANGED vars
      BY <2>1 DEF vars, catalogVars, Catalog!vars
    <2>2. CASE Next
      BY <1>3, <2>2 DEF Next, Is
    <2> QED BY <1>3, <2>1, <2>2
  <1> QED BY <1>1, <1>2, <1>3, PTL DEF Spec, Catalog!Spec

LEMMA LaunchesWorks == Is("launches") /\ Spec => Launches!Spec
  <1>1. Is("launches") /\ [Next]_vars => Is("launches")'
    BY ScenarioStays DEF Is
  <1>2. Is("launches") /\ Init => Launches!Init
    BY DEF Init, Is
  <1>3. ASSUME Is("launches"), [Next]_vars PROVE [Launches!Next]_(Launches!vars)
    <2>1. CASE UNCHANGED vars
      BY <2>1 DEF vars, launchesVars, Launches!vars
    <2>2. CASE Next
      BY <1>3, <2>2 DEF Next, Is
    <2> QED BY <1>3, <2>1, <2>2
  <1> QED BY <1>1, <1>2, <1>3, PTL DEF Spec, Launches!Spec

LEMMA FilesWorks == Is("owned") /\ Spec => Files!Spec
  <1>1. Is("owned") /\ [Next]_vars => Is("owned")'
    BY ScenarioStays DEF Is
  <1>2. Is("owned") /\ Init => Files!Init
    BY DEF Init, Is
  <1>3. ASSUME Is("owned"), [Next]_vars PROVE [Files!Next]_(Files!vars)
    <2>1. CASE UNCHANGED vars
      BY <2>1 DEF vars, ownedVars, Files!vars
    <2>2. CASE Next
      BY <1>3, <2>2 DEF Next, Is
    <2> QED BY <1>3, <2>1, <2>2
  <1> QED BY <1>1, <1>2, <1>3, PTL DEF Spec, Files!Spec

LEMMA TwitchWorks == Is("twitch") /\ Spec => Twitch!Spec
  <1>1. Is("twitch") /\ [Next]_vars => Is("twitch")'
    BY ScenarioStays DEF Is
  <1>2. Is("twitch") /\ Init => Twitch!Init
    BY DEF Init, Is
  <1>3. ASSUME Is("twitch"), [Next]_vars PROVE [Twitch!Next]_(Twitch!twitch)
    <2>1. CASE UNCHANGED vars
      BY <2>1 DEF vars, twitchVars, Twitch!twitch
    <2>2. CASE Next
      BY <1>3, <2>2 DEF Next, Is
    <2> QED BY <1>3, <2>1, <2>2
  <1> QED BY <1>1, <1>2, <1>3, PTL DEF Spec, Twitch!Spec

LEMMA GroupsWorks == Is("groups") /\ Spec => Groups!Spec
  <1>1. Is("groups") /\ [Next]_vars => Is("groups")'
    BY ScenarioStays DEF Is
  <1>2. Is("groups") /\ Init => Groups!Init
    BY DEF Init, Is
  <1>3. ASSUME Is("groups"), [Next]_vars PROVE [Groups!Next]_(Groups!groups)
    <2>1. CASE UNCHANGED vars
      BY <2>1 DEF vars, groupsVars, Groups!groups
    <2>2. CASE Next
      BY <1>3, <2>2 DEF Next, Is
    <2> QED BY <1>3, <2>1, <2>2
  <1> QED BY <1>1, <1>2, <1>3, PTL DEF Spec, Groups!Spec

LEMMA EvidenceWorks == Is("evidence") /\ Spec => Evidence!Spec
  <1>1. Is("evidence") /\ [Next]_vars => Is("evidence")'
    BY ScenarioStays DEF Is
  <1>2. Is("evidence") /\ Init => Evidence!Init
    BY DEF Init, Is
  <1>3. ASSUME Is("evidence"), [Next]_vars PROVE [Evidence!Next]_(Evidence!evidence)
    <2>1. CASE UNCHANGED vars
      BY <2>1 DEF vars, evidenceVars, Evidence!evidence
    <2>2. CASE Next
      BY <1>3, <2>2 DEF Next, Is
    <2> QED BY <1>3, <2>1, <2>2
  <1> QED BY <1>1, <1>2, <1>3, PTL DEF Spec, Evidence!Spec
--------------------------------------------------------------------------------
(* What holds of each holds at work. *)

(* What the hourly worker keeps outside the database is public: its checkpoint was
   merged into what is published (OfficialCheckpoint). *)
THEOREM SavedAlways == Spec => []SavedIsPublished
  <1>1. Git!Spec => []Git!SavedIsPublished
    BY WorkersAssumption, Git!SavedAlways
  <1>2. [Next]_vars => (Is("git")' <=> Is("git"))
    BY ScenarioStays DEF Is
  <1> QED BY <1>1, <1>2, GitWorks, PTL DEF Spec, SavedIsPublished

(* With the database, an event is posted only of an intent and a count that it accepted
   (OfficialCheckpoint). *)
THEOREM AnnouncedAlways == Spec => []AnnouncedIsAccepted
  <1>1. Database!Spec => []Database!AnnouncedIsAccepted
    BY WorkersAssumption, Database!AnnouncedAlways
  <1>2. [Next]_vars => (Is("database")' <=> Is("database"))
    BY ScenarioStays DEF Is
  <1> QED BY <1>1, <1>2, DatabaseWorks, PTL DEF Spec, AnnouncedIsAccepted

(* A receipt is true (OfficialCheckpoint, TwitchIntake), and so is every other trace of
   what was done: the events of a publication, which the published rows bear out
   (PublicCatalog), and the commits that the archive names (LegacyEvidence). *)
THEOREM ReceiptsStayTrue == Spec => []ReceiptIsTrue
  <1>1. Git!Spec => []Git!ReceiptIsTrue
    BY WorkersAssumption, Git!ReceiptsAlways
  <1>2. Git!Spec => []Git!NeverResent
    BY WorkersAssumption, Git!ResentNever
  <1>3. Database!Spec => []Database!ReceiptIsTrue
    BY WorkersAssumption, Database!ReceiptsAlways
  <1>4. Database!Spec => []Database!NeverResent
    BY WorkersAssumption, Database!ResentNever
  <1>5. Twitch!Spec => []Twitch!ReceiptIsTrue
    BY ReceiptsTrue
  <1>6. Catalog!Spec => []Catalog!OriginsAreTrue
    BY OriginsTrue
  <1>7. Evidence!Spec => []Evidence!CommitsAreTrue
    BY CommitsTrue
  <1>8. [Next]_vars =>
          /\ Is("git")' <=> Is("git")
          /\ Is("database")' <=> Is("database")
          /\ Is("twitch")' <=> Is("twitch")
          /\ Is("catalog")' <=> Is("catalog")
          /\ Is("evidence")' <=> Is("evidence")
    BY ScenarioStays DEF Is
  <1> QED BY <1>1, <1>2, <1>3, <1>4, <1>5, <1>6, <1>7, <1>8, GitWorks, DatabaseWorks, TwitchWorks,
             CatalogWorks, EvidenceWorks, PTL DEF Spec, ReceiptIsTrue

(* What Git shows is what the database committed (git_projection), for any publishers,
   batches and interference. *)
THEOREM PublicAlways == Spec => []PublicIsCommitted
  <1>1. Race!Spec => []Race!PublicIsCommitted
    BY WorkersAssumption, Race!CommittedAlways
  <1>2. Lossy!Spec => []Lossy!PublicIsCommitted
    BY WorkersAssumption, Lossy!CommittedAlways
  <1>3. Lossy!PublicIsCommitted => Race!PublicIsCommitted
    BY DEF Lossy!PublicIsCommitted, Race!PublicIsCommitted, Lossy!Newest, Race!Newest
  <1>4. Repair!Spec => []Repair!PublicIsCommitted
    BY WorkersAssumption, Repair!CommittedAlways
  <1>5. Repair!PublicIsCommitted => Race!PublicIsCommitted
    BY DEF Repair!PublicIsCommitted, Race!PublicIsCommitted, Repair!Newest, Race!Newest
  <1>6. [Next]_vars =>
          /\ Is("race")' <=> Is("race")
          /\ Is("lossy")' <=> Is("lossy")
          /\ Is("repair")' <=> Is("repair")
    BY ScenarioStays DEF Is
  <1> QED BY <1>1, <1>2, <1>3, <1>4, <1>5, <1>6, RaceWorks, LossyWorks, RepairWorks, PTL DEF Spec, PublicIsCommitted, Projecting

(* A publisher reports only what the database and the public branch have (GitProjection). *)
THEOREM PublishedAlways == Spec => []PublishedIsAcknowledged
  <1>1. Repair!Spec => []Repair!PublishedIsAcknowledged
    BY WorkersAssumption, Repair!PublishedAlways
  <1>2. [Next]_vars => (Is("repair")' <=> Is("repair"))
    BY ScenarioStays DEF Is
  <1> QED BY <1>1, <1>2, RepairWorks, PTL DEF Spec, PublishedIsAcknowledged

(* What was acknowledged is public and stays so: a projected batch, a push of owned files. *)
THEOREM AcknowledgedAlways == Spec => []AcknowledgedIsPublic
  <1>1. Race!Spec => []Race!AcknowledgedIsPublic
    BY WorkersAssumption, Race!AcknowledgedAlways
  <1>2. Lossy!Spec => []Lossy!AcknowledgedIsPublic
    BY WorkersAssumption, Lossy!AcknowledgedAlways
  <1>3. Repair!Spec => []Repair!AcknowledgedIsPublic
    BY WorkersAssumption, Repair!AcknowledgedAlways
  <1>4. Files!Spec => []Files!AcknowledgedIsPublic
    BY JobsAssumption, PushedAlways
  <1>5. [Next]_vars =>
          /\ Is("race")' <=> Is("race")
          /\ Is("lossy")' <=> Is("lossy")
          /\ Is("repair")' <=> Is("repair")
          /\ Is("owned")' <=> Is("owned")
    BY ScenarioStays DEF Is
  <1> QED BY <1>1, <1>2, <1>3, <1>4, <1>5, RaceWorks, LossyWorks, RepairWorks, FilesWorks, PTL DEF Spec, AcknowledgedIsPublic

(* A source of the database has one kind of writer, and a file of a shared branch is
   changed by its owners only. *)
THEOREM AuthorityAlways == Spec => []OneAuthority
  <1>1. Cutover!Spec => []Cutover!OneAuthority
    BY WorkersAssumption, Cutover!AuthorityAlways
  <1>2. Files!Spec => []Files!StaysInScope
    BY JobsAssumption, ScopeAlways
  <1>3. [Next]_vars =>
          /\ Is("cutover")' <=> Is("cutover")
          /\ Is("owned")' <=> Is("owned")
    BY ScenarioStays DEF Is
  <1> QED BY <1>1, <1>2, <1>3, CutoverWorks, FilesWorks, PTL DEF Spec, OneAuthority

(* What the writers saved in Git, and what the admissions rest on, is in the database
   when it is the authority. *)
THEOREM LeftBehindNever == Spec => []NothingIsLeftBehind
  <1>1. Cutover!Spec => []Cutover!NothingIsLeftBehind
    BY WorkersAssumption, Cutover!LeftBehindNever
  <1>2. Evidence!Spec => []Evidence!AdmissionsAreProven
    BY AdmissionsProven
  <1>3. [Next]_vars =>
          /\ Is("cutover")' <=> Is("cutover")
          /\ Is("evidence")' <=> Is("evidence")
    BY ScenarioStays DEF Is
  <1> QED BY <1>1, <1>2, <1>3, CutoverWorks, EvidenceWorks, PTL DEF Spec, NothingIsLeftBehind

(* What was acknowledged is there: a follower checkpoint that was saved
   (FollowerCheckpoint), the files of a backup whose receipt is published
   (BackupRelease). *)
THEOREM KeptAlways == Spec => []AcknowledgedIsSaved
  <1>1. Followers!Spec => []Followers!AcknowledgedIsSaved
    BY CheckpointAlways
  <1>2. Backup!Spec => []Backup!KeptIsWhole
    BY WholeAlways
  <1>3. [Next]_vars =>
          /\ Is("followers")' <=> Is("followers")
          /\ Is("backup")' <=> Is("backup")
    BY ScenarioStays DEF Is
  <1> QED BY <1>1, <1>2, <1>3, FollowersWorks, BackupWorks, PTL DEF Spec, AcknowledgedIsSaved

(* A day that is published as complete covers every game (GrowthReport). *)
THEOREM CoveredAlways == Spec => CompleteIsCovered
  <1>1. Growth!Spec => [][Growth!CoversTheDay]_(Growth!growth)
    BY CompleteAlways DEF Growth!CompleteIsCovered
  <1>2. [Next]_vars => (Is("growth")' <=> Is("growth"))
    BY ScenarioStays DEF Is
  <1>3. Is("growth") /\ [Next]_vars /\ UNCHANGED Growth!growth => UNCHANGED vars
    BY DEF Next, Is, vars, growthVars, Growth!growth
  <1>4. [Next]_vars /\ [Growth!CoversTheDay]_(Growth!growth) => [Is("growth") => Growth!CoversTheDay]_vars
    BY <1>3
  <1>5. [Next]_vars /\ ~Is("growth") => [Is("growth") => Growth!CoversTheDay]_vars
    OBVIOUS
  <1> QED BY <1>1, <1>2, <1>4, <1>5, GrowthWorks, PTL DEF Spec, CompleteIsCovered

(* The published files of the day belong together (DailyCandidates). *)
THEOREM CoherentAlways == Spec => []HandoffIsCoherent
  <1>1. Daily!Spec => []Daily!HandoffIsCoherent
    BY HandoffAlways
  <1>2. [Next]_vars => (Is("daily")' <=> Is("daily"))
    BY ScenarioStays DEF Is
  <1> QED BY <1>1, <1>2, DailyWorks, PTL DEF Spec, HandoffIsCoherent

(* The day's progress is resumed and never undone (DailyCandidates). *)
THEOREM ProgressKept == Spec => ProgressIsKept
  <1>1. Daily!Spec => [][Daily!KeepsProgress]_(Daily!daily)
    BY ProgressAlways DEF Daily!ProgressIsKept
  <1>2. [Next]_vars => (Is("daily")' <=> Is("daily"))
    BY ScenarioStays DEF Is
  <1>3. Is("daily") /\ [Next]_vars /\ UNCHANGED Daily!daily => UNCHANGED vars
    BY DEF Next, Is, vars, dailyVars, Daily!daily
  <1>4. [Next]_vars /\ [Daily!KeepsProgress]_(Daily!daily) => [Is("daily") => Daily!KeepsProgress]_vars
    BY <1>3
  <1>5. [Next]_vars /\ ~Is("daily") => [Is("daily") => Daily!KeepsProgress]_vars
    OBVIOUS
  <1> QED BY <1>1, <1>2, <1>4, <1>5, DailyWorks, PTL DEF Spec, ProgressIsKept

(* An ordinary candidate of the hourly queue stays until it is admitted (OfficialQueue). *)
THEOREM CandidateKept == Spec => CandidateIsKept
  <1>1. Queue!Spec => [][Queue!KeepsCandidates]_(Queue!queue)
    BY CandidateAlways DEF Queue!CandidateIsKept
  <1>2. [Next]_vars => (Is("queue")' <=> Is("queue"))
    BY ScenarioStays DEF Is
  <1>3. Is("queue") /\ [Next]_vars /\ UNCHANGED Queue!queue => UNCHANGED vars
    BY DEF Next, Is, vars, queueVars, Queue!queue
  <1>4. [Next]_vars /\ [Queue!KeepsCandidates]_(Queue!queue) => [Is("queue") => Queue!KeepsCandidates]_vars
    BY <1>3
  <1>5. [Next]_vars /\ ~Is("queue") => [Is("queue") => Queue!KeepsCandidates]_vars
    OBVIOUS
  <1> QED BY <1>1, <1>2, <1>4, <1>5, QueueWorks, PTL DEF Spec, CandidateIsKept

(* A launch that is shown as recent is proven (RecentLaunches). *)
THEOREM ProvenAlways == Spec => []RecentIsProven
  <1>1. Launches!Spec => []Launches!RecentIsProven
    BY RecentAlways
  <1>2. [Next]_vars => (Is("launches")' <=> Is("launches"))
    BY ScenarioStays DEF Is
  <1> QED BY <1>1, <1>2, LaunchesWorks, PTL DEF Spec, RecentIsProven

(* The files of every commit of the public catalogue agree (PublicCatalog). *)
THEOREM CommitsAgree == Spec => []CatalogAgrees
  <1>1. Catalog!Spec => []Catalog!CatalogAgrees
    BY CatalogAlways
  <1>2. [Next]_vars => (Is("catalog")' <=> Is("catalog"))
    BY ScenarioStays DEF Is
  <1> QED BY <1>1, <1>2, CatalogWorks, PTL DEF Spec, CatalogAgrees

(* Nothing newer is replaced by something older: by the hourly worker, the projection,
   the public catalogue, the backups. *)
THEOREM NewerStays == Spec => NewerSurvives
  <1> DEFINE Step == /\ Is("git") => Git!KeepsNewer
                     /\ Is("database") => Database!KeepsNewer
                     /\ Projecting => Race!NeverBack
                     /\ Is("catalog") => Catalog!KeepsNewer
                     /\ Is("backup") => Backup!KeepsBackups
  <1>1. /\ Git!Spec => [][Git!KeepsNewer]_(Git!vars)
        /\ Database!Spec => [][Database!KeepsNewer]_(Database!vars)
    <2>1. Git!Spec => Git!NewerSurvives
      BY WorkersAssumption, Git!NewerAlways
    <2>2. Database!Spec => Database!NewerSurvives
      BY WorkersAssumption, Database!NewerAlways
    <2> QED BY <2>1, <2>2 DEF Git!NewerSurvives, Database!NewerSurvives
  <1>2. /\ Race!Spec => [][Race!NeverBack]_(Race!vars)
        /\ Lossy!Spec => [][Lossy!NeverBack]_(Lossy!vars)
        /\ Repair!Spec => [][Repair!NeverBack]_(Repair!vars)
    <2>1. Race!Spec => Race!PublicNeverBack
      BY WorkersAssumption, Race!PublicAscends
    <2>2. Lossy!Spec => Lossy!PublicNeverBack
      BY WorkersAssumption, Lossy!PublicAscends
    <2>3. Repair!Spec => Repair!PublicNeverBack
      BY WorkersAssumption, Repair!PublicAscends
    <2> QED BY <2>1, <2>2, <2>3 DEF Race!PublicNeverBack, Lossy!PublicNeverBack, Repair!PublicNeverBack
  <1>3. /\ Catalog!Spec => [][Catalog!KeepsNewer]_(Catalog!vars)
        /\ Backup!Spec => [][Backup!KeepsBackups]_(Backup!vars)
    BY NewerAlways, BackupsAlways
  <1>4. [Next]_vars /\ Is("git") /\ [Git!KeepsNewer]_(Git!vars) => [Step]_vars
    <2>1. [Next]_vars /\ Is("git") /\ UNCHANGED Git!vars => UNCHANGED vars
      BY DEF Next, Is, vars, hourlyVars, Git!vars
    <2>2. Is("git") /\ Git!KeepsNewer => Step
      BY DEF Is, Projecting
    <2> QED BY <2>1, <2>2
  <1>5. [Next]_vars /\ Is("database") /\ [Database!KeepsNewer]_(Database!vars) => [Step]_vars
    <2>1. [Next]_vars /\ Is("database") /\ UNCHANGED Database!vars => UNCHANGED vars
      BY DEF Next, Is, vars, hourlyVars, Database!vars
    <2>2. Is("database") /\ Database!KeepsNewer => Step
      BY DEF Is, Projecting
    <2> QED BY <2>1, <2>2
  <1>6. [Next]_vars /\ Is("race") /\ [Race!NeverBack]_(Race!vars) => [Step]_vars
    <2>1. [Next]_vars /\ Is("race") /\ UNCHANGED Race!vars => UNCHANGED vars
      BY DEF Next, Is, vars, projectionVars, Race!vars, Race!database
    <2>2. Is("race") /\ Race!NeverBack => Step
      BY DEF Is, Projecting
    <2> QED BY <2>1, <2>2
  <1>7. [Next]_vars /\ Is("lossy") /\ [Lossy!NeverBack]_(Lossy!vars) => [Step]_vars
    <2>1. [Next]_vars /\ Is("lossy") /\ UNCHANGED Lossy!vars => UNCHANGED vars
      BY DEF Next, Is, vars, projectionVars, Lossy!vars, Lossy!database
    <2>2. Lossy!NeverBack => Race!NeverBack
      BY DEF Race!NeverBack, Lossy!NeverBack, Race!Last, Lossy!Last, Race!IsPrefix, Lossy!IsPrefix
    <2>3. Is("lossy") /\ Race!NeverBack => Step
      BY DEF Is
    <2> QED BY <2>1, <2>2, <2>3
  <1>8. [Next]_vars /\ Is("repair") /\ [Repair!NeverBack]_(Repair!vars) => [Step]_vars
    <2>1. [Next]_vars /\ Is("repair") /\ UNCHANGED Repair!vars => UNCHANGED vars
      BY DEF Next, Is, vars, projectionVars, Repair!vars, Repair!database
    <2>2. Repair!NeverBack => Race!NeverBack
      BY DEF Race!NeverBack, Repair!NeverBack, Race!Last, Repair!Last, Race!IsPrefix, Repair!IsPrefix
    <2>3. Is("repair") /\ Race!NeverBack => Step
      BY DEF Is
    <2> QED BY <2>1, <2>2, <2>3
  <1>9. [Next]_vars /\ Is("catalog") /\ [Catalog!KeepsNewer]_(Catalog!vars) => [Step]_vars
    <2>1. [Next]_vars /\ Is("catalog") /\ UNCHANGED Catalog!vars => UNCHANGED vars
      BY DEF Next, Is, vars, catalogVars, Catalog!vars
    <2>2. Is("catalog") /\ Catalog!KeepsNewer => Step
      BY DEF Is, Projecting
    <2> QED BY <2>1, <2>2
  <1>10. [Next]_vars /\ Is("backup") /\ [Backup!KeepsBackups]_(Backup!vars) => [Step]_vars
    <2>1. [Next]_vars /\ Is("backup") /\ UNCHANGED Backup!vars => UNCHANGED vars
      BY DEF Next, Is, vars, backupVars, Backup!vars
    <2>2. Is("backup") /\ Backup!KeepsBackups => Step
      BY DEF Is, Projecting
    <2> QED BY <2>1, <2>2
  <1>11. ~Is("git") /\ ~Is("database") /\ ~Projecting /\ ~Is("catalog") /\ ~Is("backup") => Step
    OBVIOUS
  <1>12. [Next]_vars =>
           /\ Is("git")' <=> Is("git")
           /\ Is("database")' <=> Is("database")
           /\ Is("race")' <=> Is("race")
           /\ Is("lossy")' <=> Is("lossy")
           /\ Is("repair")' <=> Is("repair")
           /\ Is("catalog")' <=> Is("catalog")
           /\ Is("backup")' <=> Is("backup")
    BY ScenarioStays DEF Is
  <1> QED BY <1>1, <1>2, <1>3, <1>4, <1>5, <1>6, <1>7, <1>8, <1>9, <1>10, <1>11, <1>12, GitWorks, DatabaseWorks,
             RaceWorks, LossyWorks, RepairWorks, CatalogWorks, BackupWorks, PTL
          DEF Spec, NewerSurvives, Projecting

(* What was proven of a game stays: the evidence the Twitch job admits it on, a launch
   of the release calendar, the identity of its group. *)
THEOREM EvidenceStays == Spec => EvidenceIsKept
  <1> DEFINE Step == /\ Is("twitch") => Twitch!KeepsEvidence
                     /\ Is("launches") => Launches!KeepsLaunches
                     /\ Is("groups") => Groups!KeepsIdentity
  <1>1. Twitch!Spec => [][Twitch!KeepsEvidence]_(Twitch!twitch)
    BY EvidenceAlways DEF Twitch!EvidenceIsKept
  <1>2. Launches!Spec => [][Launches!KeepsLaunches]_(Launches!vars)
    BY LaunchesAlways
  <1>3. Groups!Spec => [][Groups!KeepsIdentity]_(Groups!groups)
    BY IdentityAlways DEF Groups!IdentityIsKept
  <1>4. [Next]_vars =>
          /\ Is("twitch")' <=> Is("twitch")
          /\ Is("launches")' <=> Is("launches")
          /\ Is("groups")' <=> Is("groups")
    BY ScenarioStays DEF Is
  <1>5. /\ ~(Is("twitch") /\ Is("launches")) /\ ~(Is("twitch") /\ Is("groups"))
        /\ ~(Is("launches") /\ Is("groups"))
    BY DEF Is
  <1>6. Is("twitch") /\ [Next]_vars /\ UNCHANGED Twitch!twitch => UNCHANGED vars
    BY DEF Next, Is, vars, twitchVars, Twitch!twitch
  <1>7. Is("launches") /\ [Next]_vars /\ UNCHANGED Launches!vars => UNCHANGED vars
    BY DEF Next, Is, vars, launchesVars, Launches!vars
  <1>8. Is("groups") /\ [Next]_vars /\ UNCHANGED Groups!groups => UNCHANGED vars
    BY DEF Next, Is, vars, groupsVars, Groups!groups
  <1>9. Is("twitch") /\ [Next]_vars /\ [Twitch!KeepsEvidence]_(Twitch!twitch) => [Step]_vars
    BY <1>5, <1>6
  <1>10. Is("launches") /\ [Next]_vars /\ [Launches!KeepsLaunches]_(Launches!vars) => [Step]_vars
    BY <1>5, <1>7
  <1>11. Is("groups") /\ [Next]_vars /\ [Groups!KeepsIdentity]_(Groups!groups) => [Step]_vars
    BY <1>5, <1>8
  <1>12. ~Is("twitch") /\ ~Is("launches") /\ ~Is("groups") => [Step]_vars
    OBVIOUS
  <1> HIDE DEF Step
  <1>13. Spec => [][Step]_vars
    BY <1>1, <1>2, <1>3, <1>4, <1>9, <1>10, <1>11, <1>12, TwitchWorks, LaunchesWorks, GroupsWorks,
       PTL DEF Spec
  <1> QED BY <1>13 DEF EvidenceIsKept, Step

(* A worker that was refused waits: a success before the refusal does not shorten the
   wait in the workers' own saves, no batch takes a success back (CommunityCooldown), and
   no update replaces a running cooldown of the groups' API (GroupResolution). *)
THEOREM FailureStays == Spec => FailureIsKept
  <1> DEFINE Step == /\ Is("cooldown") => Cooldown!KeepsAnswers
                     /\ Is("groups") => Groups!ServesCooldown
  <1>1. Cooldown!Spec => [][Cooldown!KeepsAnswers]_(Cooldown!cooldown)
    BY AnswersKept DEF Cooldown!AnswersAreKept
  <1>2. Groups!Spec => [][Groups!ServesCooldown]_(Groups!groups)
    BY CooldownServed DEF Groups!CooldownIsServed
  <1>3. [Next]_vars =>
          /\ Is("cooldown")' <=> Is("cooldown")
          /\ Is("groups")' <=> Is("groups")
    BY ScenarioStays DEF Is
  <1>4. ~(Is("cooldown") /\ Is("groups"))
    BY DEF Is
  <1>5. Is("cooldown") /\ [Next]_vars /\ UNCHANGED Cooldown!cooldown => UNCHANGED vars
    BY DEF Next, Is, vars, cooldownVars, Cooldown!cooldown
  <1>6. Is("groups") /\ [Next]_vars /\ UNCHANGED Groups!groups => UNCHANGED vars
    BY DEF Next, Is, vars, groupsVars, Groups!groups
  <1>7. Is("cooldown") /\ [Next]_vars /\ [Cooldown!KeepsAnswers]_(Cooldown!cooldown) => [Step]_vars
    BY <1>4, <1>5
  <1>8. Is("groups") /\ [Next]_vars /\ [Groups!ServesCooldown]_(Groups!groups) => [Step]_vars
    BY <1>4, <1>6
  <1>9. ~Is("cooldown") /\ ~Is("groups") => [Step]_vars
    OBVIOUS
  <1> HIDE DEF Step
  <1>10. Spec => [][Step]_vars
    BY <1>1, <1>2, <1>3, <1>7, <1>8, <1>9, CooldownWorks, GroupsWorks, PTL DEF Spec
  <1> QED BY <1>10 DEF FailureIsKept, Step
--------------------------------------------------------------------------------
(***************************************************************************)
(* The storage lease keeps its promise for any number of sessions and any   *)
(* timing.  The argument rests on one statement, Execute: whoever asks for  *)
(* it, now or late, the row changes only as FencedLease allows, and a new   *)
(* tenure has a number that no session carries.                             *)
(***************************************************************************)

USE LeaseAssumption

Label == Statements \cup {"idle", "hold", "done"}
SessionType == [pc : Label, fence : Nat, renewed : Nat, begun : Nat, attempt : Nat]

(* What the database does with one statement, answered or late. *)
LEMMA ExecuteType ==
  ASSUME LeaseTypeOK, NEW st \in Statement, Execute(st)
  PROVE  /\ row' \in [owner : Session, fence : Nat, expires : Nat]
         /\ writer' \in Nat
  BY DEF LeaseTypeOK, Execute, Statement, Taken

(* A session sends a statement of its own. *)
LEMMA SentType ==
  ASSUME LeaseTypeOK, NEW s \in Session, sessions[s].pc \in Statements
  PROVE  Sent(s) \in Statement
  BY DEF LeaseTypeOK, Sent, Statement

(* A session goes on to a label, or takes up a tenure. *)
LEMMA GoesType ==
  ASSUME LeaseTypeOK, NEW s \in Session, NEW label \in Label, Goes(s, label)
  PROVE  sessions' \in [Session -> SessionType]
  BY DEF LeaseTypeOK, Goes, SessionType, Label

LEMMA HoldsType ==
  ASSUME LeaseTypeOK, NEW s \in Session, NEW f \in Nat, Holds(s, f)
  PROVE  sessions' \in [Session -> SessionType]
  <1>1. sessions \in [Session -> SessionType] /\ now \in Nat
    BY DEF LeaseTypeOK, SessionType, Label
  <1>2. "hold" \in Label BY DEF Label
  <1>3. sessions' = [sessions EXCEPT ![s] = [sessions[s] EXCEPT !.pc = "hold", !.attempt = 1, !.fence = f, !.renewed = now]]
    BY <1>1 DEF Holds
  <1>4. [sessions[s] EXCEPT !.pc = "hold", !.attempt = 1, !.fence = f, !.renewed = now] \in SessionType
    BY <1>1, <1>2 DEF SessionType
  <1> QED BY <1>1, <1>3, <1>4

LEMMA RenewedType ==
  ASSUME LeaseTypeOK, NEW s \in Session, Renewed(s)
  PROVE  sessions' \in [Session -> SessionType]
  <1>1. sessions \in [Session -> SessionType] /\ now \in Nat
    BY DEF LeaseTypeOK, SessionType, Label
  <1>2. "write" \in Label BY DEF Label, Statements
  <1>3. sessions' = [sessions EXCEPT ![s] = [sessions[s] EXCEPT !.pc = "write", !.attempt = 1, !.renewed = now]]
    BY <1>1 DEF Renewed
  <1>4. [sessions[s] EXCEPT !.pc = "write", !.attempt = 1, !.renewed = now] \in SessionType
    BY <1>1, <1>2 DEF SessionType
  <1> QED BY <1>1, <1>3, <1>4

LEMMA AnsweredType ==
  ASSUME LeaseTypeOK, NEW s \in Session, row'.fence \in Nat, Answered(s)
  PROVE  sessions' \in [Session -> SessionType]
  <1>1. row.fence \in Nat BY DEF LeaseTypeOK
  <1>2. {"check", "acquire", "done", "release", "hold"} \subseteq Label BY DEF Label, Statements
  <1>3. CASE \E f \in Nat : Holds(s, f) BY <1>3, HoldsType
  <1>4. CASE \E label \in Label : Goes(s, label) BY <1>4, GoesType
  <1>5. CASE Renewed(s) BY <1>5, RenewedType
  <1> QED
    BY <1>1, <1>2, <1>3, <1>4, <1>5 DEF Answered, At

LEMMA FailsType ==
  ASSUME LeaseTypeOK, NEW s \in Session, Fails(s)
  PROVE  sessions' \in [Session -> SessionType]
  <1>1. \E label \in Label : Goes(s, label)
    BY DEF Fails, Label, Statements
  <1> QED BY <1>1, GoesType

(* Every step keeps the types. *)
LEMMA NextType ==
  ASSUME LeaseTypeOK, [LeaseNext]_leaseVars
  PROVE  LeaseTypeOK'
  <1> DEFINE T == [Session -> SessionType]
  <1>0. /\ now \in Nat /\ row \in [owner : Session, fence : Nat, expires : Nat]
        /\ sessions \in T /\ wire \subseteq Statement /\ writer \in Nat /\ lost \in Nat
    BY DEF LeaseTypeOK, SessionType, Label
  <1>1. SUFFICES /\ now' \in Nat /\ row' \in [owner : Session, fence : Nat, expires : Nat]
                 /\ sessions' \in T /\ wire' \subseteq Statement /\ writer' \in Nat /\ lost' \in Nat
    BY DEF LeaseTypeOK, SessionType, Label
  <1>2. CASE Tick BY <1>0, <1>2 DEF Tick
  <1>3. ASSUME NEW st \in wire, Late(st) PROVE <1>1!1
    BY <1>0, <1>3, ExecuteType DEF Late
  <1>4. ASSUME NEW s \in Session, Enter(s) PROVE <1>1!1
    BY <1>0, <1>4 DEF Enter, SessionType, Label, Statements
  <1>5. ASSUME NEW s \in Session, Answer(s) PROVE <1>1!1
    BY <1>0, <1>5, SentType, ExecuteType, AnsweredType DEF Answer
  <1>6. ASSUME NEW s \in Session, NoAnswer(s) PROVE <1>1!1
    <2>1. row' \in [owner : Session, fence : Nat, expires : Nat] /\ writer' \in Nat
      BY <1>0, <1>6, SentType, ExecuteType DEF NoAnswer
    <2>2. wire' \subseteq Statement BY <1>0, <1>6, SentType DEF NoAnswer
    <2>3. sessions' \in T
      <3>1. CASE sessions' = [sessions EXCEPT ![s].attempt = @ + 1]
        BY <1>0, <3>1 DEF SessionType
      <3>2. CASE Fails(s) BY <3>2, FailsType
      <3> QED BY <1>6, <3>1, <3>2 DEF NoAnswer
    <2> QED BY <1>0, <1>6, <2>1, <2>2, <2>3 DEF NoAnswer
  <1>7. ASSUME NEW s \in Session, OutOfTime(s) PROVE <1>1!1
    BY <1>0, <1>7, FailsType DEF OutOfTime
  <1>8. ASSUME NEW s \in Session, Use(s) \/ Exit(s) PROVE <1>1!1
    <2>1. \E label \in Label : Goes(s, label)
      BY <1>8 DEF Use, Exit, Label, Statements
    <2> QED BY <1>0, <1>8, <2>1, GoesType DEF Use, Exit
  <1>9. CASE UNCHANGED leaseVars BY <1>0, <1>9 DEF leaseVars
  <1> QED BY <1>2, <1>3, <1>4, <1>5, <1>6, <1>7, <1>8, <1>9 DEF LeaseNext

(* The number of tenures only grows, and a new one makes its session the owner. *)
LEMMA ExecuteGrows ==
  ASSUME LeaseTypeOK, NEW st \in Statement, Execute(st)
  PROVE  /\ row'.fence \in {row.fence, row.fence + 1}
         /\ row'.fence = row.fence => row'.owner = row.owner
         /\ st.kind = "acquire" /\ ~Live => row'.fence = row.fence + 1 /\ row'.owner = st.session
  BY DEF LeaseTypeOK, Execute, Statement, Taken

(* What a session carries after a step is what it carried, or a tenure that the
   row shows to be its own. *)
Carries(s) ==
  \/ sessions'[s].fence = sessions[s].fence
  \/ sessions'[s].fence = row'.fence /\ row'.owner = s /\ (row'.fence = row.fence => row.owner = s)

LEMMA GoesCarries ==
  ASSUME LeaseTypeOK, NEW s \in Session, NEW label, Goes(s, label) \/ Renewed(s)
  PROVE  \A t \in Session : sessions'[t].fence = sessions[t].fence
  BY DEF LeaseTypeOK, Goes, Renewed

LEMMA HoldsCarries ==
  ASSUME LeaseTypeOK, NEW s \in Session, NEW f \in Nat, Holds(s, f)
  PROVE  /\ sessions'[s].fence = f
         /\ \A t \in Session \ {s} : sessions'[t].fence = sessions[t].fence
  BY DEF LeaseTypeOK, Holds

(* Only one session takes up a tenure in a step. *)
LEMMA AnswerCarries ==
  ASSUME LeaseTypeOK, NEW s \in Session, Answer(s)
  PROVE  /\ Carries(s)
         /\ \A t \in Session \ {s} : sessions'[t].fence = sessions[t].fence
  <1>1. Sent(s) \in Statement /\ Execute(Sent(s)) BY SentType DEF Answer
  <1>2. row.fence \in Nat /\ row'.fence \in Nat BY <1>1, ExecuteType DEF LeaseTypeOK
  <1>3. CASE \E label \in Label : Goes(s, label) BY <1>3, GoesCarries DEF Carries
  <1>4. CASE Renewed(s) BY <1>4, GoesCarries DEF Carries
  <1>5. CASE At(s, "acquire") /\ ~Live /\ Holds(s, row'.fence)
    <2>1. row'.fence = row.fence + 1 /\ row'.owner = s
      BY <1>1, <1>5, ExecuteGrows DEF Sent, At
    <2> QED BY <1>2, <1>5, <2>1, HoldsCarries DEF Carries
  <1>6. CASE (At(s, "check") \/ At(s, "recover")) /\ Owned(s) /\ Holds(s, row.fence)
    <2>1. row' = row
      BY <1>1, <1>6 DEF Execute, Sent, At
    <2> QED BY <1>2, <1>6, <2>1, HoldsCarries DEF Carries, Owned
  <1>7. {"check", "acquire", "done", "release", "hold"} \subseteq Label BY DEF Label, Statements
  <1> QED BY <1>3, <1>4, <1>5, <1>6, <1>7 DEF Answer, Answered, At

LEMMA NextCarries ==
  ASSUME LeaseTypeOK, [LeaseNext]_leaseVars
  PROVE  /\ row'.fence \in {row.fence, row.fence + 1}
         /\ row'.fence = row.fence => row'.owner = row.owner
         /\ \E s \in Session : /\ Carries(s)
                               /\ \A t \in Session \ {s} : sessions'[t].fence = sessions[t].fence
  <1> DEFINE Step == /\ row'.fence \in {row.fence, row.fence + 1}
                     /\ row'.fence = row.fence => row'.owner = row.owner
             Kept == \A t \in Session : sessions'[t].fence = sessions[t].fence
  <1>0. row.owner \in Session BY DEF LeaseTypeOK
  <1>1. SUFFICES Step /\ (Kept \/ \E s \in Session : Answer(s))
    BY <1>0, AnswerCarries DEF Carries
  <1>2. CASE Tick BY <1>2 DEF Tick
  <1>3. ASSUME NEW st \in wire, Late(st) PROVE Step /\ Kept
    BY <1>3, ExecuteGrows DEF Late, LeaseTypeOK
  <1>4. ASSUME NEW s \in Session, Enter(s) PROVE Step /\ Kept
    BY <1>4 DEF Enter, LeaseTypeOK
  <1>5. ASSUME NEW s \in Session, Answer(s) PROVE Step
    BY <1>5, SentType, ExecuteGrows DEF Answer
  <1>6. ASSUME NEW s \in Session, NoAnswer(s) PROVE Step /\ Kept
    <2>1. Step BY <1>6, SentType, ExecuteGrows DEF NoAnswer
    <2>2. CASE sessions' = [sessions EXCEPT ![s].attempt = @ + 1]
      BY <2>1, <2>2 DEF LeaseTypeOK
    <2>3. CASE Fails(s) BY <2>1, <2>3, GoesCarries DEF Fails
    <2> QED BY <1>6, <2>2, <2>3 DEF NoAnswer
  <1>7. ASSUME NEW s \in Session, OutOfTime(s) PROVE Step /\ Kept
    BY <1>7, GoesCarries DEF OutOfTime, Fails
  <1>8. ASSUME NEW s \in Session, Use(s) \/ Exit(s) PROVE Step /\ Kept
    BY <1>8, GoesCarries DEF Use, Exit
  <1>9. CASE UNCHANGED leaseVars BY <1>9 DEF leaseVars
  <1> QED BY <1>2, <1>3, <1>4, <1>5, <1>6, <1>7, <1>8, <1>9 DEF LeaseNext

LEMMA TenureKept ==
  ASSUME LeaseTypeOK, TenureIsOwn, [LeaseNext]_leaseVars
  PROVE  TenureIsOwn'
  <1>1. PICK s \in Session : /\ Carries(s)
                             /\ \A t \in Session \ {s} : sessions'[t].fence = sessions[t].fence
    BY NextCarries
  <1>2. /\ row'.fence \in {row.fence, row.fence + 1}
        /\ row'.fence = row.fence => row'.owner = row.owner
        /\ row.fence \in Nat
        /\ \A t \in Session : sessions[t].fence \in Nat
    BY NextCarries DEF LeaseTypeOK
  <1>3. CASE sessions'[s].fence = sessions[s].fence
    BY <1>1, <1>2, <1>3 DEF TenureIsOwn
  <1>4. CASE sessions'[s].fence = row'.fence /\ row'.owner = s /\ (row'.fence = row.fence => row.owner = s)
    <2>1. \A t \in Session \ {s} : sessions[t].fence # 0 => sessions[t].fence # row'.fence
      BY <1>2, <1>4 DEF TenureIsOwn
    <2>2. ASSUME NEW t \in Session, sessions'[t].fence # 0
          PROVE  /\ sessions'[t].fence <= row'.fence
                 /\ sessions'[t].fence = row'.fence => row'.owner = t
                 /\ \A u \in Session \ {t} : sessions'[u].fence # sessions'[t].fence
      BY <1>1, <1>2, <1>4, <2>1, <2>2 DEF TenureIsOwn
    <2> QED BY <2>2 DEF TenureIsOwn
  <1> QED BY <1>1, <1>3, <1>4 DEF Carries

LEMMA InitHolds ==
  ASSUME LeaseInit, Session # {}
  PROVE  LeaseTypeOK /\ TenureIsOwn
  <1>1. (CHOOSE s \in Session : TRUE) \in Session OBVIOUS
  <1> QED BY <1>1 DEF LeaseInit, Fresh, LeaseTypeOK, TenureIsOwn, Statement
--------------------------------------------------------------------------------
(* Every variable has its type (primary_store.py: Lease). *)
THEOREM LeaseTypeCorrect == LeaseSpec => []LeaseTypeOK
  <1>1. LeaseInit => LeaseTypeOK BY InitHolds
  <1>2. LeaseTypeOK /\ [LeaseNext]_leaseVars => LeaseTypeOK' BY NextType
  <1> QED BY <1>1, <1>2, PTL DEF LeaseSpec

(* A session that takes a tenure for its own has it alone (Lease.acquire). *)
THEOREM TenureAlways == LeaseSpec => []TenureIsOwn
  <1>1. LeaseInit => TenureIsOwn BY InitHolds
  <1>2. LeaseTypeOK /\ TenureIsOwn /\ [LeaseNext]_leaseVars => TenureIsOwn' BY TenureKept
  <1> QED BY <1>1, <1>2, LeaseTypeCorrect, PTL DEF LeaseSpec

(* Of a step the database sees the time pass, one statement, or nothing. *)
LEMMA StepForms ==
  ASSUME LeaseTypeOK, [LeaseNext]_leaseVars
  PROVE  \/ Tick
         \/ \E st \in Statement : Execute(st) /\ now' = now
         \/ UNCHANGED <<now, row, writer>>
  BY SentType DEF LeaseTypeOK, LeaseNext, leaseVars, Late, Enter, Answer, NoAnswer, OutOfTime, Use, Exit

(* The row has a number whenever it is live. *)
LEMMA LiveKept ==
  ASSUME LeaseTypeOK, Live => row.fence # 0, [LeaseNext]_leaseVars
  PROVE  (Live => row.fence # 0)'
  <1>1. row.fence \in Nat /\ row'.fence \in {row.fence, row.fence + 1}
    BY NextCarries DEF LeaseTypeOK
  <1>2. ASSUME row.fence = 0, row'.fence = 0 PROVE ~Live'
    <2>1. row.expires <= now /\ now \in Nat /\ row.expires \in Nat
      BY <1>2 DEF LeaseTypeOK, Live
    <2>2. CASE Tick BY <2>1, <2>2 DEF Tick, Live
    <2>3. ASSUME NEW st \in Statement, Execute(st), now' = now PROVE ~Live'
      BY <1>2, <2>1, <2>3 DEF Execute, Taken, Valid, Live, LeaseTypeOK
    <2>4. CASE UNCHANGED <<now, row, writer>> BY <2>1, <2>4 DEF Live
    <2> QED BY <2>2, <2>3, <2>4, StepForms
  <1> QED BY <1>1, <1>2

(* One statement is a step of the promise, or none. *)
LEMMA ExecuteMaps ==
  ASSUME LeaseTypeOK, Live => row.fence # 0, NEW st \in Statement, Execute(st), now' = now
  PROVE  Promise!Next \/ UNCHANGED Promise!vars
  <1> USE DEF Promise!Next, Promise!vars, Promise!Take, Promise!End, Promise!Write
  <1>0. row.fence \in Nat /\ row.expires \in Nat /\ now \in Nat /\ row \in [owner : Session, fence : Nat, expires : Nat]
    BY DEF LeaseTypeOK
  <1>1. CASE st.kind = "acquire" /\ ~Live
    BY <1>0, <1>1 DEF Execute, Taken, Live
  <1>2. CASE st.kind = "renew" /\ Valid(st)
    BY <1>0, <1>2 DEF Execute, Valid, Live
  <1>3. CASE st.kind = "release" /\ row.owner = st.session /\ row.fence = st.fence
    BY <1>0, <1>3 DEF Execute, Live
  <1>4. CASE st.kind = "write" /\ Valid(st)
    BY <1>0, <1>4 DEF Execute, Valid, Live
  <1> QED BY <1>0, <1>1, <1>2, <1>3, <1>4 DEF Execute, Live

(* Mutual exclusion, fencing and numbering survive the transport: what sessions
   do through it is a behaviour of FencedLease. *)
THEOREM LeaseIsFenced == LeaseSpec => ImplementsLease
  <1>1. LeaseInit => Promise!Init /\ (Live => row.fence # 0)
    BY DEF LeaseInit, Promise!Init, Live
  <1>2. LeaseTypeOK /\ (Live => row.fence # 0) /\ [LeaseNext]_leaseVars => [Promise!Next]_(Promise!vars)
    <2> SUFFICES ASSUME LeaseTypeOK, Live => row.fence # 0, [LeaseNext]_leaseVars
                 PROVE  Promise!Next \/ UNCHANGED Promise!vars
      OBVIOUS
    <2>1. CASE Tick
      BY <2>1 DEF Tick, Live, LeaseTypeOK, Promise!Next, Promise!vars, Promise!End
    <2>2. CASE \E st \in Statement : Execute(st) /\ now' = now
      BY <2>2, ExecuteMaps
    <2>3. CASE UNCHANGED <<now, row, writer>>
      BY <2>3 DEF Live, Promise!vars
    <2> QED BY <2>1, <2>2, <2>3, StepForms
  <1>3. LeaseTypeOK /\ (Live => row.fence # 0) /\ [LeaseNext]_leaseVars => (Live => row.fence # 0)'
    BY LiveKept
  <1> QED BY <1>1, <1>2, <1>3, LeaseTypeCorrect, PTL DEF LeaseSpec, ImplementsLease, Promise!Spec
--------------------------------------------------------------------------------
(* The lease rests in all scenarios but its own: what holds of it alone holds here. *)
LEMMA LeaseWorks == Spec => LeaseSpec
  <1>1. Init => LeaseInit
    BY DEF Init
  <1>2. [Next]_vars => [LeaseNext]_leaseVars
    <2>1. UNCHANGED vars => UNCHANGED leaseVars
      BY DEF vars
    <2>2. Next => LeaseNext \/ UNCHANGED leaseVars
      BY DEF Next
    <2> QED BY <2>1, <2>2
  <1> QED BY <1>1, <1>2, PTL DEF Spec, LeaseSpec

(* At any time every variable of the job at work has its type, and so have those of the
   lease. *)
THEOREM TypesStay == Spec => []TypesOK
  <1> DEFINE Written ==
           /\ Is("git") => Git!TypeOK
           /\ Is("database") => Database!TypeOK
           /\ Is("race") => Race!TypeOK
           /\ Is("lossy") => Lossy!TypeOK
           /\ Is("repair") => Repair!TypeOK
           /\ Is("cutover") => Cutover!TypeOK
         Collected ==
           /\ Is("daily") => Daily!TypeOK
           /\ Is("queue") => Queue!TypeOK
           /\ Is("cooldown") => Cooldown!TypeOK
           /\ Is("growth") => Growth!TypeOK
           /\ Is("followers") => Followers!TypeOK
           /\ Is("twitch") => Twitch!TypeOK
         Kept ==
           /\ Is("backup") => Backup!TypeOK
           /\ Is("catalog") => Catalog!TypeOK
           /\ Is("launches") => Launches!TypeOK
           /\ Is("owned") => Files!TypeOK
           /\ Is("groups") => Groups!TypeOK
           /\ Is("evidence") => Evidence!TypeOK
  <1>1. Git!Spec => []Git!TypeOK
    BY WorkersAssumption, Git!TypeCorrect
  <1>2. Database!Spec => []Database!TypeOK
    BY WorkersAssumption, Database!TypeCorrect
  <1>3. Race!Spec => []Race!TypeOK
    BY WorkersAssumption, Race!TypeCorrect
  <1>4. Lossy!Spec => []Lossy!TypeOK
    BY WorkersAssumption, Lossy!TypeCorrect
  <1>5. Repair!Spec => []Repair!TypeOK
    BY WorkersAssumption, Repair!TypeCorrect
  <1>6. Cutover!Spec => []Cutover!TypeOK
    BY WorkersAssumption, Cutover!TypeCorrect
  <1>7. Files!Spec => []Files!TypeOK
    BY JobsAssumption, FilesTypeCorrect
  <1>8. [Next]_vars =>
          /\ Is("git")' <=> Is("git")
          /\ Is("database")' <=> Is("database")
          /\ Is("race")' <=> Is("race")
          /\ Is("lossy")' <=> Is("lossy")
          /\ Is("repair")' <=> Is("repair")
          /\ Is("cutover")' <=> Is("cutover")
    BY ScenarioStays DEF Is
  <1>9. [Next]_vars =>
          /\ Is("daily")' <=> Is("daily")
          /\ Is("queue")' <=> Is("queue")
          /\ Is("cooldown")' <=> Is("cooldown")
          /\ Is("growth")' <=> Is("growth")
          /\ Is("followers")' <=> Is("followers")
          /\ Is("twitch")' <=> Is("twitch")
    BY ScenarioStays DEF Is
  <1>10. [Next]_vars =>
           /\ Is("backup")' <=> Is("backup")
           /\ Is("catalog")' <=> Is("catalog")
           /\ Is("launches")' <=> Is("launches")
           /\ Is("owned")' <=> Is("owned")
           /\ Is("groups")' <=> Is("groups")
           /\ Is("evidence")' <=> Is("evidence")
    BY ScenarioStays DEF Is
  <1>11. Spec => []Written
    BY <1>1, <1>2, <1>3, <1>4, <1>5, <1>6, <1>8, GitWorks, DatabaseWorks, RaceWorks, LossyWorks,
       RepairWorks, CutoverWorks, PTL DEF Spec
  <1>12. Spec => []Collected
    BY <1>9, DailyWorks, QueueWorks, CooldownWorks, GrowthWorks, FollowersWorks, TwitchWorks,
       DailyTypeCorrect, QueueTypeCorrect, CooldownTypeCorrect, GrowthTypeCorrect,
       FollowerTypeCorrect, IntakeTypeCorrect, PTL DEF Spec
  <1>13. Spec => []Kept
    BY <1>7, <1>10, BackupWorks, CatalogWorks, LaunchesWorks, FilesWorks, GroupsWorks,
       EvidenceWorks, BackupTypeCorrect, CatalogTypeCorrect, LaunchTypeCorrect,
       GroupsTypeCorrect, EvidenceTypeCorrect, PTL DEF Spec
  <1>14. Written /\ Collected /\ Kept /\ LeaseTypeOK => TypesOK
    BY DEF TypesOK
  <1> HIDE DEF Written, Collected, Kept
  <1> QED BY <1>11, <1>12, <1>13, <1>14, LeaseWorks, LeaseTypeCorrect, PTL
================================================================================
