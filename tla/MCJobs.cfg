SPECIFICATION Spec
CONSTANTS
  Scenarios = {"git", "race", "lossy", "repair", "cooldown", "growth", "followers", "twitch",
               "cutover", "backup", "catalog", "lease", "launches", "owned", "groups", "evidence"}
  MaxForeign = 1  MaxSetback = 1
  Session = {s1, s2}  TTL = 2  RenewAfter = 1  Wait = 3  Budget = 4  Attempts = 2
  MaxNow = 4  MaxLost = 1
  Given <- MCGiven  OfDaily <- MCDaily  OfQueue <- MCQueue  OfCooldown <- MCCooldown
  OfTwitch <- MCTwitch  OfGroups <- MCGroups
  Undoing <- MCUndoing  Growing <- MCGrowing
  nothing = nothing  conflict = conflict
  g1 = g1  g2 = g2  low = low  high = high  higher = higher  c1 = c1  c2 = c2
  p1 = p1  p2 = p2  r1 = r1  f1 = f1  f2 = f2
INVARIANTS
  TypesOK
  SavedIsPublished ReceiptIsTrue
  PublicIsCommitted AcknowledgedIsPublic PublishedIsAcknowledged
  AcknowledgedIsSaved NothingIsLeftBehind OneAuthority CatalogAgrees RecentIsProven TenureIsOwn
PROPERTIES
  NewerSurvives ImplementsLease FailureIsKept CompleteIsCovered EvidenceIsKept
CHECK_DEADLOCK FALSE
