SPECIFICATION FairSpec
CONSTANTS
  s1 = s1  s2 = s2  p1 = p1  p2 = p2  m1 = m1  m2 = m2
  Source = {s1, s2}
  Pass = {p1}
  Manifest = {m1, m2}
  Pinned = {m1}
  Delivery = {"git", "database_only"}
  MaxEvents = 1
  MaxGeneration = 2
  MaxFault = 1
  MaxLapse = 0
INVARIANT StandbyRootsDecode
PROPERTY EventsDrain
ACTION_CONSTRAINT OneConcern
CHECK_DEADLOCK FALSE
