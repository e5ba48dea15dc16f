SPECIFICATION Spec
CONSTANTS
  s1 = s1  s2 = s2  p1 = p1  p2 = p2  m1 = m1  m2 = m2
  Source = {s1}
  Pass = {p1}
  Manifest = {m1, m2}
  Pinned = {m1}
  Delivery = {"git", "database_only"}
  MaxEvents = 2
  MaxGeneration = 3
  MaxFault = 0
  MaxLapse = 1
INVARIANT SyncVerified
CHECK_DEADLOCK FALSE
