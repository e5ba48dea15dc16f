SPECIFICATION Spec
CONSTANTS
  g1 = g1  g2 = g2  low = low  high = high  higher = higher
  Game = {g1, g2}
  Count = {low, high}
  Hot = {high}
  Session = {s1, s2}  TTL = 2  RenewAfter = 1  Wait = 3  Budget = 4  Attempts = 2
  MaxNow = 4  MaxLost = 1
  None = None
  Conflict = Conflict
  SaveEvery = 2
  Primary = TRUE
  MaxTime = 2
  MaxFault = 1
INVARIANT SavedIsPublished
