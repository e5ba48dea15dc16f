SPECIFICATION Spec
CONSTANTS
  s1 = s1  s2 = s2  p1 = p1  p2 = p2  m1 = m1  m2 = m2
  Source = {s1}
  Pass = {p1, p2}
  Manifest = {m1, m2}
  Pinned = {}
  Delivery = {"database_only"}
  MaxEvents = 1
  MaxGeneration = 3
  MaxFault = 1
  MaxLapse = 1
SYMMETRY Symmetry
INVARIANTS TypeOK AckedIsOnStandby StandbyIsHistory StandbyHeadsDecode NoFalseAlarm
PROPERTY NeverBack
CHECK_DEADLOCK FALSE
