SPECIFICATION FairSpec
CONSTANTS
  p1 = p1  p2 = p2  r1 = r1  a = a  b = b
  Publisher = {p1}
  Repair = {r1}
  Op = {"o1", "o2", "o3"}
  Tree <- Trees
  Merge <- Undoing
  InitialTree = {}
  MaxAttempt = 2
  MaxOther = 0
  MaxFault = 2
PROPERTY PendingIsShown
CHECK_DEADLOCK FALSE
