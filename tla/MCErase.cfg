SPECIFICATION Spec
CONSTANTS
  Wait = {1, 2}
  MaxNow = 6
  MaxUnsent = 2
  MaxLoss = 2
PROPERTY FailureIsKept
CHECK_DEADLOCK FALSE
