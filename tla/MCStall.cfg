SPECIFICATION FairSpec
CONSTANTS
  App = {1, 2}
  Listing <- MCListing
  Band = {"high"}
  Window = 1
  MaxPass = 4
  Budget = 2
  MaxDay = 1
  MaxManual = 0
  MaxStamp = 2
  MaxLedger = 1
  MaxFault = 2
PROPERTY PrescreenFinishes
CHECK_DEADLOCK FALSE
