SPECIFICATION FairSpec
CONSTANTS
  p1 = p1
  p2 = p2
  Plans <- RemoveOnly
  Procs <- One
  MaxTx = 1
  MaxCrashes = 1
  MaxEdits = 0
  Overlap = FALSE
PROPERTY OldIsAlreadyRestored
CHECK_DEADLOCK FALSE
