SPECIFICATION FairSpec
CONSTANTS
  p1 = p1
  p2 = p2
  Plans <- CreateOnly
  Procs <- One
  MaxTx = 1
  MaxCrashes = 0
  MaxEdits = 0
  Overlap = FALSE
PROPERTY HookFollowsInstallation
CHECK_DEADLOCK FALSE
