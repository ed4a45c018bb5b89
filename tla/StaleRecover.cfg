SPECIFICATION FairSpec
CONSTANTS
  p1 = p1
  p2 = p2
  Plans <- CreateOnly
  Procs <- Pair
  MaxTx = 1
  MaxCrashes = 0
  MaxEdits = 0
  Overlap = TRUE
PROPERTY RecoverRollsBackMutatingOnly
CHECK_DEADLOCK FALSE
