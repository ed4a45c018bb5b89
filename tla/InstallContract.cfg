SPECIFICATION FairSpec
CONSTANTS
  p1 = p1
  p2 = p2
  Plans <- MCPlans
  Procs <- Pair
  MaxTx = 2
  MaxCrashes = 2
  MaxEdits = 0
  Overlap = FALSE
PROPERTIES
  ContractSpec
  SealedIsFinished
  CommandsReturn
CHECK_DEADLOCK FALSE
