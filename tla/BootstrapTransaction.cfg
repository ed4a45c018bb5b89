SPECIFICATION Spec
CONSTANTS
  p1 = p1
  p2 = p2
  Plans <- MCPlans
  Procs <- Pair
  MaxTx = 2
  MaxCrashes = 2
  MaxEdits = 2
  Overlap = FALSE
SYMMETRY Symmetry
INVARIANTS
  TypeOK
  PlannedMeansUntouched
  SealedMeansCandidate
  RestoredMeansPreState
  NoJournalMeansSettled
  BackupUntilSettled
  EvidenceIsJournaled
  UninterruptedLeavesNothing
PROPERTIES
  ThirdStatePreserved
  JournalPhaseOrder
CHECK_DEADLOCK FALSE
