SPECIFICATION Spec
CONSTANTS
  Plans <- MCPlans
  MaxFailures = 3
INVARIANTS
  TypeOK
  PlannedIsUntouched
  ChangesCanBeUndone
  SealedIsInstalled
CHECK_DEADLOCK FALSE
