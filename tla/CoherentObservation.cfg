SPECIFICATION Spec
CONSTANTS
  Absent = Absent
  Plans <- MCPlans
  N = 3
  Planned = 2
  MaxAttempts = 2
  MaxBegun = 1
  MaxEdits = 1
INVARIANTS
  TypeOK
  ReturnedExisted
  RefusalIsReal
  ObservedProjectExisted
CHECK_DEADLOCK FALSE
