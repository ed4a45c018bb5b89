SPECIFICATION FairSpec
CONSTANT Plans <- MCPlans
INVARIANTS
  TypeOK
  MutationIsPrepared
  SealIsEarned
  RestoreIsComplete
  JournalRemovedLast
PROPERTY EventuallyTerminal
CHECK_DEADLOCK FALSE
