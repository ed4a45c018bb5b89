---------------------------- MODULE RecoveryStep ----------------------------
(***************************************************************************)
(* The control of _execute_recovery_phase, in the shape of the transaction *)
(* machine: StepRecovery maps the state of a recovery and the observation  *)
(* of its pending effect to the next state and effect.  A recovery reuses  *)
(* the machine's rollback, journal and cleanup effects, in its own order:  *)
(* it verifies the restored pre-state before it persists RESTORED.         *)
(***************************************************************************)
EXTENDS TransactionStep

RecoveryStates ==
  {"DiscardingPending", "Discarding", "RollingBack", "VerifyingRestored",
   "NeedRestoredJournal", "CleaningRollback", "ConfirmingRestored",
   "ConfirmingSealed", "CleaningForward", "Releasing"}

RecoveryDecisions ==
  {"DiscardStalePending", "DiscardPreparation", "RollBack", "FinishRollbackCleanup",
   "FinishForward"}

\* Mutant: a sealed transaction is rolled back.
PhaseDecisionBackward ==
  [planned |-> "DiscardPreparation", mutating |-> "RollBack",
   restored |-> "FinishRollbackCleanup", sealed |-> "RollBack"]

\* The recovery decision for each authoritative phase.
PhaseDecision ==
  [planned |-> "DiscardPreparation", mutating |-> "RollBack",
   restored |-> "FinishRollbackCleanup", sealed |-> "FinishForward"]

Release == Continue("Releasing", 0, "ReleaseLock")

\* The inventory of a discarded preparation: what PLANNED may have prepared,
\* then the transaction directory, and the journal last.
DiscardSlots(p) ==
  PreparationSlots(p) \cup {DirectorySlot(p), JournalSlot(p)}

DiscardAfter(p, k) ==
  LET next == NextSlot(DiscardSlots(p), k)
  IN  IF next # 0 THEN Continue("Discarding", next, "CleanOne") ELSE Release

\* Every operation in reverse plan order, then the pre-state is verified.
RestoreBefore(p, i) ==
  IF i > 1 THEN Continue("RollingBack", i - 1, "AttemptRollbackOne")
           ELSE Continue("VerifyingRestored", 0, "ObserveAgain")

\* Mutant: a MUTATING journal is finished forward.
StartRecoveryForward(p, decision) ==
  CASE decision = "DiscardStalePending"   -> Continue("DiscardingPending", 0, "DiscardPending")
    [] decision = "DiscardPreparation"    -> DiscardAfter(p, 0)
    [] decision = "RollBack"              -> CleanAfter(p, "CleaningForward", "sealed", 0)
    [] decision = "FinishRollbackCleanup" -> Continue("ConfirmingRestored", 0, "ObserveAgain")
    [] OTHER                              -> Continue("ConfirmingSealed", 0, "ObserveAgain")

StartRecovery(p, decision) ==
  CASE decision = "DiscardStalePending"   -> Continue("DiscardingPending", 0, "DiscardPending")
    [] decision = "DiscardPreparation"    -> DiscardAfter(p, 0)
    [] decision = "RollBack"              -> RestoreBefore(p, Len(p.kinds) + 1)
    [] decision = "FinishRollbackCleanup" -> Continue("ConfirmingRestored", 0, "ObserveAgain")
    [] OTHER                              -> Continue("ConfirmingSealed", 0, "ObserveAgain")

\* The observation matched what the phase requires, or recovery ends here.
Confirmed(m, matches, next) == IF matches THEN next ELSE Stop(m, "Stopped")

\* The next state after an effect that succeeded.
AfterEffect(p, m, e) ==
  CASE m.state = "DiscardingPending"   -> Release
    [] m.state = "Discarding"          -> DiscardAfter(p, m.cursor)
    [] m.state = "RollingBack"         -> RestoreBefore(p, m.cursor)
    [] m.state = "VerifyingRestored"   -> Confirmed(m, e.matches, PersistThen("NeedRestoredJournal"))
    [] m.state \in {"ConfirmingRestored", "NeedRestoredJournal"} ->
         LET clean == CleanAfter(p, "CleaningRollback", "restored", 0)
         IN  IF m.state = "ConfirmingRestored" THEN Confirmed(m, e.matches, clean) ELSE clean
    [] m.state = "ConfirmingSealed"    ->
         Confirmed(m, e.matches, CleanAfter(p, "CleaningForward", "sealed", 0))
    [] m.state = "CleaningRollback"    -> CleanAfter(p, m.state, "restored", m.cursor)
    [] m.state = "CleaningForward"     -> CleanAfter(p, m.state, "sealed", m.cursor)
    [] OTHER                           -> Stop(m, "Completed")

StepRecovery(p, m, e) ==
  IF e.type = "EffectFailed" THEN Stop(m, "Stopped") ELSE AfterEffect(p, m, e)
=============================================================================
