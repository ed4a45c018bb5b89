--------------------------- MODULE TransactionStep ---------------------------
(***************************************************************************)
(* The pure transition function of transaction.py: step_transaction maps a *)
(* state and one event to the next state, which carries the one effect the *)
(* shell must execute next.                                                *)
(*                                                                         *)
(* A machine is a record:                                                  *)
(*   state     the continuation state, or the terminal outcome;            *)
(*   cursor    the slot, operation or item the pending effect is about;    *)
(*   awaiting  the last requested effect (the tail of the trace, the only  *)
(*             part of the trace the machine reads).                       *)
(*                                                                         *)
(* TransactionMachine drives it with arbitrary events, in any order a      *)
(* broken shell could deliver them; BootstrapTransaction drives it with    *)
(* the answers of the real shell.                                          *)
(***************************************************************************)
EXTENDS OperationPlan

States ==
  {"NeedLock", "NeedRevalidation", "NeedPlannedJournal", "Preparing",
   "NeedMutatingJournal", "Installing", "Verifying", "RollingBack",
   "NeedRestoredJournal", "NeedSealedJournal", "CleaningForward",
   "CleaningRollback", "Releasing"}

\* Impossible is Stopped with the IMPOSSIBLE_STATE internal failure.
Terminals == {"Completed", "Stopped", "Impossible"}

Effects ==
  {"AcquireLock", "ObserveAgain", "PersistJournal", "PrepareOne", "ApplyOne",
   "ObservePostState", "CleanOne", "AttemptRollbackOne", "ReleaseLock"}

-----------------------------------------------------------------------------
(* Events.                                                                  *)

Start == [type |-> "Start"]
LockAcquired == [type |-> "LockAcquired"]
LockRefused == [type |-> "LockRefused"]
Reobserved(matches) == [type |-> "Reobserved", matches |-> matches]
JournalPersisted(phase) == [type |-> "JournalPersisted", phase |-> phase]
PreparationCompleted(k) == [type |-> "PreparationCompleted", index |-> k]
OperationApplied(i) == [type |-> "OperationApplied", index |-> i]
PostStateObserved(valid, matches) ==
  [type |-> "PostStateObserved", valid |-> valid, matches |-> matches]
RollbackStepCompleted(i) == [type |-> "RollbackStepCompleted", index |-> i]
CleanupCompleted(k) == [type |-> "CleanupCompleted", index |-> k]
LockReleased == [type |-> "LockReleased"]
EffectFailed(effect) == [type |-> "EffectFailed", effect |-> effect]

-----------------------------------------------------------------------------
(* The transitions of step_transaction, one operator per continuation.      *)

Continue(state, cursor, effect) ==
  [state |-> state, cursor |-> cursor, awaiting |-> effect]

Stop(m, outcome) == [m EXCEPT !.state = outcome]

InitialMachine == Continue("NeedLock", 0, "none")

PersistThen(state) == Continue(state, 0, "PersistJournal")

AfterRevalidation(m, matches) ==
  IF matches THEN PersistThen("NeedPlannedJournal") ELSE Stop(m, "Stopped")

\* Mutant: the last reserved preparation is never made.
PrepareAfterButLast(p, k) ==
  LET next == NextSlot(PreparationSlots(p), k)
  IN  IF NextSlot(PreparationSlots(p), next) # 0
        THEN Continue("Preparing", next, "PrepareOne")
        ELSE PersistThen("NeedMutatingJournal")

\* Mutant: the advance of the journal to MUTATING is dropped.
PrepareAfterStillPlanned(p, k) ==
  LET next == NextSlot(PreparationSlots(p), k)
  IN  IF next # 0 THEN Continue("Preparing", next, "PrepareOne")
                  ELSE Continue("Installing", 1, "ApplyOne")

\* PrepareOne for the first preparation after slot k, MUTATING after the last.
PrepareAfter(p, k) ==
  LET next == NextSlot(PreparationSlots(p), k)
  IN  IF next # 0 THEN Continue("Preparing", next, "PrepareOne")
                  ELSE PersistThen("NeedMutatingJournal")

\* Mutant: the bound of the installation cursor is off by one.
InstallAfterOneTooMany(p, i) ==
  IF i <= Len(p.kinds) THEN Continue("Installing", i + 1, "ApplyOne")
                       ELSE Continue("Verifying", 0, "ObservePostState")

\* ApplyOne for the operation after i, the final observation after the last.
InstallAfter(p, i) ==
  IF i < Len(p.kinds) THEN Continue("Installing", i + 1, "ApplyOne")
                      ELSE Continue("Verifying", 0, "ObservePostState")

\* Mutant: rollback stops one operation early.
RollbackBeforeButFirst(p, i) ==
  IF i > 2 THEN Continue("RollingBack", i - 1, "AttemptRollbackOne")
           ELSE PersistThen("NeedRestoredJournal")

\* AttemptRollbackOne for the operation before i, RESTORED after the first.
RollbackBefore(p, i) ==
  IF i > 1 THEN Continue("RollingBack", i - 1, "AttemptRollbackOne")
           ELSE PersistThen("NeedRestoredJournal")

EnterRollback(p) == RollbackBefore(p, Len(p.kinds) + 1)

\* Mutant: the live post-validation is not consulted.
AfterVerificationOfBytes(p, g, valid, matches) ==
  IF matches /\ g = "pass" THEN PersistThen("NeedSealedJournal")
                           ELSE EnterRollback(p)

\* Mutant: a failed verification releases the lock without rolling back.
AfterVerificationGivingUp(p, g, valid, matches) ==
  IF valid /\ matches /\ g = "pass" THEN PersistThen("NeedSealedJournal")
                                    ELSE Continue("Releasing", 0, "ReleaseLock")

AfterVerification(p, g, valid, matches) ==
  IF valid /\ matches /\ g = "pass" THEN PersistThen("NeedSealedJournal")
                                    ELSE EnterRollback(p)

\* Mutant: an exhausted cleanup cursor is taken for a fresh one.
CleanAfterWrapping(p, state, phase, k) ==
  LET next == NextSlot(CleanupSlots(p, phase), k)
  IN  Continue(state, IF next # 0 THEN next ELSE NextSlot(CleanupSlots(p, phase), 0),
               "CleanOne")

\* CleanOne for the first item after slot k, ReleaseLock after the last.
CleanAfter(p, state, phase, k) ==
  LET next == NextSlot(CleanupSlots(p, phase), k)
  IN  IF next # 0 THEN Continue(state, next, "CleanOne")
                  ELSE Continue("Releasing", 0, "ReleaseLock")

StepTransaction(p, g, m, e) ==
  CASE m.state = "NeedLock" /\ e.type = "Start" ->
         Continue("NeedRevalidation", 0, "AcquireLock")
    [] m.state = "NeedRevalidation" /\ m.awaiting = "AcquireLock"
         /\ e.type = "LockAcquired" ->
         Continue("NeedRevalidation", 0, "ObserveAgain")
    [] m.state = "NeedRevalidation" /\ m.awaiting = "AcquireLock"
         /\ e.type = "LockRefused" ->
         Stop(m, "Stopped")
    [] m.state = "NeedRevalidation" /\ m.awaiting = "ObserveAgain"
         /\ e.type = "Reobserved" ->
         AfterRevalidation(m, e.matches)
    [] m.state = "NeedPlannedJournal" /\ e.type = "JournalPersisted"
         /\ e.phase = "planned" ->
         PrepareAfter(p, 0)
    [] m.state = "Preparing" /\ e.type = "PreparationCompleted"
         /\ e.index = m.cursor /\ m.cursor \in PreparationSlots(p) ->
         PrepareAfter(p, m.cursor)
    [] m.state = "NeedMutatingJournal" /\ e.type = "JournalPersisted"
         /\ e.phase = "mutating" ->
         InstallAfter(p, 0)
    [] m.state = "Installing" /\ e.type = "OperationApplied"
         /\ e.index = m.cursor /\ m.cursor \in Ops(p) ->
         InstallAfter(p, m.cursor)
    [] m.state = "Verifying" /\ e.type = "PostStateObserved" ->
         AfterVerification(p, g, e.valid, e.matches)
    [] m.state = "RollingBack" /\ e.type = "RollbackStepCompleted"
         /\ e.index = m.cursor /\ m.cursor >= 1 ->
         RollbackBefore(p, m.cursor)
    [] m.state = "NeedRestoredJournal" /\ e.type = "JournalPersisted"
         /\ e.phase = "restored" ->
         CleanAfter(p, "CleaningRollback", "restored", 0)
    [] m.state = "NeedSealedJournal" /\ e.type = "JournalPersisted"
         /\ e.phase = "sealed" ->
         CleanAfter(p, "CleaningForward", "sealed", 0)
    [] m.state = "CleaningForward" /\ e.type = "CleanupCompleted"
         /\ e.index = m.cursor /\ m.cursor \in CleanupSlots(p, "sealed") ->
         CleanAfter(p, "CleaningForward", "sealed", m.cursor)
    [] m.state = "CleaningRollback" /\ e.type = "CleanupCompleted"
         /\ e.index = m.cursor /\ m.cursor \in CleanupSlots(p, "restored") ->
         CleanAfter(p, "CleaningRollback", "restored", m.cursor)
    [] m.state = "Releasing" /\ e.type = "LockReleased" ->
         Stop(m, "Completed")
    [] e.type = "EffectFailed" /\ e.effect = m.awaiting ->
         Stop(m, "Stopped")
    [] OTHER -> Stop(m, "Impossible")
=============================================================================
