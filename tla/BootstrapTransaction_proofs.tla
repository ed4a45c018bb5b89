--------------------- MODULE BootstrapTransaction_proofs ---------------------
(***************************************************************************)
(* What the bootstrap shell keeps, proved for every plan, any number of    *)
(* processes, crashes and edits: the type invariant, the meaning of each   *)
(* journal phase, atomicity, the ownership of the evidence, that a         *)
(* transaction nobody interrupts leaves nothing behind, and that the shell *)
(* implements InstallContract.                                             *)
(*                                                                         *)
(* The theorems assume that a recover runs alone from its observation on   *)
(* (~ Overlap).  One that overlaps another command may act on a journal    *)
(* that has moved on since it was observed, and take a finished            *)
(* installation back: atomicity does not hold then.                        *)
(***************************************************************************)
EXTENDS BootstrapTransaction, OperationPlan_proofs

-----------------------------------------------------------------------------
(* The inductive invariant.                                                 *)

AllUntouched(state) == \A i \in Ops(plan) : Untouched(i) => target[i] = state

\* The states of a command by the journal phase under which it is in them.
UnjournaledStates == {"NeedPlannedJournal", "DiscardingPending", "Releasing"}
PlannedStates == {"Preparing", "NeedMutatingJournal", "Discarding"}
MutatingStates ==
  {"Installing", "Verifying", "NeedSealedJournal", "RollingBack",
   "VerifyingRestored", "NeedRestoredJournal"}
RestoredStates == {"ConfirmingRestored", "CleaningRollback"}
SealedStates == {"ConfirmingSealed", "CleaningForward"}
CleaningStates == {"Discarding", "CleaningRollback", "CleaningForward"}

\* The effect each state waits for.
EffectOf ==
  [NeedRevalidation |-> "ObserveAgain", NeedPlannedJournal |-> "PersistJournal",
   Preparing |-> "PrepareOne", NeedMutatingJournal |-> "PersistJournal",
   Installing |-> "ApplyOne", Verifying |-> "ObservePostState",
   NeedSealedJournal |-> "PersistJournal", RollingBack |-> "AttemptRollbackOne",
   VerifyingRestored |-> "ObserveAgain", NeedRestoredJournal |-> "PersistJournal",
   ConfirmingRestored |-> "ObserveAgain", ConfirmingSealed |-> "ObserveAgain",
   Discarding |-> "CleanOne", CleaningRollback |-> "CleanOne",
   CleaningForward |-> "CleanOne", DiscardingPending |-> "DiscardPending",
   Releasing |-> "ReleaseLock"]

\* What the cursor of a state ranges over.
Inventory(state) ==
  CASE state = "Preparing" -> PreparationSlots(plan)
    [] state = "Discarding" -> DiscardSlots(plan)
    [] state = "CleaningRollback" -> CleanupSlots(plan, "restored")
    [] state = "CleaningForward" -> CleanupSlots(plan, "sealed")
    [] state \in {"Installing", "RollingBack"} -> Ops(plan)
    [] OTHER -> {0}

Machines ==
  [state : States \cup RecoveryStates, cursor : Nat,
   awaiting : Effects \cup {"none", "DiscardPending"}]

Runs ==
  [cmd : {"none", "apply", "recover"}, tx : 0 .. MaxTx, machine : Machines,
   busy : BOOLEAN, alloc : BOOLEAN, extra : BOOLEAN, mine : SUBSET Ops(plan)]

\* A waiting apply has decided nothing and allocated a transaction.
AppliesIn(w) == w.cmd = "apply" /\ w.tx \in Tx /\ w.decision = "none" /\ ~ w.extra

\* A waiting apply knows nothing of the disk that it does not check again; a
\* waiting recover is alone, and what it has observed is still so.
WaitingInv ==
  \A p \in Procs :
    \/ waiting[p] = Idle
    \/ AppliesIn(waiting[p])
    \/ /\ waiting[p] = [cmd |-> "recover", tx |-> journal.tx,
                        decision |-> RecoveryDecision, extra |-> journal.extra]
       /\ RecoveryDecision # "NoRecoveryNeeded"
       /\ ~ Locked
       /\ \A q \in Procs \ {p} : waiting[q] = Idle

\* What each phase of the journal says of the disk.
JournalInv ==
  /\ journal = NoJournal \/ journal \in [phase : Phases, tx : Tx, extra : BOOLEAN]
  /\ PlannedMeansUntouched
  /\ SealedMeansCandidate
  /\ RestoredMeansPreState
  /\ NoJournalMeansSettled
  /\ BackupUntilSettled

\* Evidence is only what the plan reserves, and belongs to the journal's
\* transaction; containers exist only once a rollback has begun.
EvidenceInv ==
  /\ \A t \in Tx, i \in Ops(plan) :
       /\ ~ NeedsStage(plan.kinds[i]) => stage[t][i] = "none"
       /\ ~ NeedsContainer(plan.kinds[i]) => container[t][i] = "none"
       /\ ~ NeedsBackup(plan.kinds[i]) => backup[t][i] = "none"
  /\ EvidenceIsJournaled
  /\ journal.phase \in {"planned", "sealed"} =>
       \A i \in Ops(plan) : Unowned(container[journal.tx][i])

\* The command that holds the lock is in a state of its grammar, under the
\* journal phase of that state, which names its transaction.
ControlInv ==
  Locked =>
    /\ run.machine.state \in
         (IF run.cmd = "apply" THEN States \ {"NeedLock"} ELSE RecoveryStates)
    /\ run.machine.awaiting = EffectOf[run.machine.state]
    /\ run.machine.cursor \in Inventory(run.machine.state)
    /\ run.machine.state \notin {"DiscardingPending", "Releasing"} => run.tx \in Tx
    /\ run.machine.state \in UnjournaledStates => journal = NoJournal
    /\ run.machine.state \in PlannedStates => journal.phase = "planned"
    /\ run.machine.state \in MutatingStates => journal.phase = "mutating"
    /\ run.machine.state \in RestoredStates => journal.phase = "restored"
    /\ run.machine.state \in SealedStates => journal.phase = "sealed"
    /\ journal # NoJournal /\ run.machine.state # "NeedRevalidation" => journal.tx = run.tx

\* What the command has made of the planned paths.
TargetInv ==
  Locked =>
    /\ run.machine.state \in {"NeedPlannedJournal", "VerifyingRestored", "NeedRestoredJournal"}
         => AllUntouched("old")
    /\ run.machine.state = "NeedSealedJournal" => AllUntouched("new")
    /\ run.machine.state = "RollingBack" =>
         /\ \A i \in Ops(plan) : i > run.machine.cursor /\ Untouched(i) => target[i] = "old"
         /\ run.busy =>
              /\ target[run.machine.cursor] = "new"
              /\ NeedsContainer(plan.kinds[run.machine.cursor])

\* What it has prepared below its cursor, and what it has yet to prepare.
PreparedInv ==
  Locked =>
    /\ run.machine.state = "NeedPlannedJournal" => txdir = {}
    /\ run.machine.state = "Preparing" =>
         \A i \in Ops(plan) :
           /\ NeedsBackup(plan.kinds[i]) /\ BackupSlot(i) < run.machine.cursor
                => backup[run.tx][i] = "full"
           /\ StageSlot(i) >= run.machine.cursor => stage[run.tx][i] # "full"
    /\ run.machine.state = "NeedMutatingJournal" =>
         \A i \in Ops(plan) : NeedsBackup(plan.kinds[i]) => backup[run.tx][i] = "full"
    /\ run.machine.state \in {"Installing", "Verifying", "NeedSealedJournal"} =>
         \A i \in Ops(plan) : Unowned(container[run.tx][i])
    /\ run.machine.state = "RollingBack" /\ run.busy =>
         LET i == run.machine.cursor
         IN  container[run.tx][i] \in
               (IF plan.kinds[i] = "CreateTree" THEN {"bare", "torn", "marked"}
                ELSE {"bare", "torn", "marked", "partial", "full"})

\* The evidence of a transaction whose slots below k are cleaned.
CleanedBelow(p, k, stages, containers, backups, directory) ==
  /\ \A i \in Ops(p) :
       /\ StageSlot(i) < k => Unowned(stages[i])
       /\ BackupSlot(i) < k => backups[i] = "none"
       /\ RollbackSlot(p, i) < k => Unowned(containers[i])
  /\ DirectorySlot(p) < k => ~ directory

\* What it has cleaned below its cursor.
CleanedInv ==
  Locked /\ run.machine.state \in CleaningStates =>
    CleanedBelow(plan, run.machine.cursor, stage[run.tx], container[run.tx],
                 backup[run.tx], run.tx \in txdir)

\* All that is said of the command that holds the lock.
RunInv == ControlInv /\ TargetInv /\ PreparedInv /\ CleanedInv

IInv ==
  /\ TypeOK /\ run \in Runs /\ nextTx \in Nat /\ crashes \in Nat /\ edits \in Nat
  /\ WaitingInv /\ JournalInv /\ EvidenceInv /\ RunInv

-----------------------------------------------------------------------------
(* The vocabulary: the answers the two state machines give.                 *)

\* The machine of a run that goes on in a state of the grammar.
LEMMA ContinueIsMachine ==
  ASSUME NEW s \in States \cup RecoveryStates, NEW k \in Nat,
         NEW e \in Effects \cup {"none", "DiscardPending"}
  PROVE  /\ Continue(s, k, e) \in Machines
         /\ Continue(s, k, e).state = s
         /\ Continue(s, k, e).cursor = k
         /\ Continue(s, k, e).awaiting = e
         /\ s \notin Terminals
  BY DEF Continue, Machines, States, RecoveryStates, Terminals

\* A failed effect stops either machine.
LEMMA FailureStops ==
  ASSUME NEW p, NEW m \in Machines
  PROVE  /\ StepTransaction(p, "pass", m, EffectFailed(m.awaiting)).state = "Stopped"
         /\ StepRecovery(p, m, EffectFailed(m.awaiting)).state = "Stopped"
<1>1. StepRecovery(p, m, EffectFailed(m.awaiting)).state = "Stopped"
  BY DEF StepRecovery, EffectFailed, Stop, Machines
<1>2. StepTransaction(p, "pass", m, EffectFailed(m.awaiting)) = Stop(m, "Stopped")
  BY DEF StepTransaction, EffectFailed
<1>3. QED
  BY <1>1, <1>2 DEF Stop, Machines

\* What the transaction machine of an apply answers to the event its state
\* waits for.
LEMMA ApplySuccessors ==
  ASSUME NEW p, NEW m \in Machines
  PROVE  /\ m.state = "NeedRevalidation" /\ m.awaiting = "ObserveAgain" =>
              StepTransaction(p, "pass", m, Reobserved(TRUE)) = PersistThen("NeedPlannedJournal")
         /\ m.state = "NeedPlannedJournal" =>
              StepTransaction(p, "pass", m, JournalPersisted("planned")) = PrepareAfter(p, 0)
         /\ m.state = "Preparing" /\ m.cursor \in PreparationSlots(p) =>
              StepTransaction(p, "pass", m, PreparationCompleted(m.cursor))
                = PrepareAfter(p, m.cursor)
         /\ m.state = "NeedMutatingJournal" =>
              StepTransaction(p, "pass", m, JournalPersisted("mutating")) = InstallAfter(p, 0)
         /\ m.state = "Installing" /\ m.cursor \in Ops(p) =>
              StepTransaction(p, "pass", m, OperationApplied(m.cursor))
                = InstallAfter(p, m.cursor)
         /\ m.state = "RollingBack" /\ m.cursor >= 1 =>
              StepTransaction(p, "pass", m, RollbackStepCompleted(m.cursor))
                = RollbackBefore(p, m.cursor)
         /\ m.state = "NeedRestoredJournal" =>
              StepTransaction(p, "pass", m, JournalPersisted("restored"))
                = CleanAfter(p, "CleaningRollback", "restored", 0)
         /\ m.state = "NeedSealedJournal" =>
              StepTransaction(p, "pass", m, JournalPersisted("sealed"))
                = CleanAfter(p, "CleaningForward", "sealed", 0)
         /\ m.state = "CleaningForward" /\ m.cursor \in CleanupSlots(p, "sealed") =>
              StepTransaction(p, "pass", m, CleanupCompleted(m.cursor))
                = CleanAfter(p, "CleaningForward", "sealed", m.cursor)
         /\ m.state = "CleaningRollback" /\ m.cursor \in CleanupSlots(p, "restored") =>
              StepTransaction(p, "pass", m, CleanupCompleted(m.cursor))
                = CleanAfter(p, "CleaningRollback", "restored", m.cursor)
         /\ m.state = "Releasing" =>
              StepTransaction(p, "pass", m, LockReleased) = Stop(m, "Completed")
<1>1. m.state = "NeedRevalidation" /\ m.awaiting = "ObserveAgain" =>
        StepTransaction(p, "pass", m, Reobserved(TRUE)) = PersistThen("NeedPlannedJournal")
  BY DEF StepTransaction, Reobserved, AfterRevalidation
<1>2. m.state = "NeedPlannedJournal" =>
        StepTransaction(p, "pass", m, JournalPersisted("planned")) = PrepareAfter(p, 0)
  BY DEF StepTransaction, JournalPersisted
<1>3. m.state = "Preparing" /\ m.cursor \in PreparationSlots(p) =>
        StepTransaction(p, "pass", m, PreparationCompleted(m.cursor))
          = PrepareAfter(p, m.cursor)
  BY DEF StepTransaction, PreparationCompleted
<1>4. m.state = "NeedMutatingJournal" =>
        StepTransaction(p, "pass", m, JournalPersisted("mutating")) = InstallAfter(p, 0)
  BY DEF StepTransaction, JournalPersisted
<1>5. m.state = "Installing" /\ m.cursor \in Ops(p) =>
        StepTransaction(p, "pass", m, OperationApplied(m.cursor)) = InstallAfter(p, m.cursor)
  BY DEF StepTransaction, OperationApplied
<1>6. m.state = "RollingBack" /\ m.cursor >= 1 =>
        StepTransaction(p, "pass", m, RollbackStepCompleted(m.cursor))
          = RollbackBefore(p, m.cursor)
  BY DEF StepTransaction, RollbackStepCompleted
<1>7. m.state = "NeedRestoredJournal" =>
        StepTransaction(p, "pass", m, JournalPersisted("restored"))
          = CleanAfter(p, "CleaningRollback", "restored", 0)
  BY DEF StepTransaction, JournalPersisted
<1>8. m.state = "NeedSealedJournal" =>
        StepTransaction(p, "pass", m, JournalPersisted("sealed"))
          = CleanAfter(p, "CleaningForward", "sealed", 0)
  BY DEF StepTransaction, JournalPersisted
<1>9. m.state = "CleaningForward" /\ m.cursor \in CleanupSlots(p, "sealed") =>
        StepTransaction(p, "pass", m, CleanupCompleted(m.cursor))
          = CleanAfter(p, "CleaningForward", "sealed", m.cursor)
  BY DEF StepTransaction, CleanupCompleted
<1>10. m.state = "CleaningRollback" /\ m.cursor \in CleanupSlots(p, "restored") =>
         StepTransaction(p, "pass", m, CleanupCompleted(m.cursor))
           = CleanAfter(p, "CleaningRollback", "restored", m.cursor)
  BY DEF StepTransaction, CleanupCompleted
<1>11. m.state = "Releasing" =>
         StepTransaction(p, "pass", m, LockReleased) = Stop(m, "Completed")
  BY DEF StepTransaction, LockReleased
<1>12. QED
  BY <1>1, <1>2, <1>3, <1>4, <1>5, <1>6, <1>7, <1>8, <1>9, <1>10, <1>11

\* What a recovery answers to an effect that succeeded, whatever the event
\* tells beyond that, and to a verification.
LEMMA RecoverySuccessors ==
  ASSUME NEW p, NEW m \in Machines, NEW e, e.type # "EffectFailed"
  PROVE  /\ m.state \in {"DiscardingPending"} => StepRecovery(p, m, e) = Release
         /\ m.state = "Discarding" => StepRecovery(p, m, e) = DiscardAfter(p, m.cursor)
         /\ m.state = "RollingBack" => StepRecovery(p, m, e) = RestoreBefore(p, m.cursor)
         /\ m.state = "VerifyingRestored" =>
              StepRecovery(p, m, e)
                = (IF e.matches THEN PersistThen("NeedRestoredJournal") ELSE Stop(m, "Stopped"))
         /\ m.state = "NeedRestoredJournal" =>
              StepRecovery(p, m, e) = CleanAfter(p, "CleaningRollback", "restored", 0)
         /\ m.state = "ConfirmingRestored" =>
              StepRecovery(p, m, e)
                = (IF e.matches THEN CleanAfter(p, "CleaningRollback", "restored", 0)
                   ELSE Stop(m, "Stopped"))
         /\ m.state = "ConfirmingSealed" =>
              StepRecovery(p, m, e)
                = (IF e.matches THEN CleanAfter(p, "CleaningForward", "sealed", 0)
                   ELSE Stop(m, "Stopped"))
         /\ m.state = "CleaningRollback" =>
              StepRecovery(p, m, e) = CleanAfter(p, "CleaningRollback", "restored", m.cursor)
         /\ m.state = "CleaningForward" =>
              StepRecovery(p, m, e) = CleanAfter(p, "CleaningForward", "sealed", m.cursor)
         /\ m.state = "Releasing" => StepRecovery(p, m, e) = Stop(m, "Completed")
  BY DEF StepRecovery, AfterEffect, Confirmed

\* The first slot of an inventory after k, or none left.
LEMMA InventoryIsVisited ==
  ASSUME NEW p, WellFormed(p), NEW slots, NEW k \in Nat,
         \/ slots = PreparationSlots(p)
         \/ slots = DiscardSlots(p)
         \/ \E phase \in Phases : slots = CleanupSlots(p, phase)
  PROVE  /\ slots \in SUBSET (Nat \ {0})
         /\ \/ NextSlot(slots, k) = 0 /\ \A j \in slots : j <= k
            \/ /\ NextSlot(slots, k) \in slots /\ NextSlot(slots, k) # 0
               /\ NextSlot(slots, k) > k
               /\ \A l \in slots : l > k => NextSlot(slots, k) <= l
<1>1. slots \in SUBSET (Nat \ {0})
  <2>1. "sealed" \in Phases
    BY DEF Phases
  <2>2. CleanupSlots(p, "sealed") \in SUBSET (Nat \ {0})
    BY <2>1, SlotsAreNatural
  <2>3. DiscardSlots(p) \in SUBSET (Nat \ {0})
    BY <2>2 DEF DiscardSlots, CleanupSlots
  <2>4. QED
    BY <2>3, SlotsAreNatural
<1>2. slots \in SUBSET Nat
  BY <1>1
<1>3. \/ NextSlot(slots, k) = 0 /\ \A j \in slots : j <= k
      \/ /\ NextSlot(slots, k) \in slots
         /\ NextSlot(slots, k) > k
         /\ \A l \in slots : l > k => NextSlot(slots, k) <= l
  BY <1>2, NextSlotIsLeast
<1>4. QED
  BY <1>1, <1>3

\* After slot k, prepare the next slot or, when none is left, persist MUTATING.
LEMMA PrepareAfterResult ==
  ASSUME NEW p, WellFormed(p), NEW k \in Nat
  PROVE  \/ /\ PrepareAfter(p, k) = Continue("NeedMutatingJournal", 0, "PersistJournal")
            /\ \A j \in PreparationSlots(p) : j <= k
         \/ \E n \in PreparationSlots(p) :
              /\ PrepareAfter(p, k) = Continue("Preparing", n, "PrepareOne")
              /\ n \in Nat /\ n > k /\ \A l \in PreparationSlots(p) : l > k => n <= l
  BY InventoryIsVisited DEF PrepareAfter, PersistThen

\* After slot k, clean the next slot or, when none is left, release the lock.
LEMMA CleanAfterResult ==
  ASSUME NEW p, WellFormed(p), NEW k \in Nat, NEW state, NEW phase \in Phases
  PROVE  \/ /\ CleanAfter(p, state, phase, k) = Continue("Releasing", 0, "ReleaseLock")
            /\ \A j \in CleanupSlots(p, phase) : j <= k
         \/ \E n \in CleanupSlots(p, phase) :
              /\ CleanAfter(p, state, phase, k) = Continue(state, n, "CleanOne")
              /\ n \in Nat /\ n > k /\ \A l \in CleanupSlots(p, phase) : l > k => n <= l
  BY InventoryIsVisited DEF CleanAfter

\* The same for the discard of a preparation.
LEMMA DiscardAfterResult ==
  ASSUME NEW p, WellFormed(p), NEW k \in Nat
  PROVE  \/ /\ DiscardAfter(p, k) = Continue("Releasing", 0, "ReleaseLock")
            /\ \A j \in DiscardSlots(p) : j <= k
         \/ \E n \in DiscardSlots(p) :
              /\ DiscardAfter(p, k) = Continue("Discarding", n, "CleanOne")
              /\ n \in Nat /\ n > k /\ \A l \in DiscardSlots(p) : l > k => n <= l
  BY InventoryIsVisited DEF DiscardAfter, Release

\* The slots of the operations, the directory and the journal are apart and
\* in this order.
LEMMA SlotOrder ==
  ASSUME NEW p, WellFormed(p), NEW i \in Ops(p)
  PROVE  /\ i \in Nat /\ Len(p.kinds) \in Nat /\ 1 <= i /\ i <= Len(p.kinds)
         /\ p.kinds[i] \in Kinds
         /\ StageSlot(i) \in Nat /\ BackupSlot(i) \in Nat /\ RollbackSlot(p, i) \in Nat
         /\ DirectorySlot(p) \in Nat /\ JournalSlot(p) \in Nat
         /\ 0 < StageSlot(i) /\ StageSlot(i) < BackupSlot(i)
         /\ StageSlot(i) + 1 = BackupSlot(i)
         /\ BackupSlot(i) < RollbackSlot(p, i)
         /\ RollbackSlot(p, i) < DirectorySlot(p) /\ DirectorySlot(p) < JournalSlot(p)
         /\ NeedsStage(p.kinds[i]) <=> StageSlot(i) \in PreparationSlots(p)
         /\ NeedsBackup(p.kinds[i]) <=> BackupSlot(i) \in PreparationSlots(p)
         /\ NeedsContainer(p.kinds[i]) <=> RollbackSlot(p, i) \in RollbackSlots(p)
<1>1. Len(p.kinds) \in Nat /\ i \in 1 .. Len(p.kinds) /\ p.kinds[i] \in Kinds
  BY OpsAreNatural
<1>2. /\ StageSlot(i) = 2 * i - 1 /\ BackupSlot(i) = 2 * i
      /\ RollbackSlot(p, i) = 2 * Len(p.kinds) + i
      /\ DirectorySlot(p) = 3 * Len(p.kinds) + 1 /\ JournalSlot(p) = 3 * Len(p.kinds) + 2
  BY DEF StageSlot, BackupSlot, RollbackSlot, DirectorySlot, JournalSlot
<1>3. NeedsStage(p.kinds[i]) <=> StageSlot(i) \in PreparationSlots(p)
  BY <1>1 DEF PreparationSlots, StageSlot, BackupSlot, Ops
<1>4. NeedsBackup(p.kinds[i]) <=> BackupSlot(i) \in PreparationSlots(p)
  BY <1>1 DEF PreparationSlots, StageSlot, BackupSlot, Ops
<1>5. NeedsContainer(p.kinds[i]) <=> RollbackSlot(p, i) \in RollbackSlots(p)
  BY <1>1 DEF RollbackSlots, RollbackSlot, Ops
<1>6. QED
  BY <1>1, <1>2, <1>3, <1>4, <1>5

\* Moving the cursor of a cleanup from slot k, itself cleaned, to the next one
\* keeps everything below it clean: what has no slot was never there, or has
\* gone with the phase.
LEMMA CleanupAdvances ==
  ASSUME NEW p, WellFormed(p), NEW slots, NEW k \in Nat, NEW n \in Nat,
         NEW stages, NEW containers, NEW backups, NEW directory,
         PreparationSlots(p) \cup {DirectorySlot(p), JournalSlot(p)} \subseteq slots,
         \A l \in slots : l > k => n <= l,
         \A i \in Ops(p) :
           /\ ~ NeedsStage(p.kinds[i]) => stages[i] = "none"
           /\ ~ NeedsBackup(p.kinds[i]) => backups[i] = "none"
           /\ \/ RollbackSlot(p, i) \in slots
              \/ Unowned(containers[i]),
         \A i \in Ops(p) :
           /\ StageSlot(i) <= k => Unowned(stages[i])
           /\ BackupSlot(i) <= k => backups[i] = "none"
           /\ RollbackSlot(p, i) <= k => Unowned(containers[i]),
         DirectorySlot(p) <= k => ~ directory
  PROVE  CleanedBelow(p, n, stages, containers, backups, directory)
<1>1. ASSUME NEW i \in Ops(p), StageSlot(i) < n PROVE Unowned(stages[i])
  <2>1. CASE NeedsStage(p.kinds[i])
    <3>1. StageSlot(i) \in slots
      BY <2>1, SlotOrder
    <3>2. StageSlot(i) <= k
      BY <3>1, <1>1, SlotOrder
    <3>3. QED
      BY <3>2
  <2>2. CASE ~ NeedsStage(p.kinds[i])
    BY <2>2 DEF Unowned
  <2>3. QED
    BY <2>1, <2>2
<1>2. ASSUME NEW i \in Ops(p), BackupSlot(i) < n PROVE backups[i] = "none"
  <2>1. CASE NeedsBackup(p.kinds[i])
    <3>1. BackupSlot(i) \in slots
      BY <2>1, SlotOrder
    <3>2. BackupSlot(i) <= k
      BY <3>1, <1>2, SlotOrder
    <3>3. QED
      BY <3>2
  <2>2. CASE ~ NeedsBackup(p.kinds[i])
    BY <2>2
  <2>3. QED
    BY <2>1, <2>2
<1>3. ASSUME NEW i \in Ops(p), RollbackSlot(p, i) < n PROVE Unowned(containers[i])
  <2>1. CASE RollbackSlot(p, i) \in slots
    <3>1. RollbackSlot(p, i) <= k
      BY <2>1, <1>3, SlotOrder
    <3>2. QED
      BY <3>1
  <2>2. QED
    BY <2>1
<1>4. DirectorySlot(p) < n => ~ directory
  <2>1. DirectorySlot(p) \in Nat
    BY OpsAreNatural DEF DirectorySlot
  <2>2. QED
    BY <2>1
<1>5. QED
  BY <1>1, <1>2, <1>3, <1>4 DEF CleanedBelow

\* The installation and rollback cursors stay in the plan until they leave it.
LEMMA CursorResults ==
  ASSUME NEW p, WellFormed(p), NEW i \in 0 .. Len(p.kinds) + 1
  PROVE  /\ i <= Len(p.kinds) =>
              \/ /\ InstallAfter(p, i) = Continue("Verifying", 0, "ObservePostState")
                 /\ i = Len(p.kinds)
              \/ /\ InstallAfter(p, i) = Continue("Installing", i + 1, "ApplyOne")
                 /\ i + 1 \in Ops(p)
         /\ i >= 1 =>
              \/ /\ RollbackBefore(p, i) = Continue("NeedRestoredJournal", 0, "PersistJournal")
                 /\ RestoreBefore(p, i) = Continue("VerifyingRestored", 0, "ObserveAgain")
                 /\ i = 1
              \/ /\ RollbackBefore(p, i) = Continue("RollingBack", i - 1, "AttemptRollbackOne")
                 /\ RestoreBefore(p, i) = Continue("RollingBack", i - 1, "AttemptRollbackOne")
                 /\ i - 1 \in Ops(p)
<1>1. Len(p.kinds) \in Nat /\ Ops(p) = 1 .. Len(p.kinds)
  BY OpsAreNatural
<1>2. QED
  BY <1>1 DEF InstallAfter, RollbackBefore, RestoreBefore, PersistThen

-----------------------------------------------------------------------------
(* How a step of a command preserves the invariant.                         *)

\* The commands that wait while another one runs are applies.
LEMMA LockedCommandsWait ==
  ASSUME IInv, Locked, UNCHANGED waiting
  PROVE  WaitingInv'
<1>1. \A p \in Procs :
        \/ waiting[p] = Idle
        \/ AppliesIn(waiting[p])
  BY DEF IInv, WaitingInv
<1>2. QED
  BY <1>1 DEF WaitingInv, AppliesIn, Idle, Tx

\* A machine that goes on keeps the lock and the rest of its run.
LEMMA ReportContinues ==
  ASSUME run \in Runs, Locked, UNCHANGED plan, NEW e, Report(e),
         NEW s \in States \cup RecoveryStates, NEW k \in Nat, NEW f \in Effects,
         Successor(e) = Continue(s, k, f)
  PROVE  /\ run' \in Runs' /\ Locked'
         /\ run'.machine.state = s /\ run'.machine.cursor = k
         /\ run'.machine.awaiting = f /\ run'.busy = FALSE
         /\ run'.cmd = run.cmd /\ run'.tx = run.tx
         /\ run'.alloc = run.alloc /\ run'.mine = run.mine
<1>1. PICK m : m = Continue(s, k, f)
  OBVIOUS
<1>2. m \in Machines /\ m.state = s /\ m.cursor = k /\ m.awaiting = f /\ m.state \notin Terminals
  BY <1>1, ContinueIsMachine
<1>3. run' = [run EXCEPT !.machine = m, !.busy = FALSE]
  BY <1>1, <1>2 DEF Report
<1>4. run'.machine = m /\ run'.busy = FALSE /\ run'.cmd = run.cmd /\ run'.tx = run.tx
      /\ run'.alloc = run.alloc /\ run'.mine = run.mine
  BY <1>3 DEF Runs
<1>5. run' \in Runs'
  BY <1>2, <1>3 DEF Runs, Machines, Ops
<1>6. QED
  BY <1>2, <1>4, <1>5 DEF Locked

\* The command that holds the lock is in state s at cursor k, waiting for f,
\* and otherwise what it was.
Entered(s, k, f) ==
  /\ run' \in Runs' /\ Locked'
  /\ run'.machine.state = s /\ run'.machine.cursor = k
  /\ run'.machine.awaiting = f /\ run'.busy = FALSE
  /\ run'.cmd = run.cmd /\ run'.tx = run.tx

\* A machine that goes on enters its next state.
LEMMA ReportEnters ==
  ASSUME run \in Runs, Locked, UNCHANGED plan, NEW e, Report(e),
         NEW s \in States \cup RecoveryStates, NEW k \in Nat, NEW f \in Effects,
         Successor(e) = Continue(s, k, f)
  PROVE  Entered(s, k, f)
  BY ReportContinues DEF Entered

\* A failed effect ends the command.
LEMMA FailureEndsRun ==
  ASSUME run \in Runs, Fail
  PROVE  run' = NoRun
<1>1. Successor(EffectFailed(run.machine.awaiting)).state \in Terminals
  BY FailureStops DEF Successor, Runs, Terminals
<1>2. QED
  BY <1>1 DEF Fail, Report

\* The plan a command compiles is one the planner emits.
LEMMA PlanIsWellFormed ==
  ASSUME TypeOK
  PROVE  /\ WellFormed(plan) /\ Len(plan.kinds) \in Nat /\ Ops(plan) = 1 .. Len(plan.kinds)
         /\ \A i \in Ops(plan) : i \in Nat /\ plan.kinds[i] \in Kinds
<1>1. WellFormed(plan)
  BY PlansAssumption DEF TypeOK
<1>2. QED
  BY <1>1, OpsAreNatural

\* Nobody holds the lock: there is a run of nobody, and nothing to say of it.
LEMMA NobodyRuns ==
  ASSUME TypeOK, run' = NoRun, UNCHANGED plan
  PROVE  run' \in Runs' /\ ~ Locked' /\ RunInv'
<1>1. NoRun.machine \in Machines
  BY DEF NoRun, InitialMachine, Continue, Machines, States
<1>2. run'.cmd = "none"
  BY DEF NoRun
<1>3. run' \in Runs'
  BY <1>1, BoundsAssumption DEF NoRun, Runs, TypeOK, Tx, Machines
<1>4. ~ Locked'
  BY <1>2 DEF Locked
<1>5. QED
  BY <1>3, <1>4 DEF RunInv, ControlInv, TargetInv, PreparedInv, CleanedInv

\* What is said of the disk alone stays true of a disk that does not change.
LEMMA SameDisk ==
  ASSUME TypeOK, JournalInv, EvidenceInv, UNCHANGED <<plan, target, edited, evidence, journal>>
  PROVE  JournalInv' /\ EvidenceInv'
<1>1. UNCHANGED <<plan, target, edited, stage, container, backup, txdir, journal>>
  BY DEF evidence
<1>2. JournalInv'
  BY <1>1 DEF JournalInv, PlannedMeansUntouched, SealedMeansCandidate, RestoredMeansPreState,
     NoJournalMeansSettled, BackupUntilSettled, Untouched, NoJournal, Ops
<1>3. EvidenceInv'
  BY <1>1 DEF EvidenceInv, EvidenceIsJournaled, Unowned, Ops
<1>4. QED
  BY <1>2, <1>3

\* The types of what a step of a command leaves alone.
LEMMA SameTypes ==
  ASSUME IInv, run' \in Runs', pending' \in BOOLEAN,
         UNCHANGED <<plan, target, edited, evidence, journal, waiting>>
  PROVE  TypeOK'
<1>1. UNCHANGED <<plan, target, edited, stage, container, backup, txdir, journal, waiting>>
  BY DEF evidence
<1>2. /\ run'.machine.state \in States \cup RecoveryStates
      /\ run'.tx \in 0 .. MaxTx
      /\ run'.mine \subseteq Ops(plan)
  BY <1>1 DEF Runs, Machines, Ops
<1>3. QED
  BY <1>1, <1>2 DEF IInv, TypeOK, Ops

\* A step that changes nothing but its own run keeps the invariant if it
\* keeps what the invariant says of the run.
LEMMA RunKeepsInv ==
  ASSUME IInv, Locked, run' \in Runs', RunInv', pending' \in BOOLEAN,
         UNCHANGED <<plan, target, edited, evidence, journal, waiting, nextTx, edits>>,
         crashes' \in Nat
  PROVE  IInv'
<1>1. TypeOK'
  BY SameTypes
<1>2. JournalInv' /\ EvidenceInv'
  BY SameDisk DEF IInv
<1>3. WaitingInv'
  BY LockedCommandsWait
<1>4. QED
  BY <1>1, <1>2, <1>3 DEF IInv

\* The end of a command keeps the invariant.
LEMMA StopKeepsInv ==
  ASSUME IInv, Locked, run' = NoRun, pending' \in BOOLEAN,
         UNCHANGED <<plan, target, edited, evidence, journal, waiting, nextTx, edits>>,
         crashes' \in Nat
  PROVE  IInv'
  BY NobodyRuns, RunKeepsInv DEF IInv

-----------------------------------------------------------------------------
(* Initially, observing and taking the lock.                                *)

\* The initial state satisfies the invariant.
LEMMA InitHolds == Init => IInv
<1> SUFFICES ASSUME Init PROVE IInv
  OBVIOUS
<1>1. run.cmd = "none" /\ ~ Locked
  BY DEF Init, NoRun, Locked
<1>2. RunInv
  BY <1>1 DEF RunInv, ControlInv, TargetInv, PreparedInv, CleanedInv
<1>3. NoRun.machine \in Machines
  BY DEF NoRun, InitialMachine, Continue, Machines, States
<1>4. run \in Runs
  BY <1>3, BoundsAssumption DEF Init, NoRun, Runs
<1>5. journal.phase = "none" /\ journal.tx = 0 /\ journal = NoJournal
  BY DEF Init, NoJournal
<1>6. TypeOK
  <2>1. /\ target \in [Ops(plan) -> PathStates]
        /\ stage \in [Tx -> [Ops(plan) -> Levels]]
        /\ container \in [Tx -> [Ops(plan) -> Levels]]
        /\ backup \in [Tx -> [Ops(plan) -> {"none", "partial", "full"}]]
    BY DEF Init, PathStates, Levels
  <2>2. /\ journal \in [phase : Phases \cup {"none"}, tx : 0 .. MaxTx, extra : BOOLEAN]
        /\ waiting \in [Procs -> [cmd : {"none", "apply", "recover"}, tx : 0 .. MaxTx,
                                  decision : RecoveryDecisions \cup {"none"}, extra : BOOLEAN]]
    BY BoundsAssumption DEF Init, NoJournal, Idle
  <2>3. QED
    BY <1>4, <2>1, <2>2 DEF Init, TypeOK, Runs, Machines
<1>7. JournalInv
  BY <1>5 DEF Init, JournalInv, PlannedMeansUntouched, SealedMeansCandidate,
     RestoredMeansPreState, NoJournalMeansSettled, BackupUntilSettled
<1>8. EvidenceInv
  BY <1>5 DEF Init, EvidenceInv, EvidenceIsJournaled, Unowned
<1>9. WaitingInv
  BY DEF Init, WaitingInv
<1>10. QED
  BY <1>2, <1>4, <1>6, <1>7, <1>8, <1>9 DEF IInv, Init

\* The invariant of a run depends on the disk and the run only.
LEMMA SameRun ==
  ASSUME RunInv, UNCHANGED <<plan, target, edited, evidence, journal, run>>
  PROVE  RunInv'
<1>1. UNCHANGED <<plan, target, edited, stage, container, backup, txdir, journal, run>>
  BY DEF evidence
<1>2. ControlInv'
  BY <1>1 DEF RunInv, ControlInv, Locked, NoJournal, Inventory
<1>3. TargetInv'
  BY <1>1 DEF RunInv, TargetInv, Locked, AllUntouched, Untouched, Ops
<1>4. PreparedInv'
  BY <1>1 DEF RunInv, PreparedInv, Locked, Ops, Unowned
<1>5. CleanedInv'
  BY <1>1 DEF RunInv, CleanedInv, Locked
<1>6. QED
  BY <1>2, <1>3, <1>4, <1>5 DEF RunInv

\* What a recovery decision says of the state root it was taken from.
LEMMA DecisionMeans ==
  ASSUME JournalInv, RecoveryDecision # "NoRecoveryNeeded"
  PROVE  \/ /\ RecoveryDecision = "DiscardStalePending"
            /\ journal = NoJournal /\ journal.tx = 0
         \/ /\ journal # NoJournal /\ journal.tx \in Tx
            /\ \/ RecoveryDecision = "DiscardPreparation" /\ journal.phase = "planned"
               \/ RecoveryDecision = "RollBack" /\ journal.phase = "mutating"
               \/ RecoveryDecision = "FinishRollbackCleanup" /\ journal.phase = "restored"
               \/ RecoveryDecision = "FinishForward" /\ journal.phase = "sealed"
<1>1. CASE journal = NoJournal
  BY <1>1 DEF RecoveryDecision, Classification, NoJournal
<1>2. CASE journal # NoJournal
  <2>1. journal.phase \in Phases /\ journal.tx \in Tx
    BY <1>2 DEF JournalInv
  <2>2. RecoveryDecision = PhaseDecision[journal.phase]
    BY <1>2 DEF RecoveryDecision, Classification
  <2>3. QED
    BY <1>2, <2>1, <2>2 DEF PhaseDecision, Phases
<1>3. QED
  BY <1>1, <1>2

\* An apply that has observed a clean state root waits for the lock.
LEMMA ApplyObserveStep ==
  ASSUME IInv, ~ Overlap, NEW p \in Procs, ApplyObserve(p)
  PROVE  IInv'
<1>1. /\ waiting' = [waiting EXCEPT ![p] = [Idle EXCEPT !.cmd = "apply", !.tx = nextTx]]
      /\ nextTx \in Tx /\ nextTx' = nextTx + 1
      /\ UNCHANGED <<plan, target, edited, evidence, journal, pending, run, crashes, edits>>
      /\ MayStart("apply")
  BY DEF ApplyObserve
<1>2. UNCHANGED <<stage, container, backup, txdir>>
  BY <1>1 DEF evidence
<1>3. PICK w : w = [Idle EXCEPT !.cmd = "apply", !.tx = nextTx]
  OBVIOUS
<1>4. waiting' = [waiting EXCEPT ![p] = w]
  BY <1>1, <1>3
<1>5. waiting \in [Procs -> [cmd : {"none", "apply", "recover"}, tx : 0 .. MaxTx,
                             decision : RecoveryDecisions \cup {"none"}, extra : BOOLEAN]]
  BY DEF IInv, TypeOK
<1>6. TypeOK'
  <2>1. waiting' \in [Procs -> [cmd : {"none", "apply", "recover"}, tx : 0 .. MaxTx,
                                decision : RecoveryDecisions \cup {"none"}, extra : BOOLEAN]]
    <3>1. w \in [cmd : {"none", "apply", "recover"}, tx : 0 .. MaxTx,
                 decision : RecoveryDecisions \cup {"none"}, extra : BOOLEAN]
      <4>1. Idle \in [cmd : {"none", "apply", "recover"}, tx : 0 .. MaxTx,
                      decision : RecoveryDecisions \cup {"none"}, extra : BOOLEAN]
        BY BoundsAssumption DEF Idle
      <4>2. nextTx \in 0 .. MaxTx
        BY <1>1, BoundsAssumption DEF Tx
      <4>3. QED
        BY <1>3, <4>1, <4>2
    <3>2. QED
      BY <1>4, <1>5, <3>1
  <2>2. QED
    BY <1>1, <1>2, <2>1 DEF IInv, TypeOK, Ops
<1>7. WaitingInv'
  <2>1. \A q \in Procs : waiting[q].cmd # "recover"
    BY <1>1 DEF MayStart
  <2>2. \A q \in Procs :
          \/ waiting[q] = Idle
          \/ AppliesIn(waiting[q])
    BY <2>1 DEF IInv, WaitingInv
  <2>3. \A q \in Procs : waiting'[q] = (IF q = p THEN w ELSE waiting[q])
    BY <1>4, <1>5
  <2>4. QED
    BY <1>1, <1>3, <2>2, <2>3 DEF WaitingInv, AppliesIn, Idle, Tx
<1>8. JournalInv' /\ EvidenceInv'
  BY <1>1, SameDisk DEF IInv
<1>9. RunInv' /\ run' \in Runs'
  BY <1>1, SameRun DEF IInv, Runs, Ops
<1>10. nextTx' \in Nat /\ crashes' \in Nat /\ edits' \in Nat
  BY <1>1 DEF IInv
<1>11. QED
  BY <1>6, <1>7, <1>8, <1>9, <1>10 DEF IInv

\* A recover that has observed a journal waits alone for the lock.
LEMMA RecoverObserveStep ==
  ASSUME IInv, ~ Overlap, NEW p \in Procs, RecoverObserve(p)
  PROVE  IInv'
<1>1. /\ waiting' = [waiting EXCEPT ![p] =
           [cmd |-> "recover", tx |-> journal.tx, decision |-> RecoveryDecision,
            extra |-> journal.extra]]
      /\ RecoveryDecision # "NoRecoveryNeeded"
      /\ UNCHANGED <<plan, target, edited, evidence, journal, pending, run, nextTx,
                     crashes, edits>>
      /\ MayStart("recover")
  BY DEF RecoverObserve
<1>2. UNCHANGED <<stage, container, backup, txdir>>
  BY <1>1 DEF evidence
<1>3. PICK w : w = [cmd |-> "recover", tx |-> journal.tx, decision |-> RecoveryDecision,
                    extra |-> journal.extra]
  OBVIOUS
<1>4. waiting' = [waiting EXCEPT ![p] = w]
  BY <1>1, <1>3
<1>5. waiting \in [Procs -> [cmd : {"none", "apply", "recover"}, tx : 0 .. MaxTx,
                             decision : RecoveryDecisions \cup {"none"}, extra : BOOLEAN]]
  BY DEF IInv, TypeOK
<1>6. TypeOK'
  <2>1. RecoveryDecision \in RecoveryDecisions
    BY <1>1, DecisionMeans DEF IInv, RecoveryDecisions
  <2>2. journal.tx \in 0 .. MaxTx /\ journal.extra \in BOOLEAN
    BY DEF IInv, TypeOK
  <2>3. waiting' \in [Procs -> [cmd : {"none", "apply", "recover"}, tx : 0 .. MaxTx,
                                decision : RecoveryDecisions \cup {"none"}, extra : BOOLEAN]]
    BY <1>3, <1>4, <1>5, <2>1, <2>2
  <2>4. QED
    BY <1>1, <1>2, <2>3 DEF IInv, TypeOK, Ops
<1>7. WaitingInv'
  <2>1. ~ Locked /\ \A q \in Procs : waiting[q] = Idle
    BY <1>1 DEF MayStart
  <2>2. \A q \in Procs : waiting'[q] = (IF q = p THEN w ELSE Idle)
    BY <1>4, <1>5, <2>1
  <2>3. RecoveryDecision' = RecoveryDecision
    BY <1>1, <1>2 DEF RecoveryDecision, Classification, NoJournal
  <2>4. ~ Locked' /\ journal' = journal
    BY <1>1, <2>1 DEF Locked
  <2>5. waiting'[p] = [cmd |-> "recover", tx |-> journal'.tx, decision |-> RecoveryDecision',
                       extra |-> journal'.extra]
    BY <1>3, <2>2, <2>3, <2>4
  <2>6. Idle' = Idle
    BY DEF Idle
  <2>7. QED
    BY <1>1, <2>2, <2>3, <2>4, <2>5, <2>6 DEF WaitingInv
<1>8. JournalInv' /\ EvidenceInv'
  BY <1>1, SameDisk DEF IInv
<1>9. RunInv' /\ run' \in Runs'
  BY <1>1, SameRun DEF IInv, Runs, Ops
<1>10. QED
  BY <1>1, <1>6, <1>7, <1>8, <1>9 DEF IInv

\* A command that finds the lock held gives up.
LEMMA RefuseLockStep ==
  ASSUME IInv, NEW p \in Procs, RefuseLock(p)
  PROVE  IInv'
<1>1. /\ waiting' = [waiting EXCEPT ![p] = Idle] /\ Locked
      /\ UNCHANGED <<plan, target, edited, evidence, journal, pending, run, nextTx,
                     crashes, edits>>
  BY DEF RefuseLock
<1>2. UNCHANGED <<stage, container, backup, txdir>>
  BY <1>1 DEF evidence
<1>3. TypeOK'
  <2>1. waiting' \in [Procs -> [cmd : {"none", "apply", "recover"}, tx : 0 .. MaxTx,
                                decision : RecoveryDecisions \cup {"none"}, extra : BOOLEAN]]
    BY <1>1, BoundsAssumption DEF IInv, TypeOK, Idle
  <2>2. QED
    BY <1>1, <1>2, <2>1 DEF IInv, TypeOK, Ops
<1>4. WaitingInv'
  <2>1. \A q \in Procs : waiting'[q] = (IF q = p THEN Idle ELSE waiting[q])
    BY <1>1 DEF IInv, TypeOK
  <2>2. \A q \in Procs :
          \/ waiting[q] = Idle
          \/ AppliesIn(waiting[q])
    BY <1>1 DEF IInv, WaitingInv
  <2>3. QED
    BY <2>1, <2>2 DEF WaitingInv, AppliesIn, Idle, Tx
<1>5. JournalInv' /\ EvidenceInv'
  BY <1>1, SameDisk DEF IInv
<1>6. RunInv' /\ run' \in Runs'
  BY <1>1, SameRun DEF IInv, Runs, Ops
<1>7. QED
  BY <1>1, <1>3, <1>4, <1>5, <1>6 DEF IInv

-----------------------------------------------------------------------------
(* Entering the states of the grammar.                                      *)

\* The phase and the inventory of each cleanup.
CleanupPhase(state) ==
  CASE state = "Discarding" -> "planned"
    [] state = "CleaningRollback" -> "restored"
    [] OTHER -> "sealed"

\* A command goes on cleaning at slot n after slot k, where everything up to k
\* is clean: what has no slot in the inventory of the phase is clean as well.
LEMMA EntersCleaning ==
  ASSUME plan' \in Plans, EvidenceInv', run' \in Runs', Locked',
         NEW s \in CleaningStates, NEW k \in Nat, NEW n \in Inventory(s)', n \in Nat,
         run'.machine.state = s, run'.machine.cursor = n, run'.machine.awaiting = "CleanOne",
         run'.cmd = "apply" => s # "Discarding",
         run'.tx \in Tx, journal'.tx = run'.tx, journal'.phase = CleanupPhase(s),
         \A l \in Inventory(s)' : l > k => n <= l,
         \A i \in Ops(plan') :
           /\ StageSlot(i) <= k => Unowned(stage'[run'.tx][i])
           /\ BackupSlot(i) <= k => backup'[run'.tx][i] = "none"
           /\ RollbackSlot(plan', i) <= k => Unowned(container'[run'.tx][i]),
         DirectorySlot(plan') <= k => run'.tx \notin txdir'
  PROVE  RunInv'
<1>1. WellFormed(plan')
  BY PlansAssumption
<1>2. PICK p : p = plan'
  OBVIOUS
<1>3. PICK slots : slots = Inventory(s)'
  OBVIOUS
<1>4. /\ s = "Discarding" => slots = DiscardSlots(p)
      /\ s = "CleaningRollback" => slots = CleanupSlots(p, "restored")
      /\ s = "CleaningForward" => slots = CleanupSlots(p, "sealed")
  BY <1>2, <1>3 DEF Inventory
<1>5. PreparationSlots(p) \cup {DirectorySlot(p), JournalSlot(p)} \subseteq slots
  BY <1>4 DEF CleaningStates, DiscardSlots, CleanupSlots
<1>6. \A i \in Ops(p) :
        /\ ~ NeedsStage(p.kinds[i]) => stage'[run'.tx][i] = "none"
        /\ ~ NeedsBackup(p.kinds[i]) => backup'[run'.tx][i] = "none"
        /\ ~ NeedsContainer(p.kinds[i]) => container'[run'.tx][i] = "none"
  BY <1>2 DEF EvidenceInv, Tx
<1>7. \A i \in Ops(p) : RollbackSlot(p, i) \in slots \/ Unowned(container'[run'.tx][i])
  <2>1. CASE s = "CleaningRollback"
    <3>1. RollbackSlots(p) \subseteq slots
      BY <1>4, <2>1 DEF CleanupSlots
    <3>2. QED
      BY <1>1, <1>2, <1>6, <3>1, SlotOrder DEF Unowned
  <2>2. CASE s # "CleaningRollback"
    <3>1. journal'.phase \in {"planned", "sealed"}
      BY <2>2 DEF CleanupPhase, CleaningStates
    <3>2. \A i \in Ops(plan') : Unowned(container'[run'.tx][i])
      BY <3>1 DEF EvidenceInv
    <3>3. QED
      BY <1>2, <3>2
  <2>3. QED
    BY <2>1, <2>2
<1>8. CleanedBelow(p, n, stage'[run'.tx], container'[run'.tx], backup'[run'.tx],
                   run'.tx \in txdir')
  BY <1>1, <1>2, <1>3, <1>5, <1>6, <1>7, CleanupAdvances
<1>9. CleanedInv'
  BY <1>2, <1>8 DEF CleanedInv
<1>10. ControlInv'
  <2>1. EffectOf'[s] = "CleanOne"
    BY DEF EffectOf, CleaningStates
  <2>2. s \in States \cup RecoveryStates
    BY DEF CleaningStates, States, RecoveryStates
  <2>3. s \in (IF run'.cmd = "apply" THEN States \ {"NeedLock"} ELSE RecoveryStates)
    BY DEF CleaningStates, States, RecoveryStates
  <2>4. /\ s = "Discarding" => journal'.phase = "planned"
        /\ s = "CleaningRollback" => journal'.phase = "restored"
        /\ s = "CleaningForward" => journal'.phase = "sealed"
    BY DEF CleanupPhase
  <2>5. QED
    BY <2>1, <2>3, <2>4 DEF ControlInv, CleaningStates, UnjournaledStates, PlannedStates,
       MutatingStates, RestoredStates, SealedStates, Tx
<1>11. TargetInv' /\ PreparedInv'
  BY DEF TargetInv, PreparedInv, CleaningStates
<1>12. QED
  BY <1>9, <1>10, <1>11 DEF RunInv

\* The states of which nothing but the control and the journal's phase is
\* said.
LEMMA EntersPlainState ==
  ASSUME NEW s \in {"Installing", "Verifying", "VerifyingRestored", "NeedSealedJournal",
                    "NeedRestoredJournal", "ConfirmingRestored", "ConfirmingSealed",
                    "Releasing", "DiscardingPending"},
         Locked',
         run'.cmd = "apply" => s \in States,
         run'.cmd # "apply" => s \in RecoveryStates,
         run'.machine.state = s, run'.machine.cursor \in Inventory(s)',
         run'.machine.awaiting = EffectOf[s],
         s \notin {"DiscardingPending", "Releasing"} => run'.tx \in Tx,
         s \in UnjournaledStates => journal' = NoJournal,
         s \in MutatingStates => journal'.phase = "mutating",
         s \in RestoredStates => journal'.phase = "restored",
         s \in SealedStates => journal'.phase = "sealed",
         s \notin UnjournaledStates => journal'.tx = run'.tx,
         s \in {"VerifyingRestored", "NeedRestoredJournal"} => AllUntouched("old")',
         s = "NeedSealedJournal" => AllUntouched("new")',
         s \in {"Installing", "Verifying", "NeedSealedJournal"} =>
           \A i \in Ops(plan') : Unowned(container'[run'.tx][i])
  PROVE  RunInv'
<1>1. ControlInv'
  BY DEF ControlInv, UnjournaledStates, PlannedStates, MutatingStates, RestoredStates,
     SealedStates, Tx, EffectOf, NoJournal
<1>2. TargetInv' /\ PreparedInv' /\ CleanedInv'
  BY DEF TargetInv, PreparedInv, CleanedInv, CleaningStates, Unowned
<1>3. QED
  BY <1>1, <1>2 DEF RunInv

\* A rollback at operation i, everything after it being restored.
LEMMA EntersRollingBack ==
  ASSUME Locked', run'.machine.state = "RollingBack", run'.machine.cursor \in Ops(plan'),
         run'.machine.awaiting = "AttemptRollbackOne", ~ run'.busy,
         run'.tx \in Tx, journal'.phase = "mutating", journal'.tx = run'.tx,
         \A i \in Ops(plan') :
           i > run'.machine.cursor /\ i \notin edited' => target'[i] = "old"
  PROVE  RunInv'
<1>1. ControlInv'
  BY DEF ControlInv, UnjournaledStates, PlannedStates, MutatingStates, RestoredStates,
     SealedStates, Tx, EffectOf, NoJournal, States, RecoveryStates, Inventory
<1>2. TargetInv' /\ PreparedInv' /\ CleanedInv'
  BY DEF TargetInv, PreparedInv, CleanedInv, CleaningStates, Untouched
<1>3. QED
  BY <1>1, <1>2 DEF RunInv

-----------------------------------------------------------------------------
(* Taking the lock.                                                         *)

\* The machine of an apply that has the lock asks to observe again.
LEMMA LockedMachineObserves ==
  LockedMachine = Continue("NeedRevalidation", 0, "ObserveAgain")
<1>1. InitialMachine.state = "NeedLock"
  BY DEF InitialMachine, Continue
<1>2. StepTransaction(plan, "pass", InitialMachine, Start)
        = Continue("NeedRevalidation", 0, "AcquireLock")
  BY <1>1 DEF StepTransaction, Start
<1>3. PICK m : m = Continue("NeedRevalidation", 0, "AcquireLock")
  OBVIOUS
<1>4. m.state = "NeedRevalidation" /\ m.awaiting = "AcquireLock"
  BY <1>3 DEF Continue
<1>5. StepTransaction(plan, "pass", m, LockAcquired)
        = Continue("NeedRevalidation", 0, "ObserveAgain")
  BY <1>4 DEF StepTransaction, LockAcquired
<1>6. QED
  BY <1>2, <1>3, <1>5 DEF LockedMachine

\* The machine of a recovery starts in the state of its decision.
LEMMA RecoveryStarts ==
  ASSUME NEW p, WellFormed(p), NEW d
  PROVE  /\ d = "DiscardStalePending" =>
              StartRecovery(p, d) = Continue("DiscardingPending", 0, "DiscardPending")
         /\ d = "DiscardPreparation" => StartRecovery(p, d) = DiscardAfter(p, 0)
         /\ d = "RollBack" => StartRecovery(p, d) = RestoreBefore(p, Len(p.kinds) + 1)
         /\ d = "FinishRollbackCleanup" =>
              StartRecovery(p, d) = Continue("ConfirmingRestored", 0, "ObserveAgain")
         /\ d = "FinishForward" =>
              StartRecovery(p, d) = Continue("ConfirmingSealed", 0, "ObserveAgain")
  BY DEF StartRecovery

\* The run of a command that has just taken the lock.
LEMMA RunStarts ==
  ASSUME IInv, NEW p \in Procs, waiting[p] # Idle, ~ Locked, UNCHANGED plan,
         NEW m \in Machines,
         run' = [NoRun EXCEPT
           !.cmd = waiting[p].cmd, !.tx = waiting[p].tx, !.extra = waiting[p].extra,
           !.machine = m,
           !.alloc = waiting[p].decision = "RollBack" /\ RollbackSlots(plan) # {}]
  PROVE  /\ run' \in Runs' /\ Locked'
         /\ run'.cmd = waiting[p].cmd /\ run'.tx = waiting[p].tx /\ run'.machine = m
         /\ ~ run'.busy
         /\ run'.cmd \in {"apply", "recover"}
<1>1. NoRun \in Runs
  <2>1. NoRun.machine \in Machines
    BY DEF NoRun, InitialMachine, Continue, Machines, States
  <2>2. QED
    BY <2>1, BoundsAssumption DEF NoRun, Runs
<1>2. /\ waiting[p].cmd \in {"apply", "recover"}
      /\ waiting[p].tx \in 0 .. MaxTx /\ waiting[p].extra \in BOOLEAN
  <2>1. waiting[p] \in [cmd : {"none", "apply", "recover"}, tx : 0 .. MaxTx,
                        decision : RecoveryDecisions \cup {"none"}, extra : BOOLEAN]
    BY DEF IInv, TypeOK
  <2>2. waiting[p].cmd \in {"apply", "recover"}
    BY DEF IInv, WaitingInv, AppliesIn
  <2>3. QED
    BY <2>1, <2>2
<1>3. NoRun.busy = FALSE
  BY DEF NoRun
<1>4. PICK a \in BOOLEAN : a = (waiting[p].decision = "RollBack" /\ RollbackSlots(plan) # {})
  OBVIOUS
<1>5. run' = [NoRun EXCEPT !.cmd = waiting[p].cmd, !.tx = waiting[p].tx,
                           !.extra = waiting[p].extra, !.machine = m, !.alloc = a]
  BY <1>4
<1>6. /\ run'.cmd = waiting[p].cmd /\ run'.tx = waiting[p].tx /\ run'.machine = m
      /\ ~ run'.busy
  BY <1>1, <1>3, <1>5 DEF Runs
<1>7. run' \in Runs'
  BY <1>1, <1>2, <1>5 DEF Runs, Machines, Ops
<1>8. QED
  BY <1>2, <1>6, <1>7 DEF Locked

\* An apply takes the lock: what it knows, it checks again.
LEMMA ApplyTakesLock ==
  ASSUME IInv, NEW p \in Procs, TakeLock(p), AppliesIn(waiting[p])
  PROVE  run' \in Runs' /\ RunInv' /\ Locked'
<1>1. UNCHANGED plan /\ waiting[p] # Idle /\ ~ Locked
  BY DEF TakeLock
<1>2. waiting[p].cmd = "apply" /\ waiting[p].tx \in Tx
  BY DEF AppliesIn
<1>3. PICK m : m = LockedMachine
  OBVIOUS
<1>4. /\ m \in Machines /\ m.state = "NeedRevalidation" /\ m.cursor = 0
      /\ m.awaiting = "ObserveAgain"
  BY <1>3, LockedMachineObserves, ContinueIsMachine DEF States, Effects
<1>5. run' = [NoRun EXCEPT
           !.cmd = waiting[p].cmd, !.tx = waiting[p].tx, !.extra = waiting[p].extra,
           !.machine = m,
           !.alloc = waiting[p].decision = "RollBack" /\ RollbackSlots(plan) # {}]
  BY <1>2, <1>3 DEF TakeLock
<1>6. /\ run' \in Runs' /\ Locked' /\ run'.cmd = "apply" /\ run'.tx \in Tx
      /\ run'.machine = m
  BY <1>1, <1>2, <1>4, <1>5, RunStarts
<1>7. ControlInv'
  BY <1>4, <1>6 DEF ControlInv, States, EffectOf, Inventory, UnjournaledStates, PlannedStates,
     MutatingStates, RestoredStates, SealedStates, Tx
<1>8. TargetInv' /\ PreparedInv' /\ CleanedInv'
  BY <1>4, <1>6 DEF TargetInv, PreparedInv, CleanedInv, CleaningStates
<1>9. QED
  BY <1>6, <1>7, <1>8 DEF RunInv

\* A recover takes the lock: what it observed is still what the journal says.
LEMMA RecoverTakesLock ==
  ASSUME IInv, NEW p \in Procs, TakeLock(p), ~ AppliesIn(waiting[p])
  PROVE  run' \in Runs' /\ RunInv' /\ Locked'
<1>1. /\ UNCHANGED <<plan, target, edited, evidence, journal>>
      /\ waiting[p] # Idle /\ ~ Locked
  BY DEF TakeLock
<1>2. UNCHANGED <<plan, target, edited, stage, container, backup, txdir, journal>>
  BY <1>1 DEF evidence
<1>3. /\ waiting[p].cmd = "recover" /\ waiting[p].tx = journal.tx
      /\ waiting[p].decision = RecoveryDecision /\ RecoveryDecision # "NoRecoveryNeeded"
  BY <1>1 DEF IInv, WaitingInv
<1>4. WellFormed(plan) /\ Len(plan.kinds) \in Nat /\ Ops(plan) = 1 .. Len(plan.kinds)
  BY PlanIsWellFormed DEF IInv
<1>5. PICK m : m = StartRecovery(plan, RecoveryDecision)
  OBVIOUS
<1>6. run' = [NoRun EXCEPT
           !.cmd = waiting[p].cmd, !.tx = waiting[p].tx, !.extra = waiting[p].extra,
           !.machine = m,
           !.alloc = waiting[p].decision = "RollBack" /\ RollbackSlots(plan) # {}]
  BY <1>3, <1>5 DEF TakeLock
<1>7. ASSUME m \in Machines
      PROVE  /\ run' \in Runs' /\ Locked' /\ run'.cmd = "recover" /\ run'.tx = journal.tx
             /\ run'.machine = m /\ ~ run'.busy
  BY <1>1, <1>3, <1>6, <1>7, RunStarts
<1>8. EvidenceInv' /\ JournalInv' /\ plan' \in Plans
  BY <1>1, SameDisk DEF IInv, TypeOK
<1>9. CASE RecoveryDecision = "DiscardStalePending" /\ journal = NoJournal
  <2>1. m = Continue("DiscardingPending", 0, "DiscardPending")
    BY <1>4, <1>5, <1>9, RecoveryStarts
  <2>2. /\ m \in Machines /\ m.state = "DiscardingPending" /\ m.cursor = 0
        /\ m.awaiting = "DiscardPending"
    BY <2>1, ContinueIsMachine DEF RecoveryStates
  <2>3. /\ run' \in Runs' /\ Locked' /\ run'.cmd = "recover" /\ run'.machine = m
    BY <1>7, <2>2
  <2>4. RunInv'
    BY <1>1, <1>9, <2>2, <2>3, EntersPlainState
    DEF RecoveryStates, Inventory, EffectOf, UnjournaledStates, MutatingStates,
        RestoredStates, SealedStates, NoJournal
  <2>5. QED
    BY <2>3, <2>4
<1>10. CASE /\ RecoveryDecision = "DiscardPreparation" /\ journal.phase = "planned"
            /\ journal.tx \in Tx
  <2>1. m = DiscardAfter(plan, 0)
    BY <1>4, <1>5, <1>10, RecoveryStarts
  <2>2. JournalSlot(plan) \in DiscardSlots(plan) /\ ~ (JournalSlot(plan) <= 0)
    BY <1>4 DEF DiscardSlots, JournalSlot
  <2>3. PICK n \in DiscardSlots(plan) :
          /\ m = Continue("Discarding", n, "CleanOne")
          /\ n \in Nat /\ \A l \in DiscardSlots(plan) : l > 0 => n <= l
    BY <1>4, <2>1, <2>2, DiscardAfterResult
  <2>4. m \in Machines /\ m.state = "Discarding" /\ m.cursor = n /\ m.awaiting = "CleanOne"
    BY <2>3, ContinueIsMachine DEF RecoveryStates, Effects
  <2>5. /\ run' \in Runs' /\ Locked' /\ run'.cmd = "recover" /\ run'.machine = m
        /\ run'.tx = journal.tx
    BY <1>7, <2>4
  <2>6. \A i \in Ops(plan') : ~ (StageSlot(i) <= 0) /\ ~ (BackupSlot(i) <= 0)
                                /\ ~ (RollbackSlot(plan', i) <= 0)
    BY <1>1, <1>4, SlotOrder
  <2>7. ~ (DirectorySlot(plan') <= 0)
    BY <1>1, <1>4 DEF DirectorySlot
  <2>8. Inventory("Discarding")' = DiscardSlots(plan)
    BY <1>1 DEF Inventory
  <2>9. "Discarding" \in CleaningStates /\ CleanupPhase("Discarding") = "planned"
    BY DEF CleaningStates, CleanupPhase
  <2>10. RunInv'
    BY <1>1, <1>8, <1>10, <2>3, <2>4, <2>5, <2>6, <2>7, <2>8, <2>9, EntersCleaning
  <2>11. QED
    BY <2>5, <2>10
<1>11. CASE /\ RecoveryDecision = "RollBack" /\ journal.phase = "mutating"
            /\ journal.tx \in Tx
  <2>1. m = RestoreBefore(plan, Len(plan.kinds) + 1)
    BY <1>4, <1>5, <1>11, RecoveryStarts
  <2>2. CASE /\ m = Continue("VerifyingRestored", 0, "ObserveAgain")
             /\ Len(plan.kinds) + 1 = 1
    <3>1. /\ m \in Machines /\ m.state = "VerifyingRestored" /\ m.cursor = 0
          /\ m.awaiting = "ObserveAgain"
      BY <2>2, ContinueIsMachine DEF RecoveryStates, Effects
    <3>2. /\ run' \in Runs' /\ Locked' /\ run'.cmd = "recover" /\ run'.machine = m
          /\ run'.tx = journal.tx
      BY <1>7, <3>1
    <3>3. AllUntouched("old")'
      BY <1>1, <1>4, <2>2 DEF AllUntouched
    <3>4. RunInv'
      BY <1>1, <1>11, <3>1, <3>2, <3>3, EntersPlainState
      DEF RecoveryStates, Inventory, EffectOf, UnjournaledStates, MutatingStates,
          RestoredStates, SealedStates
    <3>5. QED
      BY <3>2, <3>4
  <2>3. CASE /\ m = Continue("RollingBack", Len(plan.kinds), "AttemptRollbackOne")
             /\ Len(plan.kinds) \in Ops(plan)
    <3>1. /\ m \in Machines /\ m.state = "RollingBack" /\ m.cursor = Len(plan.kinds)
          /\ m.awaiting = "AttemptRollbackOne"
      <4>1. "RollingBack" \in RecoveryStates /\ "AttemptRollbackOne" \in Effects
        BY DEF RecoveryStates, Effects
      <4>2. QED
        BY <1>4, <2>3, <4>1, ContinueIsMachine
    <3>2. /\ run' \in Runs' /\ Locked' /\ run'.cmd = "recover" /\ run'.machine = m
          /\ run'.tx = journal.tx /\ ~ run'.busy
      BY <1>7, <3>1
    <3>3. \A i \in Ops(plan') : ~ (i > run'.machine.cursor)
      BY <1>1, <1>4, <3>1, <3>2
    <3>4. RunInv'
      BY <1>1, <1>11, <2>3, <3>1, <3>2, <3>3, EntersRollingBack
    <3>5. QED
      BY <3>2, <3>4
  <2>4. QED
    <3>1. Len(plan.kinds) + 1 \in 0 .. Len(plan.kinds) + 1
      BY <1>4
    <3>2. \/ /\ m = Continue("VerifyingRestored", 0, "ObserveAgain")
             /\ Len(plan.kinds) + 1 = 1
          \/ /\ m = Continue("RollingBack", Len(plan.kinds) + 1 - 1, "AttemptRollbackOne")
             /\ Len(plan.kinds) + 1 - 1 \in Ops(plan)
      BY <1>4, <2>1, <3>1, CursorResults
    <3>3. Len(plan.kinds) + 1 - 1 = Len(plan.kinds)
      BY <1>4
    <3>4. QED
      BY <2>2, <2>3, <3>2, <3>3
<1>12. CASE /\ RecoveryDecision = "FinishRollbackCleanup" /\ journal.phase = "restored"
            /\ journal.tx \in Tx
  <2>1. m = Continue("ConfirmingRestored", 0, "ObserveAgain")
    BY <1>4, <1>5, <1>12, RecoveryStarts
  <2>2. /\ m \in Machines /\ m.state = "ConfirmingRestored" /\ m.cursor = 0
        /\ m.awaiting = "ObserveAgain"
    <3>1. "ConfirmingRestored" \in RecoveryStates /\ "ObserveAgain" \in Effects
      BY DEF RecoveryStates, Effects
    <3>2. QED
      BY <2>1, <3>1, ContinueIsMachine
  <2>3. /\ run' \in Runs' /\ Locked' /\ run'.cmd = "recover" /\ run'.machine = m
        /\ run'.tx = journal.tx
    BY <1>7, <2>2
  <2>4. RunInv'
    BY <1>1, <1>12, <2>2, <2>3, EntersPlainState
    DEF RecoveryStates, Inventory, EffectOf, UnjournaledStates, MutatingStates,
        RestoredStates, SealedStates
  <2>5. QED
    BY <2>3, <2>4
<1>13. CASE /\ RecoveryDecision = "FinishForward" /\ journal.phase = "sealed"
            /\ journal.tx \in Tx
  <2>1. m = Continue("ConfirmingSealed", 0, "ObserveAgain")
    BY <1>4, <1>5, <1>13, RecoveryStarts
  <2>2. /\ m \in Machines /\ m.state = "ConfirmingSealed" /\ m.cursor = 0
        /\ m.awaiting = "ObserveAgain"
    <3>1. "ConfirmingSealed" \in RecoveryStates /\ "ObserveAgain" \in Effects
      BY DEF RecoveryStates, Effects
    <3>2. QED
      BY <2>1, <3>1, ContinueIsMachine
  <2>3. /\ run' \in Runs' /\ Locked' /\ run'.cmd = "recover" /\ run'.machine = m
        /\ run'.tx = journal.tx
    BY <1>7, <2>2
  <2>4. RunInv'
    BY <1>1, <1>13, <2>2, <2>3, EntersPlainState
    DEF RecoveryStates, Inventory, EffectOf, UnjournaledStates, MutatingStates,
        RestoredStates, SealedStates
  <2>5. QED
    BY <2>3, <2>4
<1>14. QED
  BY <1>3, <1>9, <1>10, <1>11, <1>12, <1>13, DecisionMeans DEF IInv

\* Taking the lock keeps the invariant: nobody else waits with a decision.
LEMMA TakeLockStep ==
  ASSUME IInv, NEW p \in Procs, TakeLock(p)
  PROVE  IInv'
<1>1. /\ UNCHANGED <<plan, target, edited, evidence, journal, pending, nextTx, crashes, edits>>
      /\ waiting' = [waiting EXCEPT ![p] = Idle] /\ waiting[p] # Idle
  BY DEF TakeLock
<1>2. UNCHANGED <<stage, container, backup, txdir>>
  BY <1>1 DEF evidence
<1>3. run' \in Runs' /\ RunInv'
  BY ApplyTakesLock, RecoverTakesLock
<1>4. TypeOK'
  <2>1. waiting' \in [Procs -> [cmd : {"none", "apply", "recover"}, tx : 0 .. MaxTx,
                                decision : RecoveryDecisions \cup {"none"}, extra : BOOLEAN]]
    BY <1>1, BoundsAssumption DEF IInv, TypeOK, Idle
  <2>2. /\ run'.machine.state \in States \cup RecoveryStates
        /\ run'.tx \in 0 .. MaxTx
        /\ run'.mine \subseteq Ops(plan)
    BY <1>1, <1>3 DEF Runs, Machines, Ops
  <2>3. QED
    BY <1>1, <1>2, <2>1, <2>2 DEF IInv, TypeOK, Ops
<1>5. WaitingInv'
  <2>1. \A q \in Procs : waiting'[q] = (IF q = p THEN Idle ELSE waiting[q])
    BY <1>1 DEF IInv, TypeOK
  <2>2. \A q \in Procs \ {p} : waiting[q] = Idle \/ AppliesIn(waiting[q])
    BY <1>1 DEF IInv, WaitingInv
  <2>3. QED
    BY <2>1, <2>2 DEF WaitingInv, AppliesIn, Idle, Tx
<1>6. JournalInv' /\ EvidenceInv'
  BY <1>1, SameDisk DEF IInv
<1>7. QED
  BY <1>1, <1>3, <1>4, <1>5, <1>6 DEF IInv

-----------------------------------------------------------------------------
(* Observations and the journal.                                            *)

\* The states that wait for each effect.
LEMMA StatesOfEffects ==
  ASSUME ControlInv, Locked
  PROVE  /\ Awaiting("ObserveAgain") =>
              \/ run.cmd = "apply" /\ run.machine.state = "NeedRevalidation"
              \/ /\ run.cmd # "apply"
                 /\ run.machine.state \in {"VerifyingRestored", "ConfirmingRestored",
                                           "ConfirmingSealed"}
         /\ Awaiting("PersistJournal") =>
              \/ /\ run.cmd = "apply"
                 /\ run.machine.state \in {"NeedPlannedJournal", "NeedMutatingJournal",
                                           "NeedSealedJournal", "NeedRestoredJournal"}
              \/ run.cmd # "apply" /\ run.machine.state = "NeedRestoredJournal"
         /\ Awaiting("PrepareOne") => run.cmd = "apply" /\ run.machine.state = "Preparing"
         /\ Awaiting("ApplyOne") => run.cmd = "apply" /\ run.machine.state = "Installing"
         /\ Awaiting("ObservePostState") => run.cmd = "apply" /\ run.machine.state = "Verifying"
         /\ Awaiting("AttemptRollbackOne") => run.machine.state = "RollingBack"
         /\ Awaiting("CleanOne") =>
              \/ run.machine.state \in {"CleaningRollback", "CleaningForward"}
              \/ run.cmd # "apply" /\ run.machine.state = "Discarding"
         /\ Awaiting("DiscardPending") =>
              run.cmd # "apply" /\ run.machine.state = "DiscardingPending"
         /\ Awaiting("ReleaseLock") => run.machine.state = "Releasing"
<1>1. /\ run.machine.state \in
           (IF run.cmd = "apply" THEN States \ {"NeedLock"} ELSE RecoveryStates)
      /\ run.machine.awaiting = EffectOf[run.machine.state]
  BY DEF ControlInv
<1>2. CASE run.cmd = "apply"
  <2>1. run.machine.state \in States \ {"NeedLock"}
    BY <1>1, <1>2
  <2>2. QED
    BY <1>1, <1>2, <2>1 DEF EffectOf, Awaiting, States
<1>3. CASE run.cmd # "apply"
  <2>1. run.machine.state \in RecoveryStates
    BY <1>1, <1>3
  <2>2. QED
    BY <1>1, <1>3, <2>1 DEF EffectOf, Awaiting, RecoveryStates
<1>4. QED
  BY <1>2, <1>3

\* A confirmed or persisted RESTORED or SEALED is followed by its cleanup.
LEMMA CleaningStarts ==
  ASSUME IInv, Locked, UNCHANGED plan, EvidenceInv',
         NEW s \in {"CleaningRollback", "CleaningForward"}, NEW phase,
         phase = CleanupPhase(s),
         NEW e, Report(e), Successor(e) = CleanAfter(plan, s, phase, 0),
         run.tx \in Tx, journal'.phase = phase, journal'.tx = run.tx
  PROVE  run' \in Runs' /\ RunInv' /\ Locked'
<1>1. WellFormed(plan) /\ Len(plan.kinds) \in Nat /\ plan \in Plans
  BY PlanIsWellFormed DEF IInv, TypeOK
<1>2. phase \in Phases
  BY DEF CleanupPhase, Phases
<1>3. JournalSlot(plan) \in CleanupSlots(plan, phase) /\ ~ (JournalSlot(plan) <= 0)
  BY <1>1 DEF CleanupSlots, JournalSlot
<1>4. PICK n \in CleanupSlots(plan, phase) :
        /\ Successor(e) = Continue(s, n, "CleanOne")
        /\ n \in Nat /\ \A l \in CleanupSlots(plan, phase) : l > 0 => n <= l
  BY <1>1, <1>2, <1>3, CleanAfterResult
<1>5. /\ s \in States \cup RecoveryStates /\ s \in CleaningStates /\ "CleanOne" \in Effects
      /\ run \in Runs
  BY DEF States, CleaningStates, Effects, IInv
<1>6. /\ run' \in Runs' /\ Locked'
      /\ run'.machine.state = s /\ run'.machine.cursor = n
      /\ run'.machine.awaiting = "CleanOne" /\ run'.tx = run.tx
  <2>1. Entered(s, n, "CleanOne")
    BY <1>4, <1>5, ReportEnters
  <2>2. QED
    BY <2>1 DEF Entered
<1>7. \A i \in Ops(plan') : ~ (StageSlot(i) <= 0) /\ ~ (BackupSlot(i) <= 0)
                              /\ ~ (RollbackSlot(plan', i) <= 0)
  BY <1>1, SlotOrder
<1>8. ~ (DirectorySlot(plan') <= 0)
  BY <1>1 DEF DirectorySlot
<1>9. Inventory(s)' = CleanupSlots(plan, phase)
  BY DEF Inventory, CleanupPhase
<1>10. /\ plan' \in Plans /\ n \in Inventory(s)' /\ journal'.tx = run'.tx
       /\ journal'.phase = CleanupPhase(s) /\ run'.tx \in Tx /\ s # "Discarding"
       /\ \A l \in Inventory(s)' : l > 0 => n <= l
  BY <1>1, <1>4, <1>6, <1>9
<1>11. 0 \in Nat /\ n \in Nat
  BY <1>4
<1>12. RunInv'
  BY <1>5, <1>6, <1>7, <1>8, <1>10, <1>11, EntersCleaning
<1>13. QED
  BY <1>6, <1>12

\* Revalidation finds the plan's old state and no trace of another transaction.
LEMMA RevalidationGoesOn ==
  ASSUME IInv, Locked, UNCHANGED <<plan, target, edited, evidence, journal>>,
         run.cmd = "apply", run.machine.state = "NeedRevalidation",
         run.machine.awaiting = "ObserveAgain",
         Classification = "NoJournal", MatchesPreconditions(plan, target),
         Report(Reobserved(TRUE))
  PROVE  run' \in Runs' /\ RunInv' /\ Locked'
<1>1. run.machine \in Machines /\ run \in Runs
  BY DEF IInv, Runs
<1>2. Successor(Reobserved(TRUE)) = Continue("NeedPlannedJournal", 0, "PersistJournal")
  BY <1>1, ApplySuccessors DEF Successor, PersistThen
<1>3. "NeedPlannedJournal" \in States /\ "PersistJournal" \in Effects
  BY DEF States, Effects
<1>4. /\ run' \in Runs' /\ Locked'
      /\ run'.machine.state = "NeedPlannedJournal" /\ run'.machine.cursor = 0
      /\ run'.machine.awaiting = "PersistJournal" /\ run'.tx = run.tx /\ run'.cmd = "apply"
  <2>1. Entered("NeedPlannedJournal", 0, "PersistJournal")
    BY <1>1, <1>2, <1>3, ReportEnters
  <2>2. QED
    BY <2>1 DEF Entered
<1>5. journal' = NoJournal /\ txdir' = {}
  BY DEF Classification, evidence
<1>6. run.tx \in Tx
  BY DEF IInv, RunInv, ControlInv
<1>7. ControlInv'
  BY <1>4, <1>5, <1>6 DEF ControlInv, States, EffectOf, Inventory, UnjournaledStates,
     PlannedStates, MutatingStates, RestoredStates, SealedStates, Tx, NoJournal
<1>8. TargetInv'
  BY <1>4 DEF TargetInv, AllUntouched, MatchesPreconditions, Ops
<1>9. PreparedInv' /\ CleanedInv'
  BY <1>4, <1>5 DEF PreparedInv, CleanedInv, CleaningStates
<1>10. QED
  BY <1>4, <1>7, <1>8, <1>9 DEF RunInv

\* A recovery's observation matches what its phase requires, or it ends.
LEMMA RecoveryObservationGoesOn ==
  ASSUME IInv, Locked, UNCHANGED <<plan, target, edited, evidence, journal>>,
         run.cmd # "apply",
         run.machine.state \in {"VerifyingRestored", "ConfirmingRestored", "ConfirmingSealed"},
         Report(Reobserved(TRUE)),
         run.machine.state = "VerifyingRestored" => RestoredVerified(plan, target)
  PROVE  run' \in Runs' /\ RunInv' /\ Locked'
<1>1. run.machine \in Machines /\ run \in Runs
  BY DEF IInv, Runs
<1>2. Reobserved(TRUE).type # "EffectFailed" /\ Reobserved(TRUE).matches = TRUE
  BY DEF Reobserved
<1>3. /\ run.tx \in Tx /\ journal.tx = run.tx
      /\ run.machine.state = "VerifyingRestored" => journal.phase = "mutating"
      /\ run.machine.state = "ConfirmingRestored" => journal.phase = "restored"
      /\ run.machine.state = "ConfirmingSealed" => journal.phase = "sealed"
  BY DEF IInv, RunInv, ControlInv, MutatingStates, RestoredStates, SealedStates, NoJournal
<1>4. EvidenceInv'
  BY SameDisk DEF IInv
<1>5. Successor(Reobserved(TRUE)) = StepRecovery(plan, run.machine, Reobserved(TRUE))
  BY DEF Successor
<1>6. CASE run.machine.state = "VerifyingRestored"
  <2>1. Successor(Reobserved(TRUE)) = Continue("NeedRestoredJournal", 0, "PersistJournal")
    BY <1>1, <1>2, <1>5, <1>6, RecoverySuccessors DEF PersistThen
  <2>2. "NeedRestoredJournal" \in RecoveryStates /\ "PersistJournal" \in Effects
    BY DEF RecoveryStates, Effects
  <2>3. /\ run' \in Runs' /\ Locked'
        /\ run'.machine.state = "NeedRestoredJournal" /\ run'.machine.cursor = 0
        /\ run'.machine.awaiting = "PersistJournal" /\ run'.tx = run.tx /\ run'.cmd = run.cmd
    <3>1. Entered("NeedRestoredJournal", 0, "PersistJournal")
      BY <1>1, <2>1, <2>2, ReportEnters
    <3>2. QED
      BY <3>1 DEF Entered
  <2>4. AllUntouched("old")'
    BY <1>6 DEF AllUntouched, RestoredVerified, Ops
  <2>5. RunInv'
    BY <1>3, <1>6, <2>2, <2>3, <2>4, EntersPlainState
    DEF Inventory, EffectOf, UnjournaledStates, MutatingStates, RestoredStates, SealedStates
  <2>6. QED
    BY <2>3, <2>5
<1>7. CASE run.machine.state = "ConfirmingRestored"
  <2>1. Successor(Reobserved(TRUE)) = CleanAfter(plan, "CleaningRollback", "restored", 0)
    BY <1>1, <1>2, <1>5, <1>7, RecoverySuccessors
  <2>2. "restored" = CleanupPhase("CleaningRollback")
    BY DEF CleanupPhase
  <2>3. QED
    BY <1>3, <1>4, <1>7, <2>1, <2>2, CleaningStarts
<1>8. CASE run.machine.state = "ConfirmingSealed"
  <2>1. Successor(Reobserved(TRUE)) = CleanAfter(plan, "CleaningForward", "sealed", 0)
    BY <1>1, <1>2, <1>5, <1>8, RecoverySuccessors
  <2>2. "sealed" = CleanupPhase("CleaningForward")
    BY DEF CleanupPhase
  <2>3. QED
    BY <1>3, <1>4, <1>8, <2>1, <2>2, CleaningStarts
<1>9. QED
  BY <1>6, <1>7, <1>8

\* The fresh observation under the lock keeps the invariant.
LEMMA ObserveAgainStep ==
  ASSUME IInv, ObserveAgain
  PROVE  IInv'
<1>1. /\ Awaiting("ObserveAgain") /\ Locked /\ Report(Observation)
      /\ UNCHANGED <<plan, target, edited, evidence, journal, waiting, nextTx, edits>>
      /\ pending' \in BOOLEAN /\ crashes' \in Nat
  BY DEF ObserveAgain, Awaiting, IInv, TypeOK
<1>2. run \in Runs /\ run.machine \in Machines /\ run.machine.awaiting = "ObserveAgain"
  BY <1>1 DEF IInv, Runs, Awaiting
<1>3. CASE Observation = EffectFailed("ObserveAgain")
  <2>1. Fail
    BY <1>1, <1>2, <1>3 DEF Fail
  <2>2. QED
    BY <1>1, <1>2, <2>1, FailureEndsRun, StopKeepsInv
<1>4. CASE run.cmd = "apply" /\ run.machine.state = "NeedRevalidation"
  <2>1. CASE Classification = "NoJournal" /\ MatchesPreconditions(plan, target)
    <3>1. Observation = Reobserved(TRUE)
      BY <1>4, <2>1 DEF Observation
    <3>2. run' \in Runs' /\ RunInv' /\ Locked'
      BY <1>1, <1>2, <1>4, <2>1, <3>1, RevalidationGoesOn
    <3>3. QED
      BY <1>1, <3>2, RunKeepsInv
  <2>2. CASE ~ (Classification = "NoJournal" /\ MatchesPreconditions(plan, target))
    BY <1>3, <1>4, <2>2 DEF Observation
  <2>3. QED
    BY <2>1, <2>2
<1>5. CASE /\ run.cmd # "apply"
           /\ run.machine.state \in {"VerifyingRestored", "ConfirmingRestored",
                                     "ConfirmingSealed"}
           /\ Observation # EffectFailed("ObserveAgain")
  <2>1. PICK matches \in BOOLEAN :
          /\ Observation = Reobserved(matches)
          /\ run.machine.state = "VerifyingRestored" /\ matches => RestoredVerified(plan, target)
    BY <1>5 DEF Observation, RestoredVerified, SealedVerified
  <2>2. CASE matches = TRUE
    <3>1. run' \in Runs' /\ RunInv' /\ Locked'
      BY <1>1, <1>5, <2>1, <2>2, RecoveryObservationGoesOn
    <3>2. QED
      BY <1>1, <3>1, RunKeepsInv
  <2>3. CASE matches = FALSE
    <3>1. Reobserved(FALSE).type # "EffectFailed" /\ Reobserved(FALSE).matches = FALSE
      BY DEF Reobserved
    <3>2. Successor(Reobserved(FALSE)) = Stop(run.machine, "Stopped")
      BY <1>2, <1>5, <3>1, RecoverySuccessors DEF Successor
    <3>3. Stop(run.machine, "Stopped").state \in Terminals
      BY <1>2 DEF Stop, Machines, Terminals
    <3>4. run' = NoRun
      BY <1>1, <2>1, <2>3, <3>2, <3>3 DEF Report
    <3>5. QED
      BY <1>1, <3>4, StopKeepsInv
  <2>4. QED
    BY <2>2, <2>3
<1>6. QED
  BY <1>1, <1>3, <1>4, <1>5, StatesOfEffects DEF IInv, RunInv

\* A run that has more to do for its effect is the same run, busy.
LEMMA BusyRun ==
  ASSUME run \in Runs, Locked, KeepBusy, UNCHANGED plan
  PROVE  /\ run' \in Runs' /\ Locked' /\ run'.busy = TRUE
         /\ run'.cmd = run.cmd /\ run'.tx = run.tx /\ run'.machine = run.machine
         /\ run'.alloc = run.alloc /\ run'.mine = run.mine
<1>1. run' = [run EXCEPT !.busy = TRUE]
  BY DEF KeepBusy
<1>2. QED
  BY <1>1 DEF Runs, Locked, Ops

\* Creating journal.pending changes nothing the invariant speaks of.
LEMMA WritePendingStep ==
  ASSUME IInv, WritePending
  PROVE  IInv'
<1>1. /\ Awaiting("PersistJournal") /\ Locked
      /\ UNCHANGED <<plan, target, edited, evidence, journal, waiting, nextTx, edits>>
      /\ pending' \in BOOLEAN /\ crashes' \in Nat
      /\ Fail \/ KeepBusy
  BY DEF WritePending, Awaiting, IInv, TypeOK
<1>2. CASE Fail
  BY <1>1, <1>2, FailureEndsRun, StopKeepsInv DEF IInv
<1>3. CASE KeepBusy
  <2>1. /\ run' \in Runs' /\ Locked'
        /\ run'.cmd = run.cmd /\ run'.tx = run.tx /\ run'.machine = run.machine
    BY <1>1, <1>3, BusyRun DEF IInv
  <2>2. run.machine.state \in {"NeedPlannedJournal", "NeedMutatingJournal",
                               "NeedSealedJournal", "NeedRestoredJournal"}
    BY <1>1, StatesOfEffects DEF IInv, RunInv
  <2>3. UNCHANGED <<stage, container, backup, txdir>>
    BY <1>1 DEF evidence
  <2>4. ControlInv'
    <3>1. ControlInv
      BY DEF IInv, RunInv
    <3>2. Inventory(run.machine.state)' = {0} /\ Inventory(run.machine.state) = {0}
      BY <2>1, <2>2 DEF Inventory
    <3>3. QED
      BY <1>1, <2>1, <2>2, <3>1, <3>2 DEF ControlInv, UnjournaledStates, PlannedStates,
         MutatingStates, RestoredStates, SealedStates, NoJournal
  <2>5. TargetInv'
    <3>1. TargetInv
      BY DEF IInv, RunInv
    <3>2. QED
      BY <1>1, <2>1, <2>2, <3>1 DEF TargetInv, AllUntouched, Untouched, Ops
  <2>6. PreparedInv' /\ CleanedInv'
    <3>1. PreparedInv
      BY DEF IInv, RunInv
    <3>2. QED
      BY <1>1, <2>1, <2>2, <2>3, <3>1 DEF PreparedInv, CleanedInv, CleaningStates, Ops, Unowned
  <2>7. QED
    BY <1>1, <2>1, <2>4, <2>5, <2>6, RunKeepsInv DEF RunInv
<1>4. QED
  BY <1>1, <1>2, <1>3

\* A preparation goes on after slot k, or MUTATING is next.
LEMMA PreparingGoesOn ==
  ASSUME IInv, Locked, UNCHANGED plan, run.cmd = "apply", run.tx \in Tx,
         NEW e, Report(e), NEW k \in Nat, Successor(e) = PrepareAfter(plan, k),
         journal'.phase = "planned", journal'.tx = run.tx,
         \A i \in Ops(plan) :
           NeedsBackup(plan.kinds[i]) /\ BackupSlot(i) <= k => backup'[run.tx][i] = "full",
         \A i \in Ops(plan) : StageSlot(i) > k => stage'[run.tx][i] # "full"
  PROVE  run' \in Runs' /\ RunInv' /\ Locked'
<1>1. WellFormed(plan) /\ run \in Runs
  BY PlanIsWellFormed DEF IInv
<1>2. \A i \in Ops(plan) :
        /\ StageSlot(i) \in Nat /\ BackupSlot(i) \in Nat
        /\ NeedsBackup(plan.kinds[i]) => BackupSlot(i) \in PreparationSlots(plan)
  BY <1>1, SlotOrder
<1>3. "Preparing" \in States /\ "NeedMutatingJournal" \in States
  BY DEF States
<1>4. "PrepareOne" \in Effects /\ "PersistJournal" \in Effects
  BY DEF Effects
<1>5. CASE /\ Successor(e) = Continue("NeedMutatingJournal", 0, "PersistJournal")
           /\ \A j \in PreparationSlots(plan) : j <= k
  <2>1. /\ run' \in Runs' /\ Locked' /\ run'.machine.state = "NeedMutatingJournal"
        /\ run'.machine.cursor = 0 /\ run'.machine.awaiting = "PersistJournal"
        /\ run'.tx = run.tx /\ run'.cmd = "apply"
    <3>1. /\ 0 \in Nat /\ "NeedMutatingJournal" \in States \cup RecoveryStates
          /\ "PersistJournal" \in Effects
      BY <1>3, <1>4
    <3>2. run \in Runs
      BY <1>1
    <3>3. Entered("NeedMutatingJournal", 0, "PersistJournal")
      BY <1>5, <3>1, <3>2, ReportEnters
    <3>4. QED
      BY <3>3 DEF Entered
  <2>2. \A i \in Ops(plan) : NeedsBackup(plan.kinds[i]) => backup'[run.tx][i] = "full"
    BY <1>2, <1>5
  <2>3. ControlInv'
    BY <2>1 DEF ControlInv, States, EffectOf, Inventory, UnjournaledStates,
       PlannedStates, MutatingStates, RestoredStates, SealedStates, Tx
  <2>4. TargetInv' /\ PreparedInv' /\ CleanedInv'
    BY <2>1, <2>2 DEF TargetInv, PreparedInv, CleanedInv, CleaningStates
  <2>5. QED
    BY <2>1, <2>3, <2>4 DEF RunInv
<1>6. ASSUME NEW n \in PreparationSlots(plan),
             Successor(e) = Continue("Preparing", n, "PrepareOne"), n \in Nat, n > k,
             \A l \in PreparationSlots(plan) : l > k => n <= l
      PROVE  run' \in Runs' /\ RunInv' /\ Locked'
  <2>1. /\ run' \in Runs' /\ Locked' /\ run'.machine.state = "Preparing"
        /\ run'.machine.cursor = n /\ run'.machine.awaiting = "PrepareOne"
        /\ run'.tx = run.tx /\ run'.cmd = "apply"
    <3>1. n \in Nat /\ "Preparing" \in States \cup RecoveryStates /\ "PrepareOne" \in Effects
      BY <1>3, <1>4, <1>6
    <3>2. run \in Runs
      BY <1>1
    <3>3. Entered("Preparing", n, "PrepareOne")
      BY <1>6, <3>1, <3>2, ReportEnters
    <3>4. QED
      BY <3>3 DEF Entered
  <2>2. \A i \in Ops(plan) :
          NeedsBackup(plan.kinds[i]) /\ BackupSlot(i) < n => backup'[run.tx][i] = "full"
    BY <1>2, <1>6
  <2>3. \A i \in Ops(plan) : StageSlot(i) >= n => stage'[run.tx][i] # "full"
    BY <1>2, <1>6
  <2>4. ControlInv'
    BY <1>6, <2>1 DEF ControlInv, States, EffectOf, Inventory, UnjournaledStates,
       PlannedStates, MutatingStates, RestoredStates, SealedStates, Tx
  <2>5. TargetInv' /\ PreparedInv' /\ CleanedInv'
    BY <2>1, <2>2, <2>3 DEF TargetInv, PreparedInv, CleanedInv, CleaningStates
  <2>6. QED
    BY <2>1, <2>4, <2>5 DEF RunInv
<1>7. QED
  BY <1>1, <1>5, <1>6, PrepareAfterResult

\* The installation goes on after operation i, or the target is verified.
LEMMA InstallationGoesOn ==
  ASSUME IInv, Locked, UNCHANGED plan, run.cmd = "apply", run.tx \in Tx,
         NEW e, Report(e), NEW i \in 0 .. Len(plan.kinds), Successor(e) = InstallAfter(plan, i),
         journal'.phase = "mutating", journal'.tx = run.tx,
         \A j \in Ops(plan) : Unowned(container'[run.tx][j])
  PROVE  run' \in Runs' /\ RunInv' /\ Locked'
<1>1. /\ WellFormed(plan) /\ run \in Runs /\ Len(plan.kinds) \in Nat
      /\ i \in 0 .. Len(plan.kinds) + 1 /\ i <= Len(plan.kinds) /\ i + 1 \in Nat
  BY PlanIsWellFormed DEF IInv
<1>2. /\ "Installing" \in States /\ "Verifying" \in States
      /\ "ApplyOne" \in Effects /\ "ObservePostState" \in Effects
  BY DEF States, Effects
<1>3. CASE Successor(e) = Continue("Verifying", 0, "ObservePostState")
  <2>1. /\ run' \in Runs' /\ Locked' /\ run'.machine.state = "Verifying"
        /\ run'.machine.cursor = 0 /\ run'.machine.awaiting = "ObservePostState"
        /\ run'.tx = run.tx /\ run'.cmd = "apply"
    <3>1. 0 \in Nat /\ "Verifying" \in States \cup RecoveryStates /\ "ObservePostState" \in Effects
      BY <1>2
    <3>2. run \in Runs
      BY <1>1
    <3>3. Entered("Verifying", 0, "ObservePostState")
      BY <1>3, <3>1, <3>2, ReportEnters
    <3>4. QED
      BY <3>3 DEF Entered
  <2>2. RunInv'
    BY <1>2, <2>1, EntersPlainState
    DEF Inventory, EffectOf, UnjournaledStates, MutatingStates, RestoredStates, SealedStates
  <2>3. QED
    BY <2>1, <2>2
<1>4. CASE Successor(e) = Continue("Installing", i + 1, "ApplyOne") /\ i + 1 \in Ops(plan)
  <2>1. /\ run' \in Runs' /\ Locked' /\ run'.machine.state = "Installing"
        /\ run'.machine.cursor = i + 1 /\ run'.machine.awaiting = "ApplyOne"
        /\ run'.tx = run.tx /\ run'.cmd = "apply"
    <3>1. /\ i + 1 \in Nat /\ "Installing" \in States \cup RecoveryStates /\ "ApplyOne" \in Effects
          /\ run \in Runs
      BY <1>1, <1>2
    <3>2. Entered("Installing", i + 1, "ApplyOne")
      BY <1>4, <3>1, ReportEnters
    <3>3. QED
      BY <3>2 DEF Entered
  <2>2. RunInv'
    BY <1>2, <1>4, <2>1, EntersPlainState
    DEF Inventory, EffectOf, UnjournaledStates, MutatingStates, RestoredStates, SealedStates
  <2>3. QED
    BY <2>1, <2>2
<1>5. QED
  BY <1>1, <1>3, <1>4, CursorResults

\* The disk under a journal of the next phase.
LEMMA JournalAdvances ==
  ASSUME IInv, RenamePending, NEW phase \in Phases, PersistedPhase = phase, run.tx \in Tx,
         \/ phase = "planned" /\ journal = NoJournal /\ txdir = {}
         \/ phase # "planned" /\ journal # NoJournal /\ journal.tx = run.tx,
         phase \in {"planned", "restored"} => AllUntouched("old"),
         phase = "sealed" => AllUntouched("new"),
         phase = "mutating" =>
           \A i \in Ops(plan) : NeedsBackup(plan.kinds[i]) => backup[run.tx][i] = "full",
         phase = "sealed" => \A i \in Ops(plan) : Unowned(container[run.tx][i])
  PROVE  /\ journal'.phase = phase /\ journal'.tx = run.tx
         /\ JournalInv' /\ EvidenceInv'
         /\ ((run' \in Runs' /\ RunInv') \/ run' = NoRun) => IInv'
<1>1. /\ Locked /\ pending' = FALSE
      /\ journal' = [phase |-> phase, tx |-> run.tx,
                     extra |-> phase = "restored" /\ run.alloc]
      /\ UNCHANGED <<plan, target, edited, evidence, waiting, nextTx, crashes, edits>>
  BY DEF RenamePending, Awaiting
<1>2. UNCHANGED <<plan, target, edited, stage, container, backup, txdir>>
  BY <1>1 DEF evidence
<1>3. /\ journal'.phase = phase /\ journal'.tx = run.tx
      /\ journal' \in [phase : Phases, tx : Tx, extra : BOOLEAN]
  BY <1>1
<1>4. journal'.phase # "none" /\ journal' # NoJournal
  BY <1>3 DEF Phases, NoJournal
<1>5. JournalInv'
  <2>1. PlannedMeansUntouched' /\ RestoredMeansPreState' /\ SealedMeansCandidate'
    BY <1>2, <1>3 DEF PlannedMeansUntouched, RestoredMeansPreState, SealedMeansCandidate,
       AllUntouched, Untouched, Ops
  <2>2. BackupUntilSettled'
    BY <1>2, <1>3 DEF BackupUntilSettled, Ops
  <2>3. NoJournalMeansSettled'
    BY <1>4 DEF NoJournalMeansSettled, NoJournal
  <2>4. QED
    BY <1>3, <2>1, <2>2, <2>3 DEF JournalInv, Tx
<1>6. EvidenceInv'
  <2>1. \A t \in Tx : t # run.tx =>
          /\ t \notin txdir
          /\ \A i \in Ops(plan) :
               Unowned(stage[t][i]) /\ Unowned(container[t][i]) /\ backup[t][i] = "none"
    <3>1. CASE journal = NoJournal
      BY <3>1 DEF IInv, EvidenceInv, EvidenceIsJournaled, NoJournal, Tx
    <3>2. CASE journal.tx = run.tx
      BY <3>2 DEF IInv, EvidenceInv, EvidenceIsJournaled
    <3>3. QED
      BY <3>1, <3>2
  <2>2. phase \in {"planned", "sealed"} => \A i \in Ops(plan) : Unowned(container[run.tx][i])
    <3>1. CASE phase = "planned"
      BY <3>1 DEF IInv, EvidenceInv, EvidenceIsJournaled, NoJournal, Tx
    <3>2. QED
      BY <3>1
  <2>3. EvidenceIsJournaled'
    BY <1>2, <1>3, <2>1 DEF EvidenceIsJournaled, Tx, Ops, Unowned
  <2>4. \A t \in Tx, i \in Ops(plan) :
          /\ ~ NeedsStage(plan.kinds[i]) => stage[t][i] = "none"
          /\ ~ NeedsContainer(plan.kinds[i]) => container[t][i] = "none"
          /\ ~ NeedsBackup(plan.kinds[i]) => backup[t][i] = "none"
    BY DEF IInv, EvidenceInv
  <2>5. QED
    BY <1>2, <1>3, <2>2, <2>3, <2>4 DEF EvidenceInv, Tx, Ops, Unowned
<1>7. ASSUME run' \in Runs', RunInv' PROVE IInv'
  <2>1. TypeOK'
    <3>1. /\ run'.machine.state \in States \cup RecoveryStates
          /\ run'.tx \in 0 .. MaxTx
          /\ run'.mine \subseteq Ops(plan)
      BY <1>2, <1>7 DEF Runs, Machines, Ops
    <3>2. journal' \in [phase : Phases \cup {"none"}, tx : 0 .. MaxTx, extra : BOOLEAN]
      BY <1>3 DEF Tx
    <3>3. QED
      BY <1>1, <1>2, <3>1, <3>2 DEF IInv, TypeOK, Ops
  <2>2. WaitingInv'
    BY <1>1, LockedCommandsWait
  <2>3. QED
    BY <1>1, <1>5, <1>6, <1>7, <2>1, <2>2 DEF IInv
<1>8. ASSUME run' = NoRun PROVE IInv'
  BY <1>1, <1>7, <1>8, NobodyRuns DEF IInv
<1>9. QED
  BY <1>3, <1>5, <1>6, <1>7, <1>8

\* What the journal says when a command is about to persist its next phase.
LEMMA PersistingStates ==
  ASSUME IInv, Awaiting("PersistJournal")
  PROVE  /\ run.tx \in Tx
         /\ \/ /\ run.cmd = "apply" /\ run.machine.state = "NeedPlannedJournal"
               /\ PersistedPhase = "planned" /\ journal = NoJournal
               /\ txdir = {} /\ AllUntouched("old")
            \/ /\ run.cmd = "apply" /\ run.machine.state = "NeedMutatingJournal"
               /\ PersistedPhase = "mutating" /\ journal # NoJournal /\ journal.tx = run.tx
               /\ journal.phase = "planned"
               /\ \A i \in Ops(plan) :
                    NeedsBackup(plan.kinds[i]) => backup[run.tx][i] = "full"
            \/ /\ run.cmd = "apply" /\ run.machine.state = "NeedSealedJournal"
               /\ PersistedPhase = "sealed" /\ journal # NoJournal /\ journal.tx = run.tx
               /\ journal.phase = "mutating" /\ AllUntouched("new")
               /\ \A i \in Ops(plan) : Unowned(container[run.tx][i])
            \/ /\ run.machine.state = "NeedRestoredJournal"
               /\ PersistedPhase = "restored" /\ journal # NoJournal /\ journal.tx = run.tx
               /\ journal.phase = "mutating" /\ AllUntouched("old")
<1>1. /\ Locked
      /\ ControlInv /\ TargetInv /\ PreparedInv
  BY DEF Awaiting, IInv, RunInv
<1>2. \/ /\ run.cmd = "apply"
         /\ run.machine.state \in {"NeedPlannedJournal", "NeedMutatingJournal",
                                   "NeedSealedJournal", "NeedRestoredJournal"}
      \/ run.machine.state = "NeedRestoredJournal"
  BY <1>1, StatesOfEffects
<1>3. run.tx \in Tx
  BY <1>1, <1>2 DEF ControlInv
<1>4. CASE run.machine.state = "NeedPlannedJournal"
  <2>1. PersistedPhase = "planned"
    BY <1>4 DEF PersistedPhase
  <2>2. journal = NoJournal
    BY <1>1, <1>4 DEF ControlInv, UnjournaledStates
  <2>3. txdir = {} /\ AllUntouched("old")
    BY <1>1, <1>4 DEF TargetInv, PreparedInv
  <2>4. QED
    BY <1>2, <1>3, <1>4, <2>1, <2>2, <2>3
<1>5. CASE run.machine.state = "NeedMutatingJournal"
  <2>1. PersistedPhase = "mutating"
    BY <1>5 DEF PersistedPhase
  <2>2. journal.phase = "planned" /\ journal # NoJournal
    BY <1>1, <1>5 DEF ControlInv, PlannedStates, NoJournal
  <2>3. journal.tx = run.tx
    BY <1>1, <1>5, <2>2 DEF ControlInv
  <2>4. \A i \in Ops(plan) : NeedsBackup(plan.kinds[i]) => backup[run.tx][i] = "full"
    BY <1>1, <1>5 DEF PreparedInv
  <2>5. QED
    BY <1>2, <1>3, <1>5, <2>1, <2>2, <2>3, <2>4
<1>6. CASE run.machine.state = "NeedSealedJournal"
  <2>1. PersistedPhase = "sealed"
    BY <1>6 DEF PersistedPhase
  <2>2. journal.phase = "mutating" /\ journal # NoJournal
    BY <1>1, <1>6 DEF ControlInv, MutatingStates, NoJournal
  <2>3. journal.tx = run.tx
    BY <1>1, <1>6, <2>2 DEF ControlInv
  <2>4. AllUntouched("new") /\ \A i \in Ops(plan) : Unowned(container[run.tx][i])
    BY <1>1, <1>6 DEF TargetInv, PreparedInv
  <2>5. QED
    BY <1>2, <1>3, <1>6, <2>1, <2>2, <2>3, <2>4
<1>7. CASE run.machine.state = "NeedRestoredJournal"
  <2>1. PersistedPhase = "restored"
    BY <1>7 DEF PersistedPhase
  <2>2. journal.phase = "mutating" /\ journal # NoJournal
    BY <1>1, <1>7 DEF ControlInv, MutatingStates, NoJournal
  <2>3. journal.tx = run.tx
    BY <1>1, <1>7, <2>2 DEF ControlInv
  <2>4. AllUntouched("old")
    BY <1>1, <1>7 DEF TargetInv
  <2>5. QED
    BY <1>2, <1>3, <1>7, <2>1, <2>2, <2>3, <2>4
<1>8. QED
  BY <1>2, <1>4, <1>5, <1>6, <1>7

\* The rename over journal.json keeps the invariant: what the next phase says
\* of the disk is so before the journal says it.
LEMMA RenamePendingStep ==
  ASSUME IInv, RenamePending
  PROVE  IInv'
<1>1. /\ Awaiting("PersistJournal") /\ Locked /\ Report(JournalPersisted(PersistedPhase))
      /\ UNCHANGED <<plan, target, edited, evidence>>
  BY DEF RenamePending, Awaiting
<1>2. UNCHANGED <<plan, target, edited, stage, container, backup, txdir>>
  BY <1>1 DEF evidence
<1>3. /\ run \in Runs /\ run.machine \in Machines
      /\ WellFormed(plan) /\ Len(plan.kinds) \in Nat /\ Ops(plan) = 1 .. Len(plan.kinds)
  BY PlanIsWellFormed DEF IInv, Runs
<1>4. /\ "planned" \in Phases /\ "mutating" \in Phases /\ "sealed" \in Phases
      /\ "restored" \in Phases
  BY DEF Phases
<1>5. run.tx \in Tx
  BY <1>1, PersistingStates
<1>6. CASE /\ run.cmd = "apply" /\ run.machine.state = "NeedPlannedJournal"
           /\ PersistedPhase = "planned" /\ journal = NoJournal
           /\ txdir = {} /\ AllUntouched("old")
  <2>1. /\ journal'.phase = "planned" /\ journal'.tx = run.tx
        /\ run' \in Runs' /\ RunInv' => IInv'
    BY <1>4, <1>5, <1>6, JournalAdvances
  <2>2. Successor(JournalPersisted(PersistedPhase)) = PrepareAfter(plan, 0)
    BY <1>3, <1>6, ApplySuccessors DEF Successor
  <2>3. \A i \in Ops(plan) : ~ (BackupSlot(i) <= 0)
    BY <1>3, SlotOrder
  <2>4. \A i \in Ops(plan) : stage'[run.tx][i] # "full"
    BY <1>2, <1>5, <1>6 DEF IInv, EvidenceInv, EvidenceIsJournaled, NoJournal, Tx, Unowned
  <2>5. run' \in Runs' /\ RunInv'
    BY <1>1, <1>2, <1>5, <1>6, <2>1, <2>2, <2>3, <2>4, PreparingGoesOn
  <2>6. QED
    BY <2>1, <2>5
<1>7. CASE /\ run.cmd = "apply" /\ run.machine.state = "NeedMutatingJournal"
           /\ PersistedPhase = "mutating" /\ journal # NoJournal /\ journal.tx = run.tx
           /\ journal.phase = "planned"
           /\ \A i \in Ops(plan) : NeedsBackup(plan.kinds[i]) => backup[run.tx][i] = "full"
  <2>1. /\ journal'.phase = "mutating" /\ journal'.tx = run.tx
        /\ run' \in Runs' /\ RunInv' => IInv'
    BY <1>4, <1>5, <1>7, JournalAdvances
  <2>2. Successor(JournalPersisted(PersistedPhase)) = InstallAfter(plan, 0)
    BY <1>3, <1>7, ApplySuccessors DEF Successor
  <2>3. \A i \in Ops(plan) : Unowned(container'[run.tx][i])
    BY <1>2, <1>7 DEF IInv, EvidenceInv
  <2>4. 0 \in 0 .. Len(plan.kinds)
    BY <1>3
  <2>5. run' \in Runs' /\ RunInv'
    BY <1>1, <1>2, <1>5, <1>7, <2>1, <2>2, <2>3, <2>4, InstallationGoesOn
  <2>6. QED
    BY <2>1, <2>5
<1>8. CASE /\ run.cmd = "apply" /\ run.machine.state = "NeedSealedJournal"
           /\ PersistedPhase = "sealed" /\ journal # NoJournal /\ journal.tx = run.tx
           /\ journal.phase = "mutating" /\ AllUntouched("new")
           /\ \A i \in Ops(plan) : Unowned(container[run.tx][i])
  <2>1. /\ journal'.phase = "sealed" /\ journal'.tx = run.tx /\ EvidenceInv'
        /\ run' \in Runs' /\ RunInv' => IInv'
    BY <1>4, <1>5, <1>8, JournalAdvances
  <2>2. Successor(JournalPersisted(PersistedPhase))
          = CleanAfter(plan, "CleaningForward", "sealed", 0)
    BY <1>3, <1>8, ApplySuccessors DEF Successor
  <2>3. "sealed" = CleanupPhase("CleaningForward")
    BY DEF CleanupPhase
  <2>4. run' \in Runs' /\ RunInv'
    BY <1>1, <1>2, <1>5, <2>1, <2>2, <2>3, CleaningStarts
  <2>5. QED
    BY <2>1, <2>4
<1>9. CASE /\ run.machine.state = "NeedRestoredJournal"
           /\ PersistedPhase = "restored" /\ journal # NoJournal /\ journal.tx = run.tx
           /\ journal.phase = "mutating" /\ AllUntouched("old")
  <2>1. /\ journal'.phase = "restored" /\ journal'.tx = run.tx /\ EvidenceInv'
        /\ run' \in Runs' /\ RunInv' => IInv'
    BY <1>4, <1>5, <1>9, JournalAdvances
  <2>2. JournalPersisted("restored").type # "EffectFailed"
    BY DEF JournalPersisted
  <2>3. Successor(JournalPersisted(PersistedPhase))
          = CleanAfter(plan, "CleaningRollback", "restored", 0)
    BY <1>3, <1>9, <2>2, ApplySuccessors, RecoverySuccessors DEF Successor
  <2>4. "restored" = CleanupPhase("CleaningRollback")
    BY DEF CleanupPhase
  <2>5. run' \in Runs' /\ RunInv'
    BY <1>1, <1>2, <1>5, <2>1, <2>3, <2>4, CleaningStarts
  <2>6. QED
    BY <2>1, <2>5
<1>10. QED
  BY <1>1, <1>6, <1>7, <1>8, <1>9, PersistingStates

-----------------------------------------------------------------------------
(* Preparation and installation.                                            *)

\* An effect that changes the evidence of its own transaction only, and the
\* target only while MUTATING is authoritative, keeps the invariant if it
\* keeps what the invariant says of the run.
LEMMA EffectKeepsInv ==
  ASSUME IInv, Locked, run.tx \in Tx, journal.tx = run.tx,
         UNCHANGED <<plan, edited, journal, pending, waiting, nextTx, crashes, edits>>,
         target' \in [Ops(plan) -> PathStates],
         target' = target \/ journal.phase = "mutating",
         stage' \in [Tx -> [Ops(plan) -> Levels]],
         container' \in [Tx -> [Ops(plan) -> Levels]],
         backup' \in [Tx -> [Ops(plan) -> {"none", "partial", "full"}]],
         txdir' \subseteq txdir \cup {run.tx},
         \A t \in Tx \ {run.tx} : /\ stage'[t] = stage[t]
                                  /\ container'[t] = container[t]
                                  /\ backup'[t] = backup[t],
         \A i \in Ops(plan) :
           /\ ~ NeedsStage(plan.kinds[i]) => stage'[run.tx][i] = "none"
           /\ ~ NeedsContainer(plan.kinds[i]) => container'[run.tx][i] = "none"
           /\ ~ NeedsBackup(plan.kinds[i]) => backup'[run.tx][i] = "none",
         journal.phase \in {"planned", "sealed"} =>
           \A i \in Ops(plan) : Unowned(container'[run.tx][i]),
         journal.phase = "mutating" =>
           \A i \in Ops(plan) : NeedsBackup(plan.kinds[i]) => backup'[run.tx][i] = "full"
  PROVE  /\ JournalInv' /\ EvidenceInv'
         /\ ((run' \in Runs' /\ RunInv') \/ run' = NoRun) => IInv'
<1>1. journal # NoJournal /\ journal' = journal
  BY DEF NoJournal, Tx
<1>2. JournalInv'
  <2>1. PlannedMeansUntouched' /\ RestoredMeansPreState' /\ SealedMeansCandidate'
    BY DEF IInv, JournalInv, PlannedMeansUntouched, RestoredMeansPreState,
       SealedMeansCandidate, Untouched, Ops
  <2>2. BackupUntilSettled'
    BY DEF BackupUntilSettled, Ops
  <2>3. NoJournalMeansSettled'
    BY <1>1 DEF NoJournalMeansSettled, NoJournal
  <2>4. journal' \in [phase : Phases, tx : Tx, extra : BOOLEAN]
    BY <1>1 DEF IInv, JournalInv
  <2>5. QED
    BY <2>1, <2>2, <2>3, <2>4 DEF JournalInv, Tx
<1>3. EvidenceInv'
  <2>1. \A t \in Tx, i \in Ops(plan) :
          /\ ~ NeedsStage(plan.kinds[i]) => stage'[t][i] = "none"
          /\ ~ NeedsContainer(plan.kinds[i]) => container'[t][i] = "none"
          /\ ~ NeedsBackup(plan.kinds[i]) => backup'[t][i] = "none"
    BY DEF IInv, EvidenceInv
  <2>2. EvidenceIsJournaled'
    <3>1. EvidenceIsJournaled
      BY DEF IInv, EvidenceInv
    <3>2. ASSUME NEW t \in Tx, t # journal.tx
          PROVE  /\ t \notin txdir'
                 /\ stage'[t] = stage[t] /\ container'[t] = container[t]
                 /\ backup'[t] = backup[t]
      BY <3>1, <3>2 DEF EvidenceIsJournaled
    <3>3. ASSUME NEW t \in Tx, t # journal.tx, NEW i \in Ops(plan)
          PROVE  /\ t \notin txdir'
                 /\ Unowned(stage'[t][i]) /\ Unowned(container'[t][i]) /\ backup'[t][i] = "none"
      BY <3>1, <3>2, <3>3 DEF EvidenceIsJournaled
    <3>4. \A t \in Tx : t # journal.tx => t \notin txdir'
      BY <3>2
    <3>5. QED
      BY <1>1, <3>3, <3>4 DEF EvidenceIsJournaled, Tx, Ops, Unowned
  <2>3. journal'.phase \in {"planned", "sealed"} =>
          \A i \in Ops(plan) : Unowned(container'[journal'.tx][i])
    BY <1>1
  <2>4. QED
    BY <2>1, <2>2, <2>3 DEF EvidenceInv, Tx, Ops, Unowned
<1>4. ASSUME run' \in Runs', RunInv' PROVE IInv'
  <2>1. TypeOK'
    <3>1. /\ run'.machine.state \in States \cup RecoveryStates
          /\ run'.tx \in 0 .. MaxTx
          /\ run'.mine \subseteq Ops(plan)
      BY <1>4 DEF Runs, Machines, Ops
    <3>2. txdir' \subseteq Tx
      BY DEF IInv, TypeOK
    <3>3. QED
      BY <3>1, <3>2 DEF IInv, TypeOK, Ops, Tx
  <2>2. WaitingInv'
    BY LockedCommandsWait
  <2>3. QED
    BY <1>2, <1>3, <1>4, <2>1, <2>2 DEF IInv
<1>5. ASSUME run' = NoRun PROVE IInv'
  BY <1>4, <1>5, NobodyRuns DEF IInv
<1>6. QED
  BY <1>2, <1>3, <1>4, <1>5

\* A command in the middle of an effect is where it was.
LEMMA ControlStays ==
  ASSUME IInv, Locked, UNCHANGED <<plan, journal>>, run' \in Runs',
         run'.cmd = run.cmd, run'.tx = run.tx, run'.machine = run.machine
  PROVE  ControlInv' /\ Locked'
<1>1. Inventory(run.machine.state)' = Inventory(run.machine.state)
  BY DEF Inventory
<1>2. QED
  BY <1>1 DEF IInv, RunInv, ControlInv, Locked, NoJournal

\* What is known of a command that prepares.
LEMMA PreparingStates ==
  ASSUME IInv, Awaiting("PrepareOne")
  PROVE  /\ Locked /\ run.cmd = "apply" /\ run.machine.state = "Preparing"
         /\ run \in Runs /\ run.machine \in Machines
         /\ run.tx \in Tx /\ journal.tx = run.tx /\ journal.phase = "planned"
         /\ run.machine.cursor \in PreparationSlots(plan) /\ run.machine.cursor \in Nat
         /\ \A i \in Ops(plan) :
              /\ NeedsBackup(plan.kinds[i]) /\ BackupSlot(i) < run.machine.cursor
                   => backup[run.tx][i] = "full"
              /\ StageSlot(i) >= run.machine.cursor => stage[run.tx][i] # "full"
<1>1. Locked /\ ControlInv /\ PreparedInv
  BY DEF Awaiting, IInv, RunInv
<1>2. run.cmd = "apply" /\ run.machine.state = "Preparing"
  BY <1>1, StatesOfEffects
<1>3. run \in Runs /\ run.machine \in Machines /\ run.machine.cursor \in Nat
  BY DEF IInv, Runs, Machines
<1>4. run.tx \in Tx /\ journal.phase = "planned" /\ journal # NoJournal
  BY <1>1, <1>2 DEF ControlInv, PlannedStates, NoJournal
<1>5. journal.tx = run.tx
  BY <1>1, <1>2, <1>4 DEF ControlInv
<1>6. run.machine.cursor \in PreparationSlots(plan)
  BY <1>1, <1>2 DEF ControlInv, Inventory
<1>7. \A i \in Ops(plan) :
        /\ NeedsBackup(plan.kinds[i]) /\ BackupSlot(i) < run.machine.cursor
             => backup[run.tx][i] = "full"
        /\ StageSlot(i) >= run.machine.cursor => stage[run.tx][i] # "full"
  BY <1>1, <1>2 DEF PreparedInv
<1>8. QED
  BY <1>1, <1>2, <1>3, <1>4, <1>5, <1>6, <1>7

\* A preparation that has more to do at its slot.
LEMMA PreparingStays ==
  ASSUME IInv, Awaiting("PrepareOne"), KeepBusy, UNCHANGED <<plan, journal>>,
         \A i \in Ops(plan) :
           /\ NeedsBackup(plan.kinds[i]) /\ BackupSlot(i) < run.machine.cursor
                => backup'[run.tx][i] = "full"
           /\ StageSlot(i) >= run.machine.cursor => stage'[run.tx][i] # "full"
  PROVE  run' \in Runs' /\ RunInv'
<1>1. Locked /\ run \in Runs /\ run.machine.state = "Preparing"
  BY PreparingStates
<1>2. /\ run' \in Runs' /\ run'.cmd = run.cmd /\ run'.tx = run.tx /\ run'.machine = run.machine
  BY <1>1, BusyRun
<1>3. ControlInv'
  BY <1>1, <1>2, ControlStays
<1>4. TargetInv' /\ CleanedInv'
  BY <1>1, <1>2 DEF TargetInv, CleanedInv, CleaningStates
<1>5. PreparedInv'
  BY <1>1, <1>2 DEF PreparedInv
<1>6. QED
  BY <1>2, <1>3, <1>4, <1>5 DEF RunInv

\* Preparing a stage keeps the invariant.
LEMMA PrepareStageStep ==
  ASSUME IInv, PrepareStage
  PROVE  IInv'
<1>1. Awaiting("PrepareOne")
  BY DEF PrepareStage
<1>2. PICK i \in Ops(plan) :
        /\ run.machine.cursor = StageSlot(i)
        /\ stage' = [stage EXCEPT ![run.tx][i] = More[@]]
        /\ IF stage'[run.tx][i] = "full" THEN Report(PreparationCompleted(StageSlot(i)))
                                         ELSE KeepBusy
  BY DEF PrepareStage
<1>3. /\ UNCHANGED <<plan, target, edited, container, backup, txdir, journal, pending, waiting,
                     nextTx, crashes, edits>>
  BY DEF PrepareStage
<1>4. /\ Locked /\ run.cmd = "apply" /\ run.machine.state = "Preparing"
      /\ run \in Runs /\ run.machine \in Machines
      /\ run.tx \in Tx /\ journal.tx = run.tx /\ journal.phase = "planned"
      /\ run.machine.cursor \in PreparationSlots(plan)
      /\ \A j \in Ops(plan) :
           /\ NeedsBackup(plan.kinds[j]) /\ BackupSlot(j) < run.machine.cursor
                => backup[run.tx][j] = "full"
           /\ StageSlot(j) >= run.machine.cursor => stage[run.tx][j] # "full"
  BY <1>1, PreparingStates
<1>5. WellFormed(plan) /\ \A j \in Ops(plan) : j \in Nat
  BY PlanIsWellFormed DEF IInv
<1>6. NeedsStage(plan.kinds[i]) /\ StageSlot(i) \in Nat
  BY <1>2, <1>4, <1>5, SlotOrder
<1>7. stage \in [Tx -> [Ops(plan) -> Levels]]
  BY DEF IInv, TypeOK
<1>8. More[stage[run.tx][i]] \in Levels
  <2>1. stage[run.tx][i] \in Levels /\ stage[run.tx][i] # "full"
    BY <1>2, <1>4, <1>6, <1>7
  <2>2. QED
    BY <2>1 DEF More, Levels
<1>9. /\ stage' \in [Tx -> [Ops(plan) -> Levels]]
      /\ \A t \in Tx \ {run.tx} : stage'[t] = stage[t]
      /\ \A j \in Ops(plan) \ {i} : stage'[run.tx][j] = stage[run.tx][j]
  BY <1>2, <1>4, <1>7, <1>8
<1>10. run' \in Runs' /\ RunInv'
  <2>1. CASE stage'[run.tx][i] = "full"
    <3>1. Report(PreparationCompleted(StageSlot(i)))
      BY <1>2, <2>1
    <3>2. Successor(PreparationCompleted(StageSlot(i))) = PrepareAfter(plan, StageSlot(i))
      BY <1>2, <1>4, ApplySuccessors DEF Successor
    <3>3. \A j \in Ops(plan) :
            NeedsBackup(plan.kinds[j]) /\ BackupSlot(j) <= StageSlot(i)
              => backup'[run.tx][j] = "full"
      <4>1. \A j \in Ops(plan) : BackupSlot(j) <= StageSlot(i) => BackupSlot(j) < StageSlot(i)
        BY <1>5 DEF BackupSlot, StageSlot
      <4>2. QED
        BY <1>2, <1>3, <1>4, <4>1
    <3>4. \A j \in Ops(plan) : StageSlot(j) > StageSlot(i) => stage'[run.tx][j] # "full"
      <4>1. \A j \in Ops(plan) : StageSlot(j) > StageSlot(i) => j # i /\ StageSlot(j) >= StageSlot(i)
        BY <1>5 DEF StageSlot
      <4>2. QED
        BY <1>2, <1>4, <1>9, <4>1
    <3>5. QED
      BY <1>3, <1>4, <1>6, <3>1, <3>2, <3>3, <3>4, PreparingGoesOn
  <2>2. CASE stage'[run.tx][i] # "full"
    <3>1. KeepBusy
      BY <1>2, <2>2
    <3>2. \A j \in Ops(plan) : StageSlot(j) >= run.machine.cursor => stage'[run.tx][j] # "full"
      BY <1>4, <1>9, <2>2
    <3>3. \A j \in Ops(plan) : NeedsBackup(plan.kinds[j]) /\ BackupSlot(j) < run.machine.cursor
            => backup'[run.tx][j] = "full"
      BY <1>3, <1>4
    <3>4. QED
      BY <1>1, <1>3, <3>1, <3>2, <3>3, PreparingStays
  <2>3. QED
    BY <2>1, <2>2
<1>11. \A j \in Ops(plan) :
         /\ ~ NeedsStage(plan.kinds[j]) => stage'[run.tx][j] = "none"
         /\ ~ NeedsContainer(plan.kinds[j]) => container'[run.tx][j] = "none"
         /\ ~ NeedsBackup(plan.kinds[j]) => backup'[run.tx][j] = "none"
  BY <1>3, <1>4, <1>6, <1>9 DEF IInv, EvidenceInv
<1>12. \A j \in Ops(plan) : Unowned(container'[run.tx][j])
  BY <1>3, <1>4 DEF IInv, EvidenceInv
<1>13. QED
  BY <1>3, <1>4, <1>9, <1>10, <1>11, <1>12, EffectKeepsInv DEF IInv, TypeOK

\* Copying a backup keeps the invariant.
LEMMA PrepareBackupStep ==
  ASSUME IInv, PrepareBackup
  PROVE  IInv'
<1>1. Awaiting("PrepareOne")
  BY DEF PrepareBackup
<1>2. PICK i \in Ops(plan) :
        /\ run.machine.cursor = BackupSlot(i)
        /\ IF ~ run.busy
             THEN IF target[i] = "old"
                    THEN txdir' = txdir \cup {run.tx} /\ KeepBusy /\ UNCHANGED backup
                    ELSE Fail /\ UNCHANGED <<txdir, backup>>
             ELSE /\ backup' = [backup EXCEPT ![run.tx][i] =
                                  IF @ = "none" THEN "partial" ELSE "full"]
                  /\ IF backup'[run.tx][i] = "full"
                       THEN Report(PreparationCompleted(BackupSlot(i))) ELSE KeepBusy
                  /\ UNCHANGED txdir
  BY DEF PrepareBackup
<1>3. /\ UNCHANGED <<plan, target, edited, stage, container, journal, pending, waiting,
                     nextTx, crashes, edits>>
  BY DEF PrepareBackup
<1>4. /\ Locked /\ run.cmd = "apply" /\ run.machine.state = "Preparing"
      /\ run \in Runs /\ run.machine \in Machines
      /\ run.tx \in Tx /\ journal.tx = run.tx /\ journal.phase = "planned"
      /\ run.machine.cursor \in PreparationSlots(plan)
      /\ \A j \in Ops(plan) :
           /\ NeedsBackup(plan.kinds[j]) /\ BackupSlot(j) < run.machine.cursor
                => backup[run.tx][j] = "full"
           /\ StageSlot(j) >= run.machine.cursor => stage[run.tx][j] # "full"
  BY <1>1, PreparingStates
<1>5. WellFormed(plan) /\ \A j \in Ops(plan) : j \in Nat
  BY PlanIsWellFormed DEF IInv
<1>6. NeedsBackup(plan.kinds[i]) /\ BackupSlot(i) \in Nat
  BY <1>2, <1>4, <1>5, SlotOrder
<1>7. backup \in [Tx -> [Ops(plan) -> {"none", "partial", "full"}]]
  BY DEF IInv, TypeOK
<1>8. /\ backup' \in [Tx -> [Ops(plan) -> {"none", "partial", "full"}]]
      /\ \A t \in Tx \ {run.tx} : backup'[t] = backup[t]
      /\ \A j \in Ops(plan) \ {i} : backup'[run.tx][j] = backup[run.tx][j]
  <2>1. CASE UNCHANGED backup
    BY <1>7, <2>1
  <2>2. CASE backup' = [backup EXCEPT ![run.tx][i] = IF @ = "none" THEN "partial" ELSE "full"]
    BY <1>4, <1>7, <2>2
  <2>3. QED
    BY <1>2, <2>1, <2>2
<1>9. \A j \in Ops(plan) :
        NeedsBackup(plan.kinds[j]) /\ BackupSlot(j) < run.machine.cursor
          => backup'[run.tx][j] = "full"
  <2>1. \A j \in Ops(plan) : BackupSlot(j) < BackupSlot(i) => j # i
    BY <1>5 DEF BackupSlot
  <2>2. QED
    BY <1>2, <1>4, <1>8, <2>1
<1>10. (run' \in Runs' /\ RunInv') \/ run' = NoRun
  <2>1. CASE KeepBusy
    <3>1. \A j \in Ops(plan) : StageSlot(j) >= run.machine.cursor => stage'[run.tx][j] # "full"
      BY <1>3, <1>4
    <3>2. QED
      BY <1>1, <1>3, <1>9, <2>1, <3>1, PreparingStays
  <2>2. CASE Fail
    BY <1>4, <2>2, FailureEndsRun
  <2>3. CASE backup'[run.tx][i] = "full" /\ Report(PreparationCompleted(BackupSlot(i)))
    <3>1. Successor(PreparationCompleted(BackupSlot(i))) = PrepareAfter(plan, BackupSlot(i))
      <4>1. StepTransaction(plan, "pass", run.machine, PreparationCompleted(run.machine.cursor))
              = PrepareAfter(plan, run.machine.cursor)
        BY <1>4, ApplySuccessors
      <4>2. BackupSlot(i) = run.machine.cursor
        BY <1>2
      <4>3. QED
        BY <1>4, <4>1, <4>2 DEF Successor
    <3>2. \A j \in Ops(plan) :
            NeedsBackup(plan.kinds[j]) /\ BackupSlot(j) <= BackupSlot(i)
              => backup'[run.tx][j] = "full"
      <4>1. \A j \in Ops(plan) :
              BackupSlot(j) <= BackupSlot(i) => j = i \/ BackupSlot(j) < BackupSlot(i)
        BY <1>5 DEF BackupSlot
      <4>2. QED
        BY <1>2, <1>9, <2>3, <4>1
    <3>3. \A j \in Ops(plan) : StageSlot(j) > BackupSlot(i) => stage'[run.tx][j] # "full"
      <4>1. \A j \in Ops(plan) : StageSlot(j) > BackupSlot(i) => StageSlot(j) >= BackupSlot(i)
        BY <1>5 DEF StageSlot, BackupSlot
      <4>2. QED
        BY <1>2, <1>3, <1>4, <4>1
    <3>4. QED
      BY <1>3, <1>4, <1>6, <2>3, <3>1, <3>2, <3>3, PreparingGoesOn
  <2>4. QED
    BY <1>2, <2>1, <2>2, <2>3
<1>11. \A j \in Ops(plan) :
         /\ ~ NeedsStage(plan.kinds[j]) => stage'[run.tx][j] = "none"
         /\ ~ NeedsContainer(plan.kinds[j]) => container'[run.tx][j] = "none"
         /\ ~ NeedsBackup(plan.kinds[j]) => backup'[run.tx][j] = "none"
  BY <1>3, <1>4, <1>6, <1>8 DEF IInv, EvidenceInv
<1>12. \A j \in Ops(plan) : Unowned(container'[run.tx][j])
  BY <1>3, <1>4 DEF IInv, EvidenceInv
<1>13. txdir' \subseteq txdir \cup {run.tx}
  BY <1>2
<1>14. /\ stage' \in [Tx -> [Ops(plan) -> Levels]] /\ container' \in [Tx -> [Ops(plan) -> Levels]]
       /\ target' \in [Ops(plan) -> PathStates]
  BY <1>3 DEF IInv, TypeOK
<1>15. QED
  BY <1>3, <1>4, <1>8, <1>10, <1>11, <1>12, <1>13, <1>14, EffectKeepsInv

\* What is known of a command under MUTATING.
LEMMA MutatingCommand ==
  ASSUME IInv, Locked, run.machine.state \in MutatingStates
  PROVE  /\ run \in Runs /\ run.machine \in Machines
         /\ run.tx \in Tx /\ journal.tx = run.tx /\ journal.phase = "mutating"
         /\ run.machine.cursor \in Inventory(run.machine.state)
         /\ run.machine.cursor \in Nat
         /\ \A i \in Ops(plan) : NeedsBackup(plan.kinds[i]) => backup[run.tx][i] = "full"
<1>1. ControlInv /\ JournalInv
  BY DEF IInv, RunInv
<1>2. run \in Runs /\ run.machine \in Machines /\ run.machine.cursor \in Nat
  BY DEF IInv, Runs, Machines
<1>3. /\ run.tx \in Tx /\ journal.phase = "mutating" /\ journal # NoJournal
      /\ run.machine.cursor \in Inventory(run.machine.state)
  BY <1>1 DEF ControlInv, MutatingStates, NoJournal
<1>4. journal.tx = run.tx
  BY <1>1, <1>3 DEF ControlInv, MutatingStates
<1>5. \A i \in Ops(plan) : NeedsBackup(plan.kinds[i]) => backup[run.tx][i] = "full"
  BY <1>1, <1>3, <1>4 DEF JournalInv, BackupUntilSettled
<1>6. QED
  BY <1>2, <1>3, <1>4, <1>5

\* Mutating one path keeps the invariant.
LEMMA ApplyOneStep ==
  ASSUME IInv, ApplyOne
  PROVE  IInv'
<1>1. PICK i \in Ops(plan) :
        /\ run.machine.cursor = i
        /\ IF MayApply(i)
             THEN /\ target' = [target EXCEPT ![i] = "new"]
                  /\ stage' = [stage EXCEPT ![run.tx][i] =
                                 IF NeedsStage(plan.kinds[i]) THEN "marked" ELSE @]
                  /\ Report(OperationApplied(i))
             ELSE Fail /\ UNCHANGED <<target, stage>>
  BY DEF ApplyOne
<1>2. UNCHANGED <<plan, edited, container, backup, txdir, journal, pending, waiting,
                  nextTx, crashes, edits>>
  BY DEF ApplyOne
<1>3. /\ Locked /\ ControlInv /\ PreparedInv
      /\ run.cmd = "apply" /\ run.machine.state = "Installing"
  BY StatesOfEffects DEF ApplyOne, Awaiting, IInv, RunInv
<1>4. /\ run \in Runs /\ run.machine \in Machines
      /\ run.tx \in Tx /\ journal.tx = run.tx /\ journal.phase = "mutating"
      /\ \A j \in Ops(plan) : NeedsBackup(plan.kinds[j]) => backup[run.tx][j] = "full"
  BY <1>3, MutatingCommand DEF MutatingStates
<1>5. /\ target \in [Ops(plan) -> PathStates]
      /\ stage \in [Tx -> [Ops(plan) -> Levels]] /\ container \in [Tx -> [Ops(plan) -> Levels]]
      /\ backup \in [Tx -> [Ops(plan) -> {"none", "partial", "full"}]]
  BY DEF IInv, TypeOK
<1>6. "marked" \in Levels /\ "new" \in PathStates
  BY DEF Levels, PathStates
<1>7. /\ target' \in [Ops(plan) -> PathStates]
      /\ stage' \in [Tx -> [Ops(plan) -> Levels]]
      /\ \A t \in Tx \ {run.tx} : stage'[t] = stage[t]
  <2>1. CASE UNCHANGED <<target, stage>>
    BY <1>5, <2>1
  <2>2. CASE /\ target' = [target EXCEPT ![i] = "new"]
             /\ stage' = [stage EXCEPT ![run.tx][i] =
                            IF NeedsStage(plan.kinds[i]) THEN "marked" ELSE @]
    BY <1>4, <1>5, <1>6, <2>2
  <2>3. QED
    BY <1>1, <2>1, <2>2
<1>8. \A j \in Ops(plan) : ~ NeedsStage(plan.kinds[j]) => stage'[run.tx][j] = "none"
  <2>1. \A j \in Ops(plan) : ~ NeedsStage(plan.kinds[j]) => stage[run.tx][j] = "none"
    BY <1>4 DEF IInv, EvidenceInv
  <2>2. CASE UNCHANGED <<target, stage>>
    BY <2>1, <2>2
  <2>3. CASE stage' = [stage EXCEPT ![run.tx][i] =
                         IF NeedsStage(plan.kinds[i]) THEN "marked" ELSE @]
    BY <1>4, <1>5, <2>1, <2>3
  <2>4. QED
    BY <1>1, <2>2, <2>3
<1>9. (run' \in Runs' /\ RunInv') \/ run' = NoRun
  <2>1. CASE Fail
    BY <1>4, <2>1, FailureEndsRun
  <2>2. CASE Report(OperationApplied(i))
    <3>1. Successor(OperationApplied(i)) = InstallAfter(plan, i)
      BY <1>1, <1>3, <1>4, ApplySuccessors DEF Successor
    <3>2. i \in 0 .. Len(plan.kinds)
      BY PlanIsWellFormed DEF IInv
    <3>3. \A j \in Ops(plan) : Unowned(container'[run.tx][j])
      BY <1>2, <1>3 DEF PreparedInv
    <3>4. QED
      BY <1>2, <1>3, <1>4, <2>2, <3>1, <3>2, <3>3, InstallationGoesOn
  <2>3. QED
    BY <1>1, <2>1, <2>2
<1>10. \A j \in Ops(plan) :
         /\ ~ NeedsStage(plan.kinds[j]) => stage'[run.tx][j] = "none"
         /\ ~ NeedsContainer(plan.kinds[j]) => container'[run.tx][j] = "none"
         /\ ~ NeedsBackup(plan.kinds[j]) => backup'[run.tx][j] = "none"
  BY <1>2, <1>4, <1>8 DEF IInv, EvidenceInv
<1>11. QED
  BY <1>2, <1>3, <1>4, <1>5, <1>7, <1>9, <1>10, EffectKeepsInv

-----------------------------------------------------------------------------
(* Verification and rollback.                                               *)

\* A rollback goes on before operation i, or the pre-state is back.
LEMMA RollbackGoesOn ==
  ASSUME IInv, Locked, UNCHANGED plan, run.tx \in Tx,
         NEW e, Report(e), NEW i \in 1 .. Len(plan.kinds) + 1,
         run.cmd = "apply" => Successor(e) = RollbackBefore(plan, i),
         run.cmd # "apply" => Successor(e) = RestoreBefore(plan, i),
         journal'.phase = "mutating", journal'.tx = run.tx,
         \A j \in Ops(plan) : j >= i /\ j \notin edited' => target'[j] = "old"
  PROVE  run' \in Runs' /\ RunInv' /\ Locked'
<1>1. /\ WellFormed(plan) /\ run \in Runs /\ Len(plan.kinds) \in Nat
      /\ i \in 0 .. Len(plan.kinds) + 1 /\ i >= 1
      /\ \A j \in Ops(plan) : j \in Nat /\ j >= 1
  BY PlanIsWellFormed DEF IInv
<1>2. /\ "RollingBack" \in States /\ "NeedRestoredJournal" \in States
      /\ "VerifyingRestored" \in RecoveryStates /\ "NeedRestoredJournal" \in RecoveryStates
  BY DEF States, RecoveryStates
<1>3. /\ "AttemptRollbackOne" \in Effects /\ "PersistJournal" \in Effects
      /\ "ObserveAgain" \in Effects
  BY DEF Effects
<1>4. CASE i = 1 /\ run.cmd = "apply"
           /\ Successor(e) = Continue("NeedRestoredJournal", 0, "PersistJournal")
  <2>1. 0 \in Nat /\ "NeedRestoredJournal" \in States \cup RecoveryStates
        /\ "PersistJournal" \in Effects
    BY <1>2, <1>3
  <2>2. run \in Runs
    BY <1>1
  <2>3. Entered("NeedRestoredJournal", 0, "PersistJournal")
    BY <1>4, <2>1, <2>2, ReportEnters
  <2>4. /\ run' \in Runs' /\ Locked' /\ run'.machine.state = "NeedRestoredJournal"
        /\ run'.machine.cursor = 0 /\ run'.machine.awaiting = "PersistJournal"
    BY <2>3 DEF Entered
  <2>5. run'.tx = run.tx /\ run'.cmd = run.cmd
    BY <2>3 DEF Entered
  <2>6. AllUntouched("old")'
    BY <1>1, <1>4 DEF AllUntouched, Untouched, Ops
  <2>7. RunInv'
    BY <1>2, <1>4, <2>3, <2>4, <2>5, <2>6, EntersPlainState
    DEF Inventory, EffectOf, UnjournaledStates, MutatingStates, RestoredStates, SealedStates
  <2>8. QED
    BY <2>4, <2>7
<1>5. CASE i = 1 /\ run.cmd # "apply"
           /\ Successor(e) = Continue("VerifyingRestored", 0, "ObserveAgain")
  <2>1. 0 \in Nat /\ "VerifyingRestored" \in States \cup RecoveryStates
        /\ "ObserveAgain" \in Effects
    BY <1>2, <1>3
  <2>2. run \in Runs
    BY <1>1
  <2>3. Entered("VerifyingRestored", 0, "ObserveAgain")
    BY <1>5, <2>1, <2>2, ReportEnters
  <2>4. /\ run' \in Runs' /\ Locked' /\ run'.machine.state = "VerifyingRestored"
        /\ run'.machine.cursor = 0 /\ run'.machine.awaiting = "ObserveAgain"
    BY <2>3 DEF Entered
  <2>5. run'.tx = run.tx /\ run'.cmd = run.cmd
    BY <2>3 DEF Entered
  <2>6. AllUntouched("old")'
    BY <1>1, <1>5 DEF AllUntouched, Untouched, Ops
  <2>7. RunInv'
    BY <1>2, <1>5, <2>3, <2>4, <2>5, <2>6, EntersPlainState
    DEF Inventory, EffectOf, UnjournaledStates, MutatingStates, RestoredStates, SealedStates
  <2>8. QED
    BY <2>4, <2>7
<1>6. CASE i - 1 \in Ops(plan)
           /\ Successor(e) = Continue("RollingBack", i - 1, "AttemptRollbackOne")
  <2>1. i - 1 \in Nat /\ "RollingBack" \in States \cup RecoveryStates
        /\ "AttemptRollbackOne" \in Effects
    BY <1>1, <1>2, <1>3
  <2>2. run \in Runs
    BY <1>1
  <2>3. Entered("RollingBack", i - 1, "AttemptRollbackOne")
    BY <1>6, <2>1, <2>2, ReportEnters
  <2>4. /\ run' \in Runs' /\ Locked' /\ run'.machine.state = "RollingBack"
        /\ run'.machine.cursor = i - 1 /\ run'.machine.awaiting = "AttemptRollbackOne"
    BY <2>3 DEF Entered
  <2>5. run'.tx = run.tx /\ run'.busy = FALSE
    BY <2>3 DEF Entered
  <2>6. \A j \in Ops(plan') :
          j > run'.machine.cursor /\ j \notin edited' => target'[j] = "old"
    <3>1. \A j \in Ops(plan) : j > i - 1 => j >= i
      BY <1>1
    <3>2. QED
      BY <2>4, <3>1
  <2>7. run'.machine.cursor \in Ops(plan')
    BY <1>6, <2>4
  <2>8. RunInv'
    BY <2>3, <2>4, <2>5, <2>6, <2>7, EntersRollingBack
  <2>9. QED
    BY <2>4, <2>8
<1>7. \/ /\ RollbackBefore(plan, i) = Continue("NeedRestoredJournal", 0, "PersistJournal")
         /\ RestoreBefore(plan, i) = Continue("VerifyingRestored", 0, "ObserveAgain")
         /\ i = 1
      \/ /\ RollbackBefore(plan, i) = Continue("RollingBack", i - 1, "AttemptRollbackOne")
         /\ RestoreBefore(plan, i) = Continue("RollingBack", i - 1, "AttemptRollbackOne")
         /\ i - 1 \in Ops(plan)
  BY <1>1, CursorResults
<1>8. QED
  BY <1>4, <1>5, <1>6, <1>7

\* The final observation keeps the invariant: SEALED is next only when every
\* path is at its planned new state.
LEMMA ObservePostStateStep ==
  ASSUME IInv, ObservePostState
  PROVE  IInv'
<1>1. PICK valid \in BOOLEAN :
        Report(PostStateObserved(valid, MatchesCandidate(plan, target)))
  BY DEF ObservePostState
<1>2. /\ UNCHANGED <<plan, target, edited, evidence, journal, pending, waiting, nextTx,
                     crashes, edits>>
  BY DEF ObservePostState
<1>3. /\ Locked /\ ControlInv /\ PreparedInv
      /\ run.cmd = "apply" /\ run.machine.state = "Verifying"
  BY StatesOfEffects DEF ObservePostState, Awaiting, IInv, RunInv
<1>4. /\ run \in Runs /\ run.machine \in Machines
      /\ run.tx \in Tx /\ journal.tx = run.tx /\ journal.phase = "mutating"
  BY <1>3, MutatingCommand DEF MutatingStates
<1>5. PICK matches : matches = MatchesCandidate(plan, target)
  OBVIOUS
<1>6. Successor(PostStateObserved(valid, matches))
        = AfterVerification(plan, "pass", valid, matches)
  BY <1>3 DEF Successor, StepTransaction, PostStateObserved
<1>7. run' \in Runs' /\ RunInv' /\ Locked'
  <2>1. CASE valid /\ matches
    <3>1. Successor(PostStateObserved(valid, matches))
            = Continue("NeedSealedJournal", 0, "PersistJournal")
      BY <1>6, <2>1 DEF AfterVerification, PersistThen
    <3>2. /\ 0 \in Nat /\ "NeedSealedJournal" \in States \cup RecoveryStates
          /\ "NeedSealedJournal" \in States /\ "PersistJournal" \in Effects
      BY DEF States, Effects
    <3>3. UNCHANGED plan /\ Report(PostStateObserved(valid, matches))
      BY <1>1, <1>2, <1>5
    <3>4. Entered("NeedSealedJournal", 0, "PersistJournal")
      BY <1>3, <1>4, <3>1, <3>2, <3>3, ReportEnters
    <3>5. /\ run' \in Runs' /\ Locked' /\ run'.machine.state = "NeedSealedJournal"
          /\ run'.machine.cursor = 0 /\ run'.machine.awaiting = "PersistJournal"
      BY <3>4 DEF Entered
    <3>6. run'.tx = run.tx /\ run'.cmd = run.cmd
      BY <3>4 DEF Entered
    <3>7. AllUntouched("new")'
      BY <1>2, <1>5, <2>1 DEF AllUntouched, MatchesCandidate, Ops
    <3>8. \A j \in Ops(plan') : Unowned(container'[run'.tx][j])
      BY <1>2, <1>3, <3>6 DEF PreparedInv, evidence
    <3>9. RunInv'
      BY <1>2, <1>3, <1>4, <3>2, <3>4, <3>5, <3>6, <3>7, <3>8, EntersPlainState
      DEF Inventory, EffectOf, UnjournaledStates, MutatingStates, RestoredStates, SealedStates
    <3>10. QED
      BY <3>5, <3>9
  <2>2. CASE ~ (valid /\ matches)
    <3>1. Successor(PostStateObserved(valid, matches))
            = RollbackBefore(plan, Len(plan.kinds) + 1)
      BY <1>6, <2>2 DEF AfterVerification, EnterRollback
    <3>2. /\ Len(plan.kinds) + 1 \in 1 .. Len(plan.kinds) + 1
          /\ \A j \in Ops(plan) : ~ (j >= Len(plan.kinds) + 1)
      BY PlanIsWellFormed DEF IInv
    <3>3. UNCHANGED plan /\ Report(PostStateObserved(valid, matches))
          /\ journal'.phase = "mutating" /\ journal'.tx = run.tx
      BY <1>1, <1>2, <1>4, <1>5
    <3>4. QED
      BY <1>3, <1>4, <3>1, <3>2, <3>3, RollbackGoesOn
  <2>3. QED
    BY <2>1, <2>2
<1>8. pending' \in BOOLEAN /\ crashes' \in Nat
  BY <1>2 DEF IInv, TypeOK
<1>9. QED
  BY <1>2, <1>3, <1>7, <1>8, RunKeepsInv

\* What is known of a command that rolls back.
LEMMA RollingBackStates ==
  ASSUME IInv, Awaiting("AttemptRollbackOne")
  PROVE  /\ Locked /\ run.machine.state = "RollingBack"
         /\ run \in Runs /\ run.machine \in Machines
         /\ run.tx \in Tx /\ journal.tx = run.tx /\ journal.phase = "mutating"
         /\ run.machine.cursor \in Ops(plan)
         /\ run.machine.cursor \in 1 .. Len(plan.kinds) + 1 /\ run.machine.cursor >= 1
         /\ \A i \in Ops(plan) : NeedsBackup(plan.kinds[i]) => backup[run.tx][i] = "full"
         /\ \A i \in Ops(plan) : i > run.machine.cursor /\ i \notin edited => target[i] = "old"
         /\ run.busy => target[run.machine.cursor] = "new"
         /\ run.busy => NeedsContainer(plan.kinds[run.machine.cursor])
         /\ run.busy => container[run.tx][run.machine.cursor] \in
              (IF plan.kinds[run.machine.cursor] = "CreateTree" THEN {"bare", "torn", "marked"}
               ELSE {"bare", "torn", "marked", "partial", "full"})
<1>1. Locked /\ TargetInv /\ PreparedInv /\ run.machine.state = "RollingBack"
  BY StatesOfEffects DEF Awaiting, IInv, RunInv
<1>2. /\ run \in Runs /\ run.machine \in Machines
      /\ run.tx \in Tx /\ journal.tx = run.tx /\ journal.phase = "mutating"
      /\ run.machine.cursor \in Inventory("RollingBack")
      /\ \A i \in Ops(plan) : NeedsBackup(plan.kinds[i]) => backup[run.tx][i] = "full"
  BY <1>1, MutatingCommand DEF MutatingStates
<1>3. run.machine.cursor \in Ops(plan)
  BY <1>2 DEF Inventory
<1>4. run.machine.cursor \in 1 .. Len(plan.kinds) + 1 /\ run.machine.cursor >= 1
  BY <1>3, PlanIsWellFormed DEF IInv
<1>5. /\ \A i \in Ops(plan) : i > run.machine.cursor /\ i \notin edited => target[i] = "old"
      /\ run.busy => target[run.machine.cursor] = "new"
      /\ run.busy => NeedsContainer(plan.kinds[run.machine.cursor])
  BY <1>1 DEF TargetInv, Untouched
<1>6. run.busy => container[run.tx][run.machine.cursor] \in
        (IF plan.kinds[run.machine.cursor] = "CreateTree" THEN {"bare", "torn", "marked"}
         ELSE {"bare", "torn", "marked", "partial", "full"})
  BY <1>1 DEF PreparedInv
<1>7. QED
  BY <1>1, <1>2, <1>3, <1>4, <1>5, <1>6

\* A restored operation is followed by the one before it.
LEMMA OperationRestored ==
  ASSUME IInv, Awaiting("AttemptRollbackOne"), UNCHANGED <<plan, edited, journal>>,
         Report(RollbackStepCompleted(run.machine.cursor)),
         target' = target \/ target' = [target EXCEPT ![run.machine.cursor] = "old"],
         target'[run.machine.cursor] = "old"
  PROVE  run' \in Runs' /\ RunInv'
<1>1. /\ Locked /\ run.machine.state = "RollingBack"
      /\ run \in Runs /\ run.machine \in Machines
      /\ run.tx \in Tx /\ journal.tx = run.tx /\ journal.phase = "mutating"
      /\ run.machine.cursor \in Ops(plan)
      /\ run.machine.cursor \in 1 .. Len(plan.kinds) + 1 /\ run.machine.cursor >= 1
      /\ \A i \in Ops(plan) : i > run.machine.cursor /\ i \notin edited => target[i] = "old"
  BY RollingBackStates
<1>2. RollbackStepCompleted(run.machine.cursor).type # "EffectFailed"
  BY DEF RollbackStepCompleted
<1>3. run.cmd = "apply" => Successor(RollbackStepCompleted(run.machine.cursor))
                             = RollbackBefore(plan, run.machine.cursor)
  BY <1>1, ApplySuccessors DEF Successor
<1>4. run.cmd # "apply" => Successor(RollbackStepCompleted(run.machine.cursor))
                             = RestoreBefore(plan, run.machine.cursor)
  <2>1. StepRecovery(plan, run.machine, RollbackStepCompleted(run.machine.cursor))
          = RestoreBefore(plan, run.machine.cursor)
    BY <1>1, <1>2, RecoverySuccessors
  <2>2. QED
    BY <2>1 DEF Successor
<1>5. \A j \in Ops(plan) : j >= run.machine.cursor /\ j \notin edited' => target'[j] = "old"
  <2>1. \A j \in Ops(plan) :
          j >= run.machine.cursor => j = run.machine.cursor \/ j > run.machine.cursor
    <3>1. run.machine.cursor \in Nat /\ \A j \in Ops(plan) : j \in Nat
      BY <1>1, PlanIsWellFormed DEF IInv
    <3>2. QED
      BY <3>1
  <2>2. \A j \in Ops(plan) : target[j] = "old" => target'[j] = "old"
    BY <1>1 DEF IInv, TypeOK
  <2>3. QED
    BY <1>1, <2>1, <2>2
<1>6. QED
  BY <1>1, <1>3, <1>4, <1>5, RollbackGoesOn

\* A rollback that is building the container of its operation.
LEMMA RollingBackStays ==
  ASSUME IInv, Awaiting("AttemptRollbackOne"), UNCHANGED <<plan, target, edited, journal>>,
         run' \in Runs', run'.cmd = run.cmd, run'.tx = run.tx, run'.machine = run.machine,
         target[run.machine.cursor] = "new",
         NeedsContainer(plan.kinds[run.machine.cursor]),
         container'[run.tx][run.machine.cursor] \in
           (IF plan.kinds[run.machine.cursor] = "CreateTree" THEN {"bare", "torn", "marked"}
            ELSE {"bare", "torn", "marked", "partial", "full"})
  PROVE  RunInv'
<1>1. /\ Locked /\ run.machine.state = "RollingBack"
      /\ \A i \in Ops(plan) : i > run.machine.cursor /\ i \notin edited => target[i] = "old"
  BY RollingBackStates
<1>2. ControlInv'
  BY <1>1, ControlStays
<1>3. TargetInv'
  BY <1>1 DEF TargetInv, Untouched, Ops
<1>4. PreparedInv' /\ CleanedInv'
  BY <1>1 DEF PreparedInv, CleanedInv, CleaningStates
<1>5. QED
  BY <1>2, <1>3, <1>4 DEF RunInv

\* What changes on the disk when a rollback mutates path i or its container.
LEMMA RollbackKeepsInv ==
  ASSUME IInv, Awaiting("AttemptRollbackOne"), NEW i \in Ops(plan),
         UNCHANGED <<plan, edited, stage, backup, txdir, journal, pending, waiting, nextTx,
                     crashes, edits>>,
         target' = target \/ target' = [target EXCEPT ![i] = "old"],
         \/ container' = container
         \/ /\ NeedsContainer(plan.kinds[i])
            /\ \E level \in Levels : container' = [container EXCEPT ![run.tx][i] = level],
         (run' \in Runs' /\ RunInv') \/ run' = NoRun
  PROVE  IInv'
<1>1. /\ Locked /\ run.tx \in Tx /\ journal.tx = run.tx /\ journal.phase = "mutating"
      /\ \A j \in Ops(plan) : NeedsBackup(plan.kinds[j]) => backup[run.tx][j] = "full"
  BY RollingBackStates
<1>2. /\ target \in [Ops(plan) -> PathStates]
      /\ stage \in [Tx -> [Ops(plan) -> Levels]] /\ container \in [Tx -> [Ops(plan) -> Levels]]
      /\ backup \in [Tx -> [Ops(plan) -> {"none", "partial", "full"}]]
  BY DEF IInv, TypeOK
<1>3. target' \in [Ops(plan) -> PathStates]
  BY <1>2 DEF PathStates
<1>4. /\ container' \in [Tx -> [Ops(plan) -> Levels]]
      /\ \A t \in Tx \ {run.tx} : container'[t] = container[t]
      /\ \A j \in Ops(plan) \ {i} : container'[run.tx][j] = container[run.tx][j]
      /\ ~ NeedsContainer(plan.kinds[i]) => container'[run.tx][i] = container[run.tx][i]
  <2>1. CASE container' = container
    BY <1>2, <2>1
  <2>2. CASE /\ NeedsContainer(plan.kinds[i])
             /\ \E level \in Levels : container' = [container EXCEPT ![run.tx][i] = level]
    <3>1. PICK level \in Levels : container' = [container EXCEPT ![run.tx][i] = level]
      BY <2>2
    <3>2. QED
      BY <1>1, <1>2, <2>2, <3>1
  <2>3. QED
    BY <2>1, <2>2
<1>5. \A j \in Ops(plan) :
        /\ ~ NeedsStage(plan.kinds[j]) => stage'[run.tx][j] = "none"
        /\ ~ NeedsContainer(plan.kinds[j]) => container'[run.tx][j] = "none"
        /\ ~ NeedsBackup(plan.kinds[j]) => backup'[run.tx][j] = "none"
  <2>1. \A j \in Ops(plan) :
          /\ ~ NeedsStage(plan.kinds[j]) => stage[run.tx][j] = "none"
          /\ ~ NeedsContainer(plan.kinds[j]) => container[run.tx][j] = "none"
          /\ ~ NeedsBackup(plan.kinds[j]) => backup[run.tx][j] = "none"
    BY <1>1 DEF IInv, EvidenceInv
  <2>2. QED
    BY <1>4, <2>1
<1>6. QED
  BY <1>1, <1>2, <1>3, <1>4, <1>5, EffectKeepsInv

\* One rollback decision, and what it starts, keeps the invariant.
LEMMA AttemptRollbackOneStep ==
  ASSUME IInv, AttemptRollbackOne
  PROVE  IInv'
<1>1. Awaiting("AttemptRollbackOne") /\ ~ run.busy
  BY DEF AttemptRollbackOne
<1>2. UNCHANGED <<plan, edited, stage, backup, txdir, journal, pending, waiting, nextTx,
                  crashes, edits>>
  BY DEF AttemptRollbackOne
<1>3. /\ Locked /\ run \in Runs /\ run.tx \in Tx
      /\ target \in [Ops(plan) -> PathStates]
      /\ container \in [Tx -> [Ops(plan) -> Levels]]
  BY <1>1, RollingBackStates DEF IInv, TypeOK
<1>4. PICK i \in Ops(plan) :
        /\ run.machine.cursor = i
        /\ \/ /\ Decision(i) = "AlreadyRestored"
              /\ Report(RollbackStepCompleted(i))
              /\ UNCHANGED <<target, container>>
           \/ /\ Decision(i) = "Restore" /\ ~ NeedsContainer(plan.kinds[i])
              /\ target' = [target EXCEPT ![i] = "old"]
              /\ Report(RollbackStepCompleted(i))
              /\ UNCHANGED container
           \/ /\ Decision(i) = "Restore" /\ NeedsContainer(plan.kinds[i]) /\ MayBuild(i)
              /\ container' = [container EXCEPT ![run.tx][i] = "bare"]
              /\ run' = [run EXCEPT !.busy = TRUE, !.alloc = TRUE, !.mine = @ \cup {i}]
              /\ UNCHANGED target
           \/ /\ \/ Decision(i) = "ThirdState"
                 \/ Decision(i) = "Restore" /\ NeedsContainer(plan.kinds[i]) /\ ~ MayBuild(i)
              /\ Fail
              /\ UNCHANGED <<target, container>>
  BY DEF AttemptRollbackOne
<1>5. CASE /\ Decision(i) = "AlreadyRestored"
           /\ Report(RollbackStepCompleted(i))
           /\ UNCHANGED <<target, container>>
  <2>1. target'[i] = "old"
    BY <1>5 DEF Decision, RollbackDecision
  <2>2. run' \in Runs' /\ RunInv'
    BY <1>1, <1>2, <1>4, <1>5, <2>1, OperationRestored
  <2>3. QED
    BY <1>1, <1>2, <1>5, <2>2, RollbackKeepsInv
<1>6. CASE /\ target' = [target EXCEPT ![i] = "old"]
           /\ Report(RollbackStepCompleted(i))
           /\ UNCHANGED container
  <2>1. target'[i] = "old"
    BY <1>3, <1>6
  <2>2. run' \in Runs' /\ RunInv'
    BY <1>1, <1>2, <1>4, <1>6, <2>1, OperationRestored
  <2>3. QED
    BY <1>1, <1>2, <1>6, <2>2, RollbackKeepsInv
<1>7. CASE /\ Decision(i) = "Restore" /\ NeedsContainer(plan.kinds[i])
           /\ container' = [container EXCEPT ![run.tx][i] = "bare"]
           /\ run' = [run EXCEPT !.busy = TRUE, !.alloc = TRUE, !.mine = @ \cup {i}]
           /\ UNCHANGED target
  <2>1. /\ run' \in Runs' /\ run'.cmd = run.cmd /\ run'.tx = run.tx /\ run'.machine = run.machine
    BY <1>2, <1>3, <1>7 DEF Runs, Ops
  <2>2. target[i] = "new"
    BY <1>7 DEF Decision, RollbackDecision
  <2>3. container'[run.tx][i] = "bare" /\ "bare" \in Levels
    BY <1>3, <1>7 DEF Levels
  <2>4. container'[run.tx][i] \in
          (IF plan.kinds[i] = "CreateTree" THEN {"bare", "torn", "marked"}
           ELSE {"bare", "torn", "marked", "partial", "full"})
    BY <2>3
  <2>5. RunInv'
    BY <1>1, <1>2, <1>4, <1>7, <2>1, <2>2, <2>4, RollingBackStays
  <2>6. QED
    BY <1>1, <1>2, <1>7, <2>1, <2>3, <2>5, RollbackKeepsInv
<1>8. CASE Fail /\ UNCHANGED <<target, container>>
  <2>1. run' = NoRun
    BY <1>3, <1>8, FailureEndsRun
  <2>2. QED
    BY <1>1, <1>2, <1>8, <2>1, RollbackKeepsInv
<1>9. QED
  BY <1>4, <1>5, <1>6, <1>7, <1>8

\* Building a container and restoring through it keeps the invariant.
LEMMA BuildContainerStep ==
  ASSUME IInv, BuildContainer
  PROVE  IInv'
<1>1. Awaiting("AttemptRollbackOne") /\ run.busy
  BY DEF BuildContainer
<1>2. UNCHANGED <<plan, edited, stage, backup, txdir, journal, pending, waiting, nextTx,
                  crashes, edits>>
  BY DEF BuildContainer
<1>3. PICK i \in Ops(plan) :
        /\ run.machine.cursor = i
        /\ IF container[run.tx][i] = RenameLevel(plan.kinds[i])
             THEN RestoreRename(i)
             ELSE /\ container' = [container EXCEPT ![run.tx][i] = More[@]]
                  /\ KeepBusy
                  /\ UNCHANGED target
  BY DEF BuildContainer
<1>4. /\ Locked /\ run \in Runs /\ run.tx \in Tx
      /\ target \in [Ops(plan) -> PathStates]
      /\ container \in [Tx -> [Ops(plan) -> Levels]]
      /\ target[i] = "new" /\ NeedsContainer(plan.kinds[i])
      /\ container[run.tx][i] \in
           (IF plan.kinds[i] = "CreateTree" THEN {"bare", "torn", "marked"}
            ELSE {"bare", "torn", "marked", "partial", "full"})
  BY <1>1, <1>3, RollingBackStates DEF IInv, TypeOK
<1>5. CASE RestoreRename(i)
  <2>1. target' = [target EXCEPT ![i] = "old"] /\ Report(RollbackStepCompleted(i))
    BY <1>5 DEF RestoreRename
  <2>2. PICK level \in Levels : container' = [container EXCEPT ![run.tx][i] = level]
    BY <1>5 DEF RestoreRename, Levels
  <2>3. target'[i] = "old"
    BY <1>4, <2>1
  <2>4. run' \in Runs' /\ RunInv'
    BY <1>1, <1>2, <1>3, <2>1, <2>3, OperationRestored
  <2>5. QED
    BY <1>1, <1>2, <1>4, <2>1, <2>2, <2>4, RollbackKeepsInv
<1>6. CASE /\ container[run.tx][i] # RenameLevel(plan.kinds[i])
           /\ container' = [container EXCEPT ![run.tx][i] = More[@]]
           /\ KeepBusy
           /\ UNCHANGED target
  <2>1. /\ run' \in Runs' /\ run'.cmd = run.cmd /\ run'.tx = run.tx /\ run'.machine = run.machine
    BY <1>2, <1>4, <1>6, BusyRun
  <2>2. PICK level : level = More[container[run.tx][i]]
    OBVIOUS
  <2>3. level \in (IF plan.kinds[i] = "CreateTree" THEN {"bare", "torn", "marked"}
                   ELSE {"bare", "torn", "marked", "partial", "full"})
    BY <1>4, <1>6, <2>2 DEF More, RenameLevel
  <2>4. level \in Levels
    BY <2>3 DEF Levels
  <2>5. container' = [container EXCEPT ![run.tx][i] = level]
    BY <1>4, <1>6, <2>2
  <2>6. container'[run.tx][i] = level
    BY <1>4, <2>5
  <2>7. RunInv'
    BY <1>1, <1>2, <1>3, <1>4, <1>6, <2>1, <2>3, <2>6, RollingBackStays
  <2>8. QED
    BY <1>1, <1>2, <1>4, <1>6, <2>1, <2>4, <2>5, <2>7, RollbackKeepsInv
<1>7. QED
  BY <1>3, <1>5, <1>6

-----------------------------------------------------------------------------
(* Cleanup.                                                                 *)

\* What is known of a command that cleans up.
LEMMA CleaningCommand ==
  ASSUME IInv, Awaiting("CleanOne")
  PROVE  /\ Locked /\ run \in Runs /\ run.machine \in Machines
         /\ run.machine.state \in CleaningStates
         /\ run.cmd = "apply" => run.machine.state # "Discarding"
         /\ run.tx \in Tx /\ journal.tx = run.tx
         /\ journal.phase = CleanupPhase(run.machine.state)
         /\ run.machine.cursor \in Inventory(run.machine.state)
         /\ run.machine.cursor \in Nat
         /\ CleanedBelow(plan, run.machine.cursor, stage[run.tx], container[run.tx],
                         backup[run.tx], run.tx \in txdir)
<1>1. Locked /\ ControlInv /\ CleanedInv
  BY DEF Awaiting, IInv, RunInv
<1>2. /\ run.machine.state \in CleaningStates
      /\ run.cmd = "apply" => run.machine.state # "Discarding"
  BY <1>1, StatesOfEffects DEF CleaningStates
<1>3. run \in Runs /\ run.machine \in Machines /\ run.machine.cursor \in Nat
  BY DEF IInv, Runs, Machines
<1>4. /\ run.machine.state = "Discarding" => journal.phase = "planned"
      /\ run.machine.state = "CleaningRollback" => journal.phase = "restored"
      /\ run.machine.state = "CleaningForward" => journal.phase = "sealed"
      /\ run.tx \in Tx
      /\ run.machine.cursor \in Inventory(run.machine.state)
  BY <1>1, <1>2 DEF ControlInv, PlannedStates, RestoredStates, SealedStates, CleaningStates
<1>5. journal.phase = CleanupPhase(run.machine.state)
  BY <1>2, <1>4 DEF CleanupPhase, CleaningStates
<1>6. journal # NoJournal
  BY <1>2, <1>4 DEF CleaningStates, NoJournal
<1>7. journal.tx = run.tx
  BY <1>1, <1>2, <1>6 DEF ControlInv, CleaningStates
<1>8. CleanedBelow(plan, run.machine.cursor, stage[run.tx], container[run.tx],
                   backup[run.tx], run.tx \in txdir)
  BY <1>1, <1>2 DEF CleanedInv
<1>9. QED
  BY <1>1, <1>2, <1>3, <1>4, <1>5, <1>7, <1>8

\* A cleaned slot before the journal's is followed by the next one.
LEMMA CleaningGoesOn ==
  ASSUME IInv, Awaiting("CleanOne"), UNCHANGED <<plan, journal>>, EvidenceInv',
         NEW k, k = run.machine.cursor, k < JournalSlot(plan), Report(CleanupCompleted(k)),
         \A i \in Ops(plan) :
           /\ StageSlot(i) <= k => Unowned(stage'[run.tx][i])
           /\ BackupSlot(i) <= k => backup'[run.tx][i] = "none"
           /\ RollbackSlot(plan, i) <= k => Unowned(container'[run.tx][i]),
         DirectorySlot(plan) <= k => run.tx \notin txdir'
  PROVE  run' \in Runs' /\ RunInv'
<1>1. /\ Locked /\ run \in Runs /\ run.machine \in Machines
      /\ run.machine.state \in CleaningStates
      /\ run.cmd = "apply" => run.machine.state # "Discarding"
      /\ run.tx \in Tx /\ journal.tx = run.tx
      /\ journal.phase = CleanupPhase(run.machine.state)
      /\ k \in Inventory(run.machine.state) /\ k \in Nat
  BY CleaningCommand
<1>2. WellFormed(plan) /\ plan \in Plans
  BY PlanIsWellFormed DEF IInv, TypeOK
<1>3. PICK s \in CleaningStates : s = run.machine.state
  BY <1>1
<1>4. PICK slots : slots = Inventory(s)
  OBVIOUS
<1>5. /\ s = "Discarding" => slots = DiscardSlots(plan)
      /\ s = "CleaningRollback" => slots = CleanupSlots(plan, "restored")
      /\ s = "CleaningForward" => slots = CleanupSlots(plan, "sealed")
  BY <1>4 DEF Inventory
<1>6. CleanupCompleted(k).type # "EffectFailed"
  BY DEF CleanupCompleted
<1>7. /\ s = "Discarding" => Successor(CleanupCompleted(k)) = DiscardAfter(plan, k)
      /\ s = "CleaningRollback" =>
           Successor(CleanupCompleted(k)) = CleanAfter(plan, "CleaningRollback", "restored", k)
      /\ s = "CleaningForward" =>
           Successor(CleanupCompleted(k)) = CleanAfter(plan, "CleaningForward", "sealed", k)
  <2>1. CASE run.cmd = "apply"
    <3>1. Successor(CleanupCompleted(k))
            = StepTransaction(plan, "pass", run.machine, CleanupCompleted(k))
      BY <2>1 DEF Successor
    <3>2. s # "Discarding"
      BY <1>1, <1>3, <2>1
    <3>3. k \in slots
      BY <1>1, <1>3, <1>4
    <3>4. QED
      BY <1>1, <1>3, <1>5, <3>1, <3>2, <3>3, ApplySuccessors
  <2>2. CASE run.cmd # "apply"
    <3>1. Successor(CleanupCompleted(k)) = StepRecovery(plan, run.machine, CleanupCompleted(k))
      BY <2>2 DEF Successor
    <3>2. QED
      BY <1>1, <1>3, <1>6, <3>1, RecoverySuccessors
  <2>3. QED
    BY <2>1, <2>2
<1>8. JournalSlot(plan) \in slots /\ ~ (JournalSlot(plan) <= k)
  <2>1. JournalSlot(plan) \in slots
    BY <1>3, <1>5 DEF CleaningStates, DiscardSlots, CleanupSlots
  <2>2. JournalSlot(plan) \in Nat
    BY PlanIsWellFormed DEF IInv, JournalSlot
  <2>3. QED
    BY <1>1, <2>1, <2>2
<1>9. PICK n \in slots :
        /\ Successor(CleanupCompleted(k)) = Continue(s, n, "CleanOne")
        /\ n \in Nat /\ \A l \in slots : l > k => n <= l
  <2>1. CASE s = "Discarding"
    BY <1>1, <1>2, <1>5, <1>7, <1>8, <2>1, DiscardAfterResult
  <2>2. CASE s = "CleaningRollback"
    <3>1. "restored" \in Phases
      BY DEF Phases
    <3>2. QED
      BY <1>1, <1>2, <1>5, <1>7, <1>8, <2>2, <3>1, CleanAfterResult
  <2>3. CASE s = "CleaningForward"
    <3>1. "sealed" \in Phases
      BY DEF Phases
    <3>2. QED
      BY <1>1, <1>2, <1>5, <1>7, <1>8, <2>3, <3>1, CleanAfterResult
  <2>4. QED
    BY <2>1, <2>2, <2>3 DEF CleaningStates
<1>10. s \in States \cup RecoveryStates /\ "CleanOne" \in Effects /\ n \in Nat
  BY <1>9 DEF CleaningStates, States, RecoveryStates, Effects
<1>11. /\ run' \in Runs' /\ Locked' /\ run'.machine.state = s
       /\ run'.machine.cursor = n /\ run'.machine.awaiting = "CleanOne"
       /\ run'.tx = run.tx /\ run'.cmd = run.cmd
  <2>1. Entered(s, n, "CleanOne")
    BY <1>1, <1>9, <1>10, ReportEnters
  <2>2. QED
    BY <2>1 DEF Entered
<1>12. run'.machine.cursor = n /\ run'.machine.awaiting = "CleanOne"
  BY <1>11
<1>13. run'.tx = run.tx /\ run'.cmd = run.cmd
  BY <1>11
<1>14. Inventory(s)' = slots
  BY <1>4 DEF Inventory
<1>15. RunInv'
  <2>1. plan' \in Plans /\ n \in Inventory(s)' /\ \A l \in Inventory(s)' : l > k => n <= l
    BY <1>2, <1>9, <1>14
  <2>2. run'.tx \in Tx /\ journal'.tx = run'.tx /\ journal'.phase = CleanupPhase(s)
    BY <1>1, <1>3, <1>13
  <2>3. run'.cmd = "apply" => s # "Discarding"
    BY <1>1, <1>3, <1>13
  <2>4. /\ \A i \in Ops(plan') :
             /\ StageSlot(i) <= k => Unowned(stage'[run'.tx][i])
             /\ BackupSlot(i) <= k => backup'[run'.tx][i] = "none"
             /\ RollbackSlot(plan', i) <= k => Unowned(container'[run'.tx][i])
        /\ DirectorySlot(plan') <= k => run'.tx \notin txdir'
    BY <1>13
  <2>5. k \in Nat /\ n \in Nat
    BY <1>1, <1>9
  <2>6. QED
    BY <1>11, <1>12, <2>1, <2>2, <2>3, <2>4, <2>5, EntersCleaning
<1>16. QED
  BY <1>11, <1>15

\* At most is less or equal.
LEMMA AtMostSplits ==
  ASSUME NEW a \in Nat, NEW b \in Nat, a <= b
  PROVE  a = b \/ a < b
OBVIOUS

\* One step of the cleanup of a slot before the journal's removes evidence of
\* the run's own transaction, and completes only a clean slot.
LEMMA CleaningKeepsInv ==
  ASSUME IInv, Awaiting("CleanOne"),
         UNCHANGED <<plan, target, edited, journal, pending, waiting, nextTx, crashes, edits>>,
         stage' \in [Tx -> [Ops(plan) -> Levels]],
         container' \in [Tx -> [Ops(plan) -> Levels]],
         backup' \in [Tx -> [Ops(plan) -> {"none", "partial", "full"}]],
         txdir' \subseteq txdir,
         \A t \in Tx \ {run.tx} : /\ stage'[t] = stage[t]
                                  /\ container'[t] = container[t]
                                  /\ backup'[t] = backup[t],
         \A i \in Ops(plan) :
           /\ stage[run.tx][i] = "none" => stage'[run.tx][i] = "none"
           /\ Unowned(stage[run.tx][i]) => Unowned(stage'[run.tx][i])
           /\ container[run.tx][i] = "none" => container'[run.tx][i] = "none"
           /\ Unowned(container[run.tx][i]) => Unowned(container'[run.tx][i])
           /\ backup[run.tx][i] = "none" => backup'[run.tx][i] = "none",
         \/ Fail
         \/ KeepBusy
         \/ /\ Report(CleanupCompleted(run.machine.cursor))
            /\ run.machine.cursor < JournalSlot(plan)
            /\ \A i \in Ops(plan) :
                 /\ StageSlot(i) = run.machine.cursor => Unowned(stage'[run.tx][i])
                 /\ BackupSlot(i) = run.machine.cursor => backup'[run.tx][i] = "none"
                 /\ RollbackSlot(plan, i) = run.machine.cursor => Unowned(container'[run.tx][i])
            /\ DirectorySlot(plan) = run.machine.cursor => run.tx \notin txdir'
  PROVE  IInv'
<1>1. /\ Locked /\ run \in Runs
      /\ run.machine.state \in CleaningStates
      /\ run.tx \in Tx /\ journal.tx = run.tx
      /\ journal.phase = CleanupPhase(run.machine.state)
      /\ run.machine.cursor \in Nat
      /\ CleanedBelow(plan, run.machine.cursor, stage[run.tx], container[run.tx],
                      backup[run.tx], run.tx \in txdir)
  BY CleaningCommand
<1>2. journal.phase # "mutating"
  BY <1>1 DEF CleanupPhase, CleaningStates
<1>3. \A i \in Ops(plan) :
        /\ ~ NeedsStage(plan.kinds[i]) => stage'[run.tx][i] = "none"
        /\ ~ NeedsContainer(plan.kinds[i]) => container'[run.tx][i] = "none"
        /\ ~ NeedsBackup(plan.kinds[i]) => backup'[run.tx][i] = "none"
  BY <1>1 DEF IInv, EvidenceInv
<1>4. journal.phase \in {"planned", "sealed"} =>
        \A i \in Ops(plan) : Unowned(container'[run.tx][i])
  BY <1>1 DEF IInv, EvidenceInv
<1>5. target' \in [Ops(plan) -> PathStates] /\ txdir' \subseteq txdir \cup {run.tx}
  BY DEF IInv, TypeOK
<1>6. EvidenceInv' /\ (((run' \in Runs' /\ RunInv') \/ run' = NoRun) => IInv')
  BY <1>1, <1>2, <1>3, <1>4, <1>5, EffectKeepsInv
<1>7. /\ \A i \in Ops(plan) :
           /\ StageSlot(i) < run.machine.cursor => Unowned(stage'[run.tx][i])
           /\ BackupSlot(i) < run.machine.cursor => backup'[run.tx][i] = "none"
           /\ RollbackSlot(plan, i) < run.machine.cursor => Unowned(container'[run.tx][i])
      /\ DirectorySlot(plan) < run.machine.cursor => run.tx \notin txdir'
  BY <1>1 DEF CleanedBelow
<1>8. CASE Fail
  BY <1>1, <1>6, <1>8, FailureEndsRun
<1>9. CASE KeepBusy
  <2>1. /\ run' \in Runs' /\ run'.cmd = run.cmd /\ run'.tx = run.tx /\ run'.machine = run.machine
    BY <1>1, <1>9, BusyRun
  <2>2. ControlInv'
    BY <1>1, <2>1, ControlStays
  <2>3. TargetInv' /\ PreparedInv'
    BY <1>1, <2>1 DEF TargetInv, PreparedInv, CleaningStates
  <2>4. CleanedInv'
    BY <1>7, <2>1 DEF CleanedInv, CleanedBelow
  <2>5. QED
    BY <1>6, <2>1, <2>2, <2>3, <2>4 DEF RunInv
<1>10. CASE /\ Report(CleanupCompleted(run.machine.cursor))
            /\ run.machine.cursor < JournalSlot(plan)
            /\ \A i \in Ops(plan) :
                 /\ StageSlot(i) = run.machine.cursor => Unowned(stage'[run.tx][i])
                 /\ BackupSlot(i) = run.machine.cursor => backup'[run.tx][i] = "none"
                 /\ RollbackSlot(plan, i) = run.machine.cursor => Unowned(container'[run.tx][i])
            /\ DirectorySlot(plan) = run.machine.cursor => run.tx \notin txdir'
  <2>1. WellFormed(plan)
    BY PlanIsWellFormed DEF IInv
  <2>2. DirectorySlot(plan) \in Nat
    BY PlanIsWellFormed DEF IInv, DirectorySlot
  <2>3. \A i \in Ops(plan) :
          /\ StageSlot(i) <= run.machine.cursor => Unowned(stage'[run.tx][i])
          /\ BackupSlot(i) <= run.machine.cursor => backup'[run.tx][i] = "none"
          /\ RollbackSlot(plan, i) <= run.machine.cursor => Unowned(container'[run.tx][i])
    <3>1. \A i \in Ops(plan) : /\ StageSlot(i) \in Nat /\ BackupSlot(i) \in Nat
                               /\ RollbackSlot(plan, i) \in Nat
      BY <2>1, SlotOrder
    <3>2. run.machine.cursor \in Nat
      BY <1>1
    <3>3. \A n \in Nat : n <= run.machine.cursor => n = run.machine.cursor \/ n < run.machine.cursor
      BY <3>2, AtMostSplits
    <3>4. QED
      BY <1>7, <1>10, <3>1, <3>3
  <2>4. DirectorySlot(plan) <= run.machine.cursor => run.tx \notin txdir'
    <3>1. run.machine.cursor \in Nat
      BY <1>1
    <3>2. DirectorySlot(plan) <= run.machine.cursor =>
            DirectorySlot(plan) = run.machine.cursor \/ DirectorySlot(plan) < run.machine.cursor
      BY <2>2, <3>1, AtMostSplits
    <3>3. QED
      BY <1>7, <1>10, <3>2
  <2>5. run' \in Runs' /\ RunInv'
    BY <1>6, <1>10, <2>3, <2>4, CleaningGoesOn
  <2>6. QED
    BY <1>6, <2>5
<1>11. QED
  BY <1>8, <1>9, <1>10

\* The slots are pairwise different.
LEMMA SlotsDiffer ==
  ASSUME NEW p, WellFormed(p), NEW i \in Ops(p), NEW j \in Ops(p)
  PROVE  /\ StageSlot(i) = StageSlot(j) => i = j
         /\ BackupSlot(i) = BackupSlot(j) => i = j
         /\ RollbackSlot(p, i) = RollbackSlot(p, j) => i = j
         /\ StageSlot(i) # BackupSlot(j) /\ StageSlot(i) # RollbackSlot(p, j)
         /\ BackupSlot(i) # RollbackSlot(p, j)
         /\ DirectorySlot(p) \notin {StageSlot(i), BackupSlot(i), RollbackSlot(p, i)}
<1>1. Len(p.kinds) \in Nat /\ i \in 1 .. Len(p.kinds) /\ j \in 1 .. Len(p.kinds)
  BY OpsAreNatural
<1>2. QED
  BY <1>1 DEF StageSlot, BackupSlot, RollbackSlot, DirectorySlot

\* The outcomes of one step of a removal.
LEMMA RemoveResult ==
  ASSUME NEW level \in Levels, NEW next, NEW i, NEW slot, Remove(level, next, i, slot)
  PROVE  /\ level = "none" => next = "none"
         /\ Unowned(level) => Unowned(next)
         /\ Fail \/ KeepBusy \/ (Report(CleanupCompleted(slot)) /\ Unowned(next))
<1>1. level = "none" => Less(level) = {"none"}
  BY DEF Less
<1>2. level = "bare" => Less(level) = {"none"}
  BY DEF Less
<1>3. level = "none" => next = "none"
  BY <1>1 DEF Remove
<1>4. Unowned(level) => Unowned(next)
  BY <1>1, <1>2 DEF Remove, Unowned
<1>5. Fail \/ KeepBusy \/ (Report(CleanupCompleted(slot)) /\ Unowned(next))
  BY DEF Remove, Unowned
<1>6. QED
  BY <1>3, <1>4, <1>5

\* Cleaning a stage keeps the invariant.
LEMMA CleanStageStep ==
  ASSUME IInv, CleanStage
  PROVE  IInv'
<1>1. PICK i \in Ops(plan), next \in Levels :
        /\ run.machine.cursor = StageSlot(i)
        /\ Remove(stage[run.tx][i], next, i, StageSlot(i))
        /\ stage' = [stage EXCEPT ![run.tx][i] = next]
  BY DEF CleanStage
<1>2. /\ Awaiting("CleanOne")
      /\ UNCHANGED <<plan, target, edited, container, backup, txdir, journal, pending,
                     waiting, nextTx, crashes, edits>>
  BY DEF CleanStage
<1>3. run.tx \in Tx /\ WellFormed(plan)
  BY <1>2, CleaningCommand, PlanIsWellFormed DEF IInv
<1>4. /\ stage \in [Tx -> [Ops(plan) -> Levels]] /\ container \in [Tx -> [Ops(plan) -> Levels]]
      /\ backup \in [Tx -> [Ops(plan) -> {"none", "partial", "full"}]]
  BY DEF IInv, TypeOK
<1>5. stage[run.tx][i] \in Levels
  BY <1>3, <1>4
<1>6. /\ stage[run.tx][i] = "none" => next = "none"
      /\ Unowned(stage[run.tx][i]) => Unowned(next)
      /\ Fail \/ KeepBusy \/ (Report(CleanupCompleted(StageSlot(i))) /\ Unowned(next))
  BY <1>1, <1>5, RemoveResult
<1>7. /\ stage' \in [Tx -> [Ops(plan) -> Levels]]
      /\ \A t \in Tx \ {run.tx} : stage'[t] = stage[t]
      /\ stage'[run.tx][i] = next
      /\ \A j \in Ops(plan) \ {i} : stage'[run.tx][j] = stage[run.tx][j]
  BY <1>1, <1>3, <1>4
<1>8. \A j \in Ops(plan) :
        /\ stage[run.tx][j] = "none" => stage'[run.tx][j] = "none"
        /\ Unowned(stage[run.tx][j]) => Unowned(stage'[run.tx][j])
  BY <1>6, <1>7
<1>9. /\ StageSlot(i) < JournalSlot(plan)
      /\ \A j \in Ops(plan) : StageSlot(j) = StageSlot(i) => j = i
      /\ \A j \in Ops(plan) : BackupSlot(j) # StageSlot(i) /\ RollbackSlot(plan, j) # StageSlot(i)
      /\ DirectorySlot(plan) # StageSlot(i)
  BY <1>3, SlotOrder, SlotsDiffer
<1>10. \/ Fail
       \/ KeepBusy
       \/ /\ Report(CleanupCompleted(run.machine.cursor))
          /\ run.machine.cursor < JournalSlot(plan)
          /\ \A j \in Ops(plan) :
               /\ StageSlot(j) = run.machine.cursor => Unowned(stage'[run.tx][j])
               /\ BackupSlot(j) = run.machine.cursor => backup'[run.tx][j] = "none"
               /\ RollbackSlot(plan, j) = run.machine.cursor => Unowned(container'[run.tx][j])
          /\ DirectorySlot(plan) = run.machine.cursor => run.tx \notin txdir'
  BY <1>1, <1>6, <1>7, <1>9
<1>11. QED
  BY <1>2, <1>4, <1>7, <1>8, <1>10, CleaningKeepsInv

\* Cleaning a rollback container keeps the invariant.
LEMMA CleanContainerStep ==
  ASSUME IInv, CleanContainer
  PROVE  IInv'
<1>1. PICK i \in Ops(plan), next \in Levels :
        /\ run.machine.cursor = RollbackSlot(plan, i)
        /\ IF run.alloc /\ (Unowned(container[run.tx][i]) \/ i \in run.mine)
             THEN Remove(container[run.tx][i], next, i, RollbackSlot(plan, i))
             ELSE next = container[run.tx][i] /\ Fail
        /\ container' = [container EXCEPT ![run.tx][i] = next]
  BY DEF CleanContainer
<1>2. /\ Awaiting("CleanOne")
      /\ UNCHANGED <<plan, target, edited, stage, backup, txdir, journal, pending, waiting,
                     nextTx, crashes, edits>>
  BY DEF CleanContainer
<1>3. run.tx \in Tx /\ WellFormed(plan)
  BY <1>2, CleaningCommand, PlanIsWellFormed DEF IInv
<1>4. /\ stage \in [Tx -> [Ops(plan) -> Levels]] /\ container \in [Tx -> [Ops(plan) -> Levels]]
      /\ backup \in [Tx -> [Ops(plan) -> {"none", "partial", "full"}]]
  BY DEF IInv, TypeOK
<1>5. container[run.tx][i] \in Levels
  BY <1>3, <1>4
<1>6. /\ container[run.tx][i] = "none" => next = "none"
      /\ Unowned(container[run.tx][i]) => Unowned(next)
      /\ Fail \/ KeepBusy \/ (Report(CleanupCompleted(RollbackSlot(plan, i))) /\ Unowned(next))
  <2>1. CASE Remove(container[run.tx][i], next, i, RollbackSlot(plan, i))
    BY <1>5, <2>1, RemoveResult
  <2>2. CASE next = container[run.tx][i] /\ Fail
    BY <2>2
  <2>3. QED
    BY <1>1, <2>1, <2>2
<1>7. /\ container' \in [Tx -> [Ops(plan) -> Levels]]
      /\ \A t \in Tx \ {run.tx} : container'[t] = container[t]
      /\ container'[run.tx][i] = next
      /\ \A j \in Ops(plan) \ {i} : container'[run.tx][j] = container[run.tx][j]
  BY <1>1, <1>3, <1>4
<1>8. \A j \in Ops(plan) :
        /\ container[run.tx][j] = "none" => container'[run.tx][j] = "none"
        /\ Unowned(container[run.tx][j]) => Unowned(container'[run.tx][j])
  BY <1>6, <1>7
<1>9. /\ RollbackSlot(plan, i) < JournalSlot(plan)
      /\ \A j \in Ops(plan) : RollbackSlot(plan, j) = RollbackSlot(plan, i) => j = i
      /\ \A j \in Ops(plan) : BackupSlot(j) # RollbackSlot(plan, i)
                              /\ StageSlot(j) # RollbackSlot(plan, i)
      /\ DirectorySlot(plan) # RollbackSlot(plan, i)
  <2>1. RollbackSlot(plan, i) < JournalSlot(plan)
    BY <1>3, SlotOrder
  <2>2. QED
    BY <1>3, <2>1, SlotsDiffer
<1>10. \/ Fail
       \/ KeepBusy
       \/ /\ Report(CleanupCompleted(run.machine.cursor))
          /\ run.machine.cursor < JournalSlot(plan)
          /\ \A j \in Ops(plan) :
               /\ StageSlot(j) = run.machine.cursor => Unowned(stage'[run.tx][j])
               /\ BackupSlot(j) = run.machine.cursor => backup'[run.tx][j] = "none"
               /\ RollbackSlot(plan, j) = run.machine.cursor => Unowned(container'[run.tx][j])
          /\ DirectorySlot(plan) = run.machine.cursor => run.tx \notin txdir'
  BY <1>1, <1>6, <1>7, <1>9
<1>11. QED
  BY <1>2, <1>4, <1>7, <1>8, <1>10, CleaningKeepsInv

\* Cleaning a backup keeps the invariant.
LEMMA CleanBackupStep ==
  ASSUME IInv, CleanBackup
  PROVE  IInv'
<1>1. PICK i \in Ops(plan) :
        /\ run.machine.cursor = BackupSlot(i)
        /\ IF backup[run.tx][i] = "partial"
             THEN Fail /\ UNCHANGED backup
             ELSE /\ backup' = [backup EXCEPT ![run.tx][i] = "none"]
                  /\ Report(CleanupCompleted(BackupSlot(i)))
  BY DEF CleanBackup
<1>2. /\ Awaiting("CleanOne")
      /\ UNCHANGED <<plan, target, edited, stage, container, txdir, journal, pending, waiting,
                     nextTx, crashes, edits>>
  BY DEF CleanBackup
<1>3. run.tx \in Tx /\ WellFormed(plan)
  BY <1>2, CleaningCommand, PlanIsWellFormed DEF IInv
<1>4. /\ stage \in [Tx -> [Ops(plan) -> Levels]] /\ container \in [Tx -> [Ops(plan) -> Levels]]
      /\ backup \in [Tx -> [Ops(plan) -> {"none", "partial", "full"}]]
  BY DEF IInv, TypeOK
<1>5. /\ backup' \in [Tx -> [Ops(plan) -> {"none", "partial", "full"}]]
      /\ \A t \in Tx \ {run.tx} : backup'[t] = backup[t]
      /\ \A j \in Ops(plan) : backup[run.tx][j] = "none" => backup'[run.tx][j] = "none"
      /\ Fail \/ (Report(CleanupCompleted(BackupSlot(i))) /\ backup'[run.tx][i] = "none")
  <2>1. CASE Fail /\ UNCHANGED backup
    BY <1>4, <2>1
  <2>2. CASE /\ backup' = [backup EXCEPT ![run.tx][i] = "none"]
             /\ Report(CleanupCompleted(BackupSlot(i)))
    BY <1>3, <1>4, <2>2
  <2>3. QED
    BY <1>1, <2>1, <2>2
<1>6. /\ BackupSlot(i) < JournalSlot(plan)
      /\ \A j \in Ops(plan) : BackupSlot(j) = BackupSlot(i) => j = i
      /\ \A j \in Ops(plan) : StageSlot(j) # BackupSlot(i) /\ RollbackSlot(plan, j) # BackupSlot(i)
      /\ DirectorySlot(plan) # BackupSlot(i)
  <2>1. BackupSlot(i) < JournalSlot(plan)
    BY <1>3, SlotOrder
  <2>2. QED
    BY <1>3, <2>1, SlotsDiffer
<1>7. \/ Fail
      \/ /\ Report(CleanupCompleted(run.machine.cursor))
         /\ run.machine.cursor < JournalSlot(plan)
         /\ \A j \in Ops(plan) :
              /\ StageSlot(j) = run.machine.cursor => Unowned(stage'[run.tx][j])
              /\ BackupSlot(j) = run.machine.cursor => backup'[run.tx][j] = "none"
              /\ RollbackSlot(plan, j) = run.machine.cursor => Unowned(container'[run.tx][j])
         /\ DirectorySlot(plan) = run.machine.cursor => run.tx \notin txdir'
  BY <1>1, <1>5, <1>6
<1>8. QED
  BY <1>2, <1>4, <1>5, <1>7, CleaningKeepsInv

\* Pruning the transaction directory keeps the invariant: every backup is gone.
LEMMA CleanDirectoryStep ==
  ASSUME IInv, CleanDirectory
  PROVE  IInv'
<1>1. /\ Awaiting("CleanOne")
      /\ run.machine.cursor = DirectorySlot(plan)
      /\ txdir' = IF \A i \in Ops(plan) : backup[run.tx][i] = "none"
                    THEN txdir \ {run.tx} ELSE txdir
      /\ Report(CleanupCompleted(DirectorySlot(plan)))
      /\ UNCHANGED <<plan, target, edited, stage, container, backup, journal, pending,
                     waiting, nextTx, crashes, edits>>
  BY DEF CleanDirectory
<1>2. /\ run.tx \in Tx
      /\ CleanedBelow(plan, run.machine.cursor, stage[run.tx], container[run.tx],
                      backup[run.tx], run.tx \in txdir)
      /\ WellFormed(plan)
  BY <1>1, CleaningCommand, PlanIsWellFormed DEF IInv
<1>3. DirectorySlot(plan) < JournalSlot(plan)
  BY PlanIsWellFormed DEF IInv, DirectorySlot, JournalSlot
<1>4. \A i \in Ops(plan) :
        /\ BackupSlot(i) < DirectorySlot(plan)
        /\ StageSlot(i) # DirectorySlot(plan) /\ BackupSlot(i) # DirectorySlot(plan)
        /\ RollbackSlot(plan, i) # DirectorySlot(plan)
  <2>1. \A i \in Ops(plan) : BackupSlot(i) < DirectorySlot(plan)
    BY <1>2, SlotOrder
  <2>2. QED
    BY <1>2, <2>1, SlotsDiffer
<1>5. \A i \in Ops(plan) : backup[run.tx][i] = "none"
  BY <1>1, <1>2, <1>4 DEF CleanedBelow
<1>6. run.tx \notin txdir' /\ txdir' \subseteq txdir
  BY <1>1, <1>5
<1>7. /\ stage \in [Tx -> [Ops(plan) -> Levels]] /\ container \in [Tx -> [Ops(plan) -> Levels]]
      /\ backup \in [Tx -> [Ops(plan) -> {"none", "partial", "full"}]]
  BY DEF IInv, TypeOK
<1>8. QED
  BY <1>1, <1>3, <1>4, <1>6, <1>7, CleaningKeepsInv

\* A finished cleanup or discard is followed by the release of the lock.
LEMMA ReleaseFollows ==
  ASSUME IInv, Locked, UNCHANGED plan, NEW e, Report(e),
         Successor(e) = Continue("Releasing", 0, "ReleaseLock"), journal' = NoJournal
  PROVE  run' \in Runs' /\ RunInv'
<1>1. /\ 0 \in Nat /\ "Releasing" \in States \cup RecoveryStates /\ "ReleaseLock" \in Effects
      /\ "Releasing" \in States /\ "Releasing" \in RecoveryStates
  BY DEF States, RecoveryStates, Effects
<1>2. run \in Runs
  BY DEF IInv
<1>3. run' \in Runs' /\ Locked' /\ run'.machine.state = "Releasing"
  BY <1>1, <1>2, ReportContinues
<1>4. run'.machine.cursor = 0 /\ run'.machine.awaiting = "ReleaseLock"
  BY <1>1, <1>2, ReportContinues
<1>5. RunInv'
  BY <1>1, <1>3, <1>4, EntersPlainState
  DEF Inventory, EffectOf, UnjournaledStates, MutatingStates, RestoredStates, SealedStates
<1>6. QED
  BY <1>3, <1>5

\* After the journal's slot nothing is left to clean.
LEMMA JournalIsLast ==
  ASSUME IInv, Awaiting("CleanOne"), run.machine.cursor = JournalSlot(plan)
  PROVE  Successor(CleanupCompleted(JournalSlot(plan))) = Continue("Releasing", 0, "ReleaseLock")
<1>1. /\ Locked /\ run \in Runs /\ run.machine \in Machines
      /\ run.machine.state \in CleaningStates
      /\ run.cmd = "apply" => run.machine.state # "Discarding"
  BY CleaningCommand
<1>2. WellFormed(plan) /\ Len(plan.kinds) \in Nat
  BY PlanIsWellFormed DEF IInv
<1>3. PICK k \in Nat : k = JournalSlot(plan)
  BY <1>2 DEF JournalSlot
<1>4. PICK m \in Machines : m = run.machine /\ m.cursor = k
  BY <1>1, <1>3
<1>5. CleanupCompleted(k).type # "EffectFailed"
  BY DEF CleanupCompleted
<1>6. /\ \A l \in CleanupSlots(plan, "restored") : ~ (l > k)
      /\ \A l \in CleanupSlots(plan, "sealed") : ~ (l > k)
      /\ \A l \in DiscardSlots(plan) : ~ (l > k)
  <2>1. \A i \in Ops(plan) : /\ i \in Nat
                             /\ ~ (StageSlot(i) > k) /\ ~ (BackupSlot(i) > k)
                             /\ ~ (RollbackSlot(plan, i) > k)
    BY <1>2, <1>3, SlotOrder
  <2>2. ~ (DirectorySlot(plan) > k) /\ ~ (JournalSlot(plan) > k)
    BY <1>2, <1>3 DEF DirectorySlot, JournalSlot
  <2>3. \A l \in PreparationSlots(plan) \cup RollbackSlots(plan) : ~ (l > k)
    BY <2>1 DEF PreparationSlots, RollbackSlots
  <2>4. QED
    BY <2>2, <2>3 DEF CleanupSlots, DiscardSlots
<1>7. k \in CleanupSlots(plan, "restored") /\ k \in CleanupSlots(plan, "sealed")
  BY <1>3 DEF CleanupSlots
<1>8. "restored" \in Phases /\ "sealed" \in Phases
  BY DEF Phases
<1>9. /\ CleanAfter(plan, "CleaningRollback", "restored", k)
           = Continue("Releasing", 0, "ReleaseLock")
      /\ CleanAfter(plan, "CleaningForward", "sealed", k)
           = Continue("Releasing", 0, "ReleaseLock")
      /\ DiscardAfter(plan, k) = Continue("Releasing", 0, "ReleaseLock")
  <2>1. CleanAfter(plan, "CleaningRollback", "restored", k)
          = Continue("Releasing", 0, "ReleaseLock")
    BY <1>2, <1>3, <1>6, <1>8, CleanAfterResult
  <2>2. CleanAfter(plan, "CleaningForward", "sealed", k)
          = Continue("Releasing", 0, "ReleaseLock")
    BY <1>2, <1>3, <1>6, <1>8, CleanAfterResult
  <2>3. DiscardAfter(plan, k) = Continue("Releasing", 0, "ReleaseLock")
    BY <1>2, <1>3, <1>6, DiscardAfterResult
  <2>4. QED
    BY <2>1, <2>2, <2>3
<1>10. Successor(CleanupCompleted(k)) = Continue("Releasing", 0, "ReleaseLock")
  <2>1. CASE run.cmd = "apply"
    <3>1. Successor(CleanupCompleted(k)) = StepTransaction(plan, "pass", m, CleanupCompleted(k))
      BY <1>4, <2>1 DEF Successor
    <3>2. m.state = "CleaningRollback" \/ m.state = "CleaningForward"
      BY <1>1, <1>4, <2>1 DEF CleaningStates
    <3>3. QED
      BY <1>4, <1>7, <1>9, <3>1, <3>2, ApplySuccessors
  <2>2. CASE run.cmd # "apply"
    <3>1. Successor(CleanupCompleted(k)) = StepRecovery(plan, m, CleanupCompleted(k))
      BY <1>4, <2>2 DEF Successor
    <3>2. m.state = "CleaningRollback" \/ m.state = "CleaningForward" \/ m.state = "Discarding"
      BY <1>1, <1>4 DEF CleaningStates
    <3>3. QED
      BY <1>4, <1>5, <1>9, <3>1, <3>2, RecoverySuccessors
  <2>3. QED
    BY <2>1, <2>2
<1>11. QED
  BY <1>3, <1>10

\* Deleting the journal keeps the invariant: the target is settled, and no
\* evidence is left that the journal was needed for.
LEMMA CleanJournalStep ==
  ASSUME IInv, CleanJournal
  PROVE  IInv'
<1>1. /\ Awaiting("CleanOne")
      /\ run.machine.cursor = JournalSlot(plan)
      /\ \/ Fail /\ UNCHANGED journal
         \/ journal' = NoJournal /\ Report(CleanupCompleted(JournalSlot(plan)))
      /\ UNCHANGED <<plan, target, edited, evidence, pending, waiting, nextTx, crashes, edits>>
  BY DEF CleanJournal
<1>2. UNCHANGED <<stage, container, backup, txdir>>
  BY <1>1 DEF evidence
<1>3. /\ Locked /\ run \in Runs
      /\ run.machine.state \in CleaningStates
      /\ run.tx \in Tx /\ journal.tx = run.tx
      /\ journal.phase = CleanupPhase(run.machine.state)
      /\ CleanedBelow(plan, run.machine.cursor, stage[run.tx], container[run.tx],
                      backup[run.tx], run.tx \in txdir)
      /\ WellFormed(plan)
  BY <1>1, CleaningCommand, PlanIsWellFormed DEF IInv
<1>4. CASE Fail /\ UNCHANGED journal
  <2>1. run' = NoRun
    BY <1>3, <1>4, FailureEndsRun
  <2>2. pending' \in BOOLEAN /\ crashes' \in Nat
    BY <1>1 DEF IInv, TypeOK
  <2>3. QED
    BY <1>1, <1>3, <1>4, <2>1, <2>2, StopKeepsInv
<1>5. CASE journal' = NoJournal /\ Report(CleanupCompleted(JournalSlot(plan)))
  <2>1. run' \in Runs' /\ RunInv'
    BY <1>1, <1>3, <1>5, JournalIsLast, ReleaseFollows
  <2>2. journal'.phase = "none" /\ journal'.tx = 0 /\ journal'.extra = FALSE
    BY <1>5 DEF NoJournal
  <2>3. JournalInv'
    <3>1. \/ AllUntouched("old")
          \/ AllUntouched("new")
      BY <1>3 DEF IInv, JournalInv, PlannedMeansUntouched, RestoredMeansPreState,
         SealedMeansCandidate, AllUntouched, CleanupPhase
    <3>2. NoJournalMeansSettled'
      BY <1>1, <3>1 DEF NoJournalMeansSettled, AllUntouched, Untouched, Ops
    <3>3. QED
      BY <1>5, <2>2, <3>2 DEF JournalInv, PlannedMeansUntouched, RestoredMeansPreState,
         SealedMeansCandidate, BackupUntilSettled, NoJournal
  <2>4. EvidenceInv'
    <3>1. \A i \in Ops(plan) :
            /\ StageSlot(i) < JournalSlot(plan) /\ BackupSlot(i) < JournalSlot(plan)
            /\ RollbackSlot(plan, i) < JournalSlot(plan)
      BY <1>3, SlotOrder
    <3>2. DirectorySlot(plan) < JournalSlot(plan)
      BY PlanIsWellFormed DEF IInv, DirectorySlot, JournalSlot
    <3>3. /\ run.tx \notin txdir
          /\ \A i \in Ops(plan) : /\ Unowned(stage[run.tx][i]) /\ Unowned(container[run.tx][i])
                                  /\ backup[run.tx][i] = "none"
      BY <1>1, <1>3, <3>1, <3>2 DEF CleanedBelow
    <3>4. \A t \in Tx :
            /\ t \notin txdir
            /\ \A i \in Ops(plan) :
                 Unowned(stage[t][i]) /\ Unowned(container[t][i]) /\ backup[t][i] = "none"
      BY <1>3, <3>3 DEF IInv, EvidenceInv, EvidenceIsJournaled
    <3>5. EvidenceIsJournaled'
      BY <1>1, <1>2, <3>4 DEF EvidenceIsJournaled, Ops, Unowned, Tx
    <3>6. \A t \in Tx, i \in Ops(plan) :
            /\ ~ NeedsStage(plan.kinds[i]) => stage[t][i] = "none"
            /\ ~ NeedsContainer(plan.kinds[i]) => container[t][i] = "none"
            /\ ~ NeedsBackup(plan.kinds[i]) => backup[t][i] = "none"
      BY DEF IInv, EvidenceInv
    <3>7. QED
      BY <1>1, <1>2, <2>2, <3>5, <3>6 DEF EvidenceInv, Ops, Tx
  <2>5. WaitingInv'
    BY <1>1, <1>3, LockedCommandsWait
  <2>6. TypeOK'
    <3>1. /\ run'.machine.state \in States \cup RecoveryStates
          /\ run'.tx \in 0 .. MaxTx
          /\ run'.mine \subseteq Ops(plan)
      BY <1>1, <2>1 DEF Runs, Machines, Ops
    <3>2. journal' \in [phase : Phases \cup {"none"}, tx : 0 .. MaxTx, extra : BOOLEAN]
      BY <1>5, BoundsAssumption DEF NoJournal
    <3>3. QED
      BY <1>1, <1>2, <3>1, <3>2 DEF IInv, TypeOK, Ops
  <2>7. QED
    BY <1>1, <2>1, <2>3, <2>4, <2>5, <2>6 DEF IInv
<1>6. QED
  BY <1>1, <1>4, <1>5

\* Discarding a stale journal.pending keeps the invariant.
LEMMA DiscardPendingStep ==
  ASSUME IInv, DiscardPending
  PROVE  IInv'
<1>1. /\ Awaiting("DiscardPending") /\ Locked
      /\ pending' = FALSE
      /\ Report(CleanupCompleted(0)) \/ Fail
      /\ UNCHANGED <<plan, target, edited, evidence, journal, waiting, nextTx, crashes, edits>>
  BY DEF DiscardPending, Awaiting
<1>2. run.cmd # "apply" /\ run.machine.state = "DiscardingPending"
  BY <1>1, StatesOfEffects DEF IInv, RunInv
<1>3. run \in Runs /\ run.machine \in Machines /\ journal = NoJournal
  BY <1>1, <1>2 DEF IInv, RunInv, ControlInv, UnjournaledStates, Runs
<1>4. pending' \in BOOLEAN /\ crashes' \in Nat
  BY <1>1 DEF IInv
<1>5. CASE Fail
  BY <1>1, <1>3, <1>4, <1>5, FailureEndsRun, StopKeepsInv
<1>6. CASE Report(CleanupCompleted(0))
  <2>1. CleanupCompleted(0).type # "EffectFailed"
    BY DEF CleanupCompleted
  <2>2. Successor(CleanupCompleted(0)) = Continue("Releasing", 0, "ReleaseLock")
    BY <1>2, <1>3, <2>1, RecoverySuccessors DEF Successor, Release
  <2>3. run' \in Runs' /\ RunInv'
    BY <1>1, <1>3, <1>6, <2>2, ReleaseFollows
  <2>4. QED
    BY <1>1, <1>4, <2>3, RunKeepsInv
<1>7. QED
  BY <1>1, <1>5, <1>6

\* Releasing the lock ends the command.
LEMMA ReleaseEndsRun ==
  ASSUME IInv, ReleaseLock
  PROVE  run' = NoRun
<1>1. Awaiting("ReleaseLock") /\ Locked /\ Report(LockReleased)
  BY DEF ReleaseLock, Awaiting
<1>2. run.machine.state = "Releasing" /\ run.machine \in Machines
  BY <1>1, StatesOfEffects DEF IInv, RunInv, Runs
<1>3. LockReleased.type # "EffectFailed"
  BY DEF LockReleased
<1>4. Successor(LockReleased) = Stop(run.machine, "Completed")
  BY <1>2, <1>3, ApplySuccessors, RecoverySuccessors DEF Successor
<1>5. Successor(LockReleased).state \in Terminals
  BY <1>2, <1>4 DEF Stop, Machines, Terminals
<1>6. QED
  BY <1>1, <1>5 DEF Report

\* Releasing the lock keeps the invariant.
LEMMA ReleaseLockStep ==
  ASSUME IInv, ReleaseLock
  PROVE  IInv'
<1>1. /\ Locked
      /\ UNCHANGED <<plan, target, edited, evidence, journal, pending, waiting, nextTx,
                     crashes, edits>>
  BY DEF ReleaseLock, Awaiting
<1>2. pending' \in BOOLEAN /\ crashes' \in Nat
  BY <1>1 DEF IInv, TypeOK
<1>3. QED
  BY <1>1, <1>2, ReleaseEndsRun, StopKeepsInv

-----------------------------------------------------------------------------
(* Crashes and others.                                                      *)

\* A crash ends the command and nothing else.
LEMMA CrashStep ==
  ASSUME IInv, Crash
  PROVE  IInv'
<1>1. /\ Locked /\ run' = NoRun /\ crashes' = crashes + 1
      /\ UNCHANGED <<plan, target, edited, evidence, journal, pending, waiting, nextTx, edits>>
  BY DEF Crash
<1>2. pending' \in BOOLEAN /\ crashes' \in Nat
  BY <1>1 DEF IInv, TypeOK
<1>3. QED
  BY <1>1, <1>2, StopKeepsInv

\* What waits for the lock depends on the state root, not on the paths.
LEMMA SameWaiting ==
  ASSUME WaitingInv, UNCHANGED <<waiting, journal, txdir, pending, run>>
  PROVE  WaitingInv'
<1>1. /\ RecoveryDecision' = RecoveryDecision /\ Locked' = Locked /\ Idle' = Idle
      /\ journal' = journal /\ waiting' = waiting
  BY DEF RecoveryDecision, Classification, NoJournal, Locked, Idle
<1>2. \A p \in Procs : AppliesIn(waiting[p])' = AppliesIn(waiting[p])
  BY <1>1 DEF AppliesIn, Tx
<1>3. QED
  BY <1>1, <1>2 DEF WaitingInv

\* Somebody else changes a path: what the invariant says of that path, it says
\* of it no more.
LEMMA EditStep ==
  ASSUME IInv, Edit
  PROVE  IInv'
<1>1. PICK i \in Ops(plan), s \in PathStates :
        /\ target' = [target EXCEPT ![i] = s]
        /\ edited' = edited \cup {i}
  BY DEF Edit
<1>2. /\ UNCHANGED <<plan, evidence, journal, pending, waiting, run, nextTx, crashes>>
      /\ edits' = edits + 1 /\ ~ run.busy
  BY DEF Edit, MayEdit
<1>3. UNCHANGED <<stage, container, backup, txdir>>
  BY <1>2 DEF evidence
<1>4. \A j \in Ops(plan) : j \notin edited' => j \notin edited /\ target'[j] = target[j]
  BY <1>1 DEF IInv, TypeOK
<1>5. TypeOK'
  BY <1>1, <1>2, <1>3 DEF IInv, TypeOK, Ops
<1>6. JournalInv'
  <2>1. PlannedMeansUntouched' /\ RestoredMeansPreState' /\ SealedMeansCandidate'
    BY <1>2, <1>4 DEF IInv, JournalInv, PlannedMeansUntouched, RestoredMeansPreState,
       SealedMeansCandidate, Untouched, Ops
  <2>2. BackupUntilSettled'
    BY <1>2, <1>3 DEF IInv, JournalInv, BackupUntilSettled, Ops
  <2>3. NoJournalMeansSettled'
    BY <1>2, <1>4 DEF IInv, JournalInv, NoJournalMeansSettled, Untouched, Ops, NoJournal
  <2>4. QED
    BY <1>2, <2>1, <2>2, <2>3 DEF IInv, JournalInv, NoJournal, Tx
<1>7. EvidenceInv'
  BY <1>2, <1>3 DEF IInv, EvidenceInv, EvidenceIsJournaled, Unowned, Ops, Tx
<1>8. ControlInv' /\ PreparedInv' /\ CleanedInv'
  <2>1. ControlInv'
    BY <1>2 DEF IInv, RunInv, ControlInv, Locked, NoJournal, Inventory
  <2>2. PreparedInv'
    BY <1>2, <1>3 DEF IInv, RunInv, PreparedInv, Locked, Ops, Unowned
  <2>3. CleanedInv'
    BY <1>2, <1>3 DEF IInv, RunInv, CleanedInv, Locked
  <2>4. QED
    BY <2>1, <2>2, <2>3
<1>9. TargetInv'
  <2>1. Locked => TargetInv
    BY DEF IInv, RunInv
  <2>2. \A state : AllUntouched(state) => AllUntouched(state)'
    BY <1>2, <1>4 DEF AllUntouched, Untouched, Ops
  <2>3. QED
    BY <1>2, <1>4, <2>1, <2>2 DEF TargetInv, Locked, Untouched, Ops
<1>10. WaitingInv'
  BY <1>2, <1>3, SameWaiting DEF IInv
<1>11. run' \in Runs'
  BY <1>2 DEF IInv, Runs, Ops
<1>12. edits' \in Nat
  BY <1>2 DEF IInv
<1>13. QED
  BY <1>2, <1>5, <1>6, <1>7, <1>8, <1>9, <1>10, <1>11, <1>12 DEF IInv, RunInv

\* git clean removes adjacent evidence, none of which the invariant requires.
LEMMA GitCleanStep ==
  ASSUME IInv, GitClean
  PROVE  IInv'
<1>1. /\ stage' = [t \in Tx |-> [i \in Ops(plan) |-> "none"]]
      /\ container' = [t \in Tx |-> [i \in Ops(plan) |-> "none"]]
      /\ UNCHANGED <<plan, target, edited, backup, txdir, journal, pending, waiting, run,
                     nextTx, crashes>>
      /\ edits' = edits + 1 /\ ~ run.busy
  BY DEF GitClean, MayEdit
<1>2. \A t \in Tx, i \in Ops(plan) : stage'[t][i] = "none" /\ container'[t][i] = "none"
  BY <1>1
<1>3. /\ stage' \in [Tx -> [Ops(plan) -> Levels]]
      /\ container' \in [Tx -> [Ops(plan) -> Levels]]
  BY <1>1 DEF Levels
<1>4. TypeOK'
  BY <1>1, <1>3 DEF IInv, TypeOK, Ops, Tx
<1>5. JournalInv'
  BY <1>1 DEF IInv, JournalInv, PlannedMeansUntouched, SealedMeansCandidate,
     RestoredMeansPreState, NoJournalMeansSettled, BackupUntilSettled, Untouched, NoJournal, Ops, Tx
<1>6. EvidenceInv'
  <2>1. EvidenceIsJournaled'
    BY <1>1, <1>2 DEF IInv, EvidenceInv, EvidenceIsJournaled, Unowned, Ops, Tx
  <2>2. journal'.phase \in {"planned", "sealed"} =>
          \A i \in Ops(plan') : Unowned(container'[journal'.tx][i])
    <3>1. journal'.phase \in {"planned", "sealed"} => journal'.tx \in Tx
      BY <1>1 DEF IInv, JournalInv, NoJournal
    <3>2. QED
      BY <1>1, <1>2, <3>1 DEF Unowned, Ops
  <2>3. QED
    BY <1>1, <1>2, <2>1, <2>2 DEF IInv, EvidenceInv, Unowned, Ops, Tx
<1>7. ControlInv' /\ TargetInv'
  <2>1. ControlInv'
    BY <1>1 DEF IInv, RunInv, ControlInv, Locked, NoJournal, Inventory
  <2>2. TargetInv'
    BY <1>1 DEF IInv, RunInv, TargetInv, Locked, AllUntouched, Untouched, Ops
  <2>3. QED
    BY <2>1, <2>2
<1>8. PreparedInv'
  <2>1. Locked /\ run.machine.state \notin {"DiscardingPending", "Releasing"} => run.tx \in Tx
    BY DEF IInv, RunInv, ControlInv
  <2>2. Locked => PreparedInv
    BY DEF IInv, RunInv
  <2>3. QED
    BY <1>1, <1>2, <2>1, <2>2 DEF PreparedInv, Locked, Ops, Unowned
<1>9. CleanedInv'
  <2>1. Locked /\ run.machine.state \in CleaningStates => run.tx \in Tx
    BY DEF IInv, RunInv, ControlInv, CleaningStates
  <2>2. CleanedInv
    BY DEF IInv, RunInv
  <2>3. QED
    BY <1>1, <1>2, <2>1, <2>2 DEF CleanedInv, CleanedBelow, Locked, Ops, Unowned
<1>10. WaitingInv'
  BY <1>1, SameWaiting DEF IInv
<1>11. run' \in Runs'
  BY <1>1 DEF IInv, Runs, Ops
<1>12. edits' \in Nat
  BY <1>1 DEF IInv
<1>13. QED
  BY <1>1, <1>4, <1>5, <1>6, <1>7, <1>8, <1>9, <1>10, <1>11, <1>12 DEF IInv, RunInv

\* A step in which nothing happens.
LEMMA StutterStep ==
  ASSUME IInv, UNCHANGED vars
  PROVE  IInv'
<1>1. UNCHANGED <<plan, target, edited, evidence, journal, pending, waiting, run, nextTx,
                  crashes, edits>>
  BY DEF vars
<1>2. UNCHANGED <<stage, container, backup, txdir>>
  BY <1>1 DEF evidence
<1>3. TypeOK'
  BY <1>1, <1>2 DEF IInv, TypeOK, Ops
<1>4. JournalInv' /\ EvidenceInv' /\ RunInv'
  BY <1>1, SameDisk, SameRun DEF IInv
<1>5. WaitingInv'
  BY <1>1, <1>2, SameWaiting DEF IInv
<1>6. run' \in Runs' /\ nextTx' \in Nat /\ crashes' \in Nat /\ edits' \in Nat
  BY <1>1 DEF IInv, Runs, Ops
<1>7. QED
  BY <1>3, <1>4, <1>5, <1>6 DEF IInv

-----------------------------------------------------------------------------
(* The invariant.                                                           *)

\* Every effect keeps the invariant.
LEMMA ExecuteStep ==
  ASSUME IInv, Execute
  PROVE  IInv'
  BY ObserveAgainStep, WritePendingStep, RenamePendingStep, PrepareStageStep,
     PrepareBackupStep, ApplyOneStep, ObservePostStateStep, AttemptRollbackOneStep,
     BuildContainerStep, CleanStageStep, CleanContainerStep, CleanBackupStep,
     CleanDirectoryStep, CleanJournalStep, DiscardPendingStep, ReleaseLockStep
  DEF Execute

\* The inductive invariant holds in every state, for every plan, any number of
\* processes and whatever the bounds.
THEOREM Invariance ==
  ASSUME ~ Overlap
  PROVE  Spec => []IInv
<1>1. ASSUME IInv, Observe PROVE IInv'
  BY <1>1, ApplyObserveStep, RecoverObserveStep DEF Observe
<1>2. ASSUME IInv, Lock PROVE IInv'
  BY <1>2, TakeLockStep, RefuseLockStep DEF Lock
<1>3. ASSUME IInv, Disturb PROVE IInv'
  BY <1>3, CrashStep, EditStep, GitCleanStep DEF Disturb
<1>4. IInv /\ [Next]_vars => IInv'
  BY <1>1, <1>2, <1>3, ExecuteStep, StutterStep DEF Next
<1>5. QED
  BY <1>4, InitHolds, PTL DEF Spec

-----------------------------------------------------------------------------
(* What the shell keeps in every state.                                     *)

\* Every variable keeps its type, and the run stays in the grammar of its
\* command.
THEOREM TypeCorrect ==
  ASSUME ~ Overlap
  PROVE  Spec => []TypeOK
<1>1. IInv => TypeOK
  BY DEF IInv
<1>2. QED
  BY <1>1, Invariance, PTL

\* While the journal says PLANNED, every path nobody else changed is as it was:
\* recovery, which restores nothing under PLANNED, has nothing to restore.
THEOREM PlannedTouchesNothing ==
  ASSUME ~ Overlap
  PROVE  Spec => []PlannedMeansUntouched
<1>1. IInv => PlannedMeansUntouched
  BY DEF IInv, JournalInv
<1>2. QED
  BY <1>1, Invariance, PTL

\* While the journal says SEALED, every path nobody else changed is at its new
\* state: recovery, which only cleans up under SEALED, has nothing to install.
THEOREM SealedIsCommitted ==
  ASSUME ~ Overlap
  PROVE  Spec => []SealedMeansCandidate
<1>1. IInv => SealedMeansCandidate
  BY DEF IInv, JournalInv
<1>2. QED
  BY <1>1, Invariance, PTL

\* While the journal says RESTORED, every path nobody else changed is back at
\* its old state, through however many crashes of the rollback.
THEOREM RestoredIsAborted ==
  ASSUME ~ Overlap
  PROVE  Spec => []RestoredMeansPreState
<1>1. IInv => RestoredMeansPreState
  BY DEF IInv, JournalInv
<1>2. QED
  BY <1>1, Invariance, PTL

\* Atomicity: without a journal the paths nobody else changed are all old or
\* all new, through any crashes and recoveries.
THEOREM Atomicity ==
  ASSUME ~ Overlap
  PROVE  Spec => []NoJournalMeansSettled
<1>1. IInv => NoJournalMeansSettled
  BY DEF IInv, JournalInv
<1>2. QED
  BY <1>1, Invariance, PTL

\* While MUTATING is authoritative, the backup of every replaced or deleted
\* file is complete: no cleanup and no failed preparation takes it away.
THEOREM BackupsAreKept ==
  ASSUME ~ Overlap
  PROVE  Spec => []BackupUntilSettled
<1>1. IInv => BackupUntilSettled
  BY DEF IInv, JournalInv
<1>2. QED
  BY <1>1, Invariance, PTL

\* Nothing is orphaned: what carries a marker, every backup and every
\* transaction directory belong to the transaction the journal names.
THEOREM NothingIsOrphaned ==
  ASSUME ~ Overlap
  PROVE  Spec => []EvidenceIsJournaled
<1>1. IInv => EvidenceIsJournaled
  BY DEF IInv, EvidenceInv
<1>2. QED
  BY <1>1, Invariance, PTL

-----------------------------------------------------------------------------
(* What the steps of the shell do to the paths and the journal.             *)

\* The effects that change planned paths.
Mutations == ApplyOne \/ AttemptRollbackOne \/ BuildContainer

\* The effects that change the journal.
Journaling == RenamePending \/ CleanJournal

\* Everything else leaves the paths and the journal alone.
LEMMA OthersLeaveTarget ==
  ASSUME Next, ~ Mutations, ~ Journaling, ~ Edit
  PROVE  UNCHANGED <<plan, target, edited, journal>>
<1>1. CASE Observe
  BY <1>1 DEF Observe, ApplyObserve, RecoverObserve
<1>2. CASE Lock
  BY <1>2 DEF Lock, TakeLock, RefuseLock
<1>3. CASE ObserveAgain \/ WritePending \/ PrepareStage \/ PrepareBackup
  BY <1>3 DEF ObserveAgain, WritePending, PrepareStage, PrepareBackup
<1>4. CASE ObservePostState \/ DiscardPending \/ ReleaseLock
  BY <1>4 DEF ObservePostState, DiscardPending, ReleaseLock
<1>5. CASE CleanStage \/ CleanContainer \/ CleanBackup \/ CleanDirectory
  BY <1>5 DEF CleanStage, CleanContainer, CleanBackup, CleanDirectory
<1>6. CASE Crash \/ GitClean
  BY <1>6 DEF Crash, GitClean
<1>7. QED
  BY <1>1, <1>2, <1>3, <1>4, <1>5, <1>6 DEF Next, Execute, Disturb, Mutations, Journaling

\* An effect that changes a path is the apply's own, from old to new, or a
\* rollback's, from new to old, and either under MUTATING.
LEMMA MutationsAreUndoable ==
  ASSUME IInv, Mutations
  PROVE  /\ UNCHANGED <<plan, edited, journal, edits>>
         /\ \/ target' = target
            \/ /\ journal.phase = "mutating" /\ run.cmd = "apply"
               /\ \E i \in Ops(plan) : target[i] = "old" /\ target' = [target EXCEPT ![i] = "new"]
            \/ /\ journal.phase = "mutating"
               /\ \E i \in Ops(plan) : target[i] = "new" /\ target' = [target EXCEPT ![i] = "old"]
<1>1. CASE ApplyOne
  <2>1. UNCHANGED <<plan, edited, journal, edits>>
    BY <1>1 DEF ApplyOne
  <2>2. \/ target' = target
        \/ \E i \in Ops(plan) : target[i] = "old" /\ target' = [target EXCEPT ![i] = "new"]
    BY <1>1 DEF ApplyOne, MayApply
  <2>3. Locked /\ run.cmd = "apply" /\ run.machine.state = "Installing"
    BY <1>1, StatesOfEffects DEF ApplyOne, Awaiting, IInv, RunInv
  <2>4. journal.phase = "mutating"
    BY <2>3, MutatingCommand DEF MutatingStates
  <2>5. QED
    BY <2>1, <2>2, <2>3, <2>4
<1>2. CASE AttemptRollbackOne
  <2>1. UNCHANGED <<plan, edited, journal, edits>>
    BY <1>2 DEF AttemptRollbackOne
  <2>2. \A i \in Ops(plan) : Decision(i) = "Restore" => target[i] = "new"
    BY DEF Decision, RollbackDecision
  <2>3. \/ target' = target
        \/ \E i \in Ops(plan) : target[i] = "new" /\ target' = [target EXCEPT ![i] = "old"]
    BY <1>2, <2>2 DEF AttemptRollbackOne
  <2>4. Awaiting("AttemptRollbackOne")
    BY <1>2 DEF AttemptRollbackOne
  <2>5. journal.phase = "mutating"
    BY <2>4, RollingBackStates
  <2>6. QED
    BY <2>1, <2>3, <2>5
<1>3. CASE BuildContainer
  <2>1. UNCHANGED <<plan, edited, journal, edits>>
    BY <1>3 DEF BuildContainer
  <2>2. Awaiting("AttemptRollbackOne") /\ run.busy
    BY <1>3 DEF BuildContainer
  <2>3. journal.phase = "mutating" /\ target[run.machine.cursor] = "new"
    BY <2>2, RollingBackStates
  <2>4. \/ target' = target
        \/ \E i \in Ops(plan) :
             run.machine.cursor = i /\ target' = [target EXCEPT ![i] = "old"]
    BY <1>3 DEF BuildContainer, RestoreRename
  <2>5. QED
    BY <2>1, <2>3, <2>4
<1>4. QED
  BY <1>1, <1>2, <1>3 DEF Mutations

\* The journal is written and deleted over a target that is what it says.
LEMMA JournalFollowsTarget ==
  ASSUME IInv, Journaling
  PROVE  /\ UNCHANGED <<plan, target, edited, edits>>
         /\ \/ journal' = journal
            \/ journal.phase = "none" /\ journal'.phase = "planned" /\ AllUntouched("old")
            \/ journal.phase = "planned" /\ journal'.phase = "mutating"
            \/ journal.phase = "mutating" /\ journal'.phase = "sealed" /\ AllUntouched("new")
            \/ journal.phase = "mutating" /\ journal'.phase = "restored" /\ AllUntouched("old")
            \/ journal.phase \in {"planned", "restored", "sealed"} /\ journal'.phase = "none"
<1>1. CASE RenamePending
  <2>1. UNCHANGED <<plan, target, edited, edits>> /\ Awaiting("PersistJournal")
    BY <1>1 DEF RenamePending
  <2>2. journal'.phase = PersistedPhase
    BY <1>1 DEF RenamePending
  <2>3. QED
    BY <2>1, <2>2, PersistingStates DEF NoJournal
<1>2. CASE CleanJournal
  <2>1. UNCHANGED <<plan, target, edited, edits>> /\ Awaiting("CleanOne")
    BY <1>2 DEF CleanJournal
  <2>2. journal' = journal \/ journal' = NoJournal
    BY <1>2 DEF CleanJournal
  <2>3. journal.phase \in {"planned", "restored", "sealed"}
    BY <2>1, CleaningCommand DEF CleanupPhase
  <2>4. QED
    BY <2>1, <2>2, <2>3 DEF NoJournal
<1>3. QED
  BY <1>1, <1>2 DEF Journaling

\* An edit is counted.
LEMMA EditCounts ==
  ASSUME IInv, Edit
  PROVE  edits' # edits /\ UNCHANGED <<plan, journal>>
<1>1. edits \in Nat
  BY DEF IInv
<1>2. QED
  BY <1>1 DEF Edit

\* A third state is preserved: no step of the engine changes a path that is
\* neither at its old nor at its planned new state, whatever it meant to do.
THEOREM ThirdStatesArePreserved ==
  ASSUME ~ Overlap
  PROVE  Spec => ThirdStatePreserved
<1> DEFINE Preserved == \A i \in Ops(plan) :
                          target[i] = "other" /\ edits' = edits => target'[i] = "other"
<1>1. IInv /\ [Next]_vars => [Preserved]_vars
  <2> SUFFICES ASSUME IInv, Next PROVE Preserved
    OBVIOUS
  <2>1. CASE Mutations
    <3>1. target \in [Ops(plan) -> PathStates]
      BY DEF IInv, TypeOK
    <3>2. QED
      BY <2>1, <3>1, MutationsAreUndoable
  <2>2. CASE Journaling
    BY <2>2, JournalFollowsTarget
  <2>3. CASE Edit
    BY <2>3, EditCounts
  <2>4. QED
    BY <2>1, <2>2, <2>3, OthersLeaveTarget
<1>2. QED
  BY <1>1, Invariance, PTL DEF Spec, ThirdStatePreserved

\* The journal only goes forward, through every crash and every recovery.
THEOREM JournalGoesForward ==
  ASSUME ~ Overlap
  PROVE  Spec => JournalPhaseOrder
<1> DEFINE Forward ==
      journal'.phase # journal.phase =>
        <<journal.phase, journal'.phase>> \in
          {<<"none", "planned">>, <<"planned", "mutating">>, <<"planned", "none">>,
           <<"mutating", "restored">>, <<"mutating", "sealed">>,
           <<"restored", "none">>, <<"sealed", "none">>}
<1>1. IInv /\ [Next]_vars => [Forward]_vars
  <2> SUFFICES ASSUME IInv, Next PROVE Forward
    OBVIOUS
  <2>1. CASE Mutations
    BY <2>1, MutationsAreUndoable
  <2>2. CASE Journaling
    BY <2>2, JournalFollowsTarget
  <2>3. CASE Edit
    BY <2>3, EditCounts
  <2>4. QED
    BY <2>1, <2>2, <2>3, OthersLeaveTarget
<1>2. QED
  BY <1>1, Invariance, PTL DEF Spec, JournalPhaseOrder

-----------------------------------------------------------------------------
(* The shell implements the contract of an installation.                    *)

\* Where nobody changes the planned paths, every path is untouched.
Unedited == edited = {}

\* Where no edits are allowed, nobody edits.
LEMMA NobodyEdits ==
  ASSUME IInv, MaxEdits = 0
  PROVE  ~ Edit
<1>1. edits \in Nat
  BY DEF IInv
<1>2. QED
  BY <1>1 DEF Edit, MayEdit

\* The shell implements the contract: as long as nobody else changes them, the
\* planned paths and the phase of the journal show a behaviour of
\* InstallContract, through any crashes and recoveries.
THEOREM ImplementsContract ==
  ASSUME ~ Overlap, MaxEdits = 0
  PROVE  Spec => ContractSpec
<1>1. Init => Contract!Init
  BY DEF Init, Contract!Init, NoJournal, Ops
<1>2. Init => Unedited
  BY DEF Init, Unedited
<1>3. IInv /\ Unedited /\ [Next]_vars => Unedited'
  <2> SUFFICES ASSUME IInv, Unedited, [Next]_vars PROVE edited' = edited
    BY DEF Unedited
  <2>1. CASE UNCHANGED vars
    BY <2>1 DEF vars
  <2>2. QED
    BY <2>1, MutationsAreUndoable, JournalFollowsTarget, NobodyEdits, OthersLeaveTarget
<1>4. IInv /\ Unedited /\ [Next]_vars => [Contract!Next]_(Contract!contractVars)
  <2> SUFFICES ASSUME IInv, Unedited, [Next]_vars
               PROVE  [Contract!Next]_(Contract!contractVars)
    OBVIOUS
  <2>1. target \in [Ops(plan) -> PathStates] /\ DOMAIN target = Ops(plan)
    BY DEF IInv, TypeOK
  <2>2. /\ AllUntouched("old") => Contract!AllOld
        /\ AllUntouched("new") => Contract!AllNew
    BY <2>1 DEF AllUntouched, Untouched, Unedited, Contract!AllOld, Contract!AllNew
  <2>3. CASE Mutations
    <3>1. UNCHANGED <<journal>> /\ (journal'.phase = journal.phase)
      BY <2>3, MutationsAreUndoable
    <3>2. CASE target' = target
      BY <3>1, <3>2 DEF Contract!contractVars
    <3>3. CASE /\ journal.phase = "mutating"
               /\ \E i \in Ops(plan), s \in {"old", "new"} : target' = [target EXCEPT ![i] = s]
      BY <2>1, <3>1, <3>3 DEF Contract!Next, Contract!Change
    <3>4. QED
      BY <2>3, <3>2, <3>3, MutationsAreUndoable
  <2>4. CASE Journaling
    <3>1. target' = target
      BY <2>4, JournalFollowsTarget
    <3>2. CASE journal' = journal
      BY <3>1, <3>2 DEF Contract!contractVars
    <3>3. CASE journal.phase = "none" /\ journal'.phase = "planned" /\ AllUntouched("old")
      BY <2>2, <3>1, <3>3 DEF Contract!Next, Contract!Announce, Contract!Move
    <3>4. CASE journal.phase = "planned" /\ journal'.phase = "mutating"
      BY <3>1, <3>4 DEF Contract!Next, Contract!Open, Contract!Move
    <3>5. CASE journal.phase = "mutating" /\ journal'.phase = "sealed" /\ AllUntouched("new")
      BY <2>2, <3>1, <3>5 DEF Contract!Next, Contract!Commit, Contract!Move
    <3>6. CASE journal.phase = "mutating" /\ journal'.phase = "restored" /\ AllUntouched("old")
      BY <2>2, <3>1, <3>6 DEF Contract!Next, Contract!Abort, Contract!Move
    <3>7. CASE journal.phase \in {"planned", "restored", "sealed"} /\ journal'.phase = "none"
      BY <3>1, <3>7 DEF Contract!Next, Contract!Discard, Contract!Close, Contract!Move
    <3>8. QED
      BY <2>4, <3>2, <3>3, <3>4, <3>5, <3>6, <3>7, JournalFollowsTarget
  <2>5. CASE UNCHANGED <<target, journal>>
    BY <2>5 DEF Contract!contractVars
  <2>6. CASE UNCHANGED vars
    BY <2>5, <2>6 DEF vars
  <2>7. QED
    BY <2>3, <2>4, <2>5, <2>6, NobodyEdits, OthersLeaveTarget
<1>5. QED
  BY <1>1, <1>2, <1>3, <1>4, Invariance, PTL DEF Spec, ContractSpec, Contract!Spec

\* Atomicity is inductive for the contract: an announced transaction found
\* every path old, only an open one changes paths, and it is left for aborted
\* or committed only over a uniform target.
THEOREM ContractIsAtomic == Contract!Spec => []Contract!Atomic
<1>1. Contract!Init => Contract!Atomic
  BY DEF Contract!Init, Contract!Atomic, Contract!AllOld, Contract!AllNew
<1>2. Contract!Atomic /\ [Contract!Next]_(Contract!contractVars) => Contract!Atomic'
  <2> SUFFICES ASSUME Contract!Atomic, [Contract!Next]_(Contract!contractVars)
               PROVE  Contract!Atomic'
    OBVIOUS
  <2> USE DEF Contract!Atomic, Contract!AllOld, Contract!AllNew, Contract!Move
  <2>1. CASE Contract!Announce
    BY <2>1 DEF Contract!Announce
  <2>2. CASE Contract!Discard
    BY <2>2 DEF Contract!Discard
  <2>3. CASE Contract!Open
    BY <2>3 DEF Contract!Open
  <2>4. CASE Contract!Change
    BY <2>4 DEF Contract!Change
  <2>5. CASE Contract!Abort
    BY <2>5 DEF Contract!Abort
  <2>6. CASE Contract!Commit
    BY <2>6 DEF Contract!Commit
  <2>7. CASE Contract!Close
    BY <2>7 DEF Contract!Close
  <2>8. CASE UNCHANGED Contract!contractVars
    BY <2>8 DEF Contract!contractVars
  <2>9. QED
    BY <2>1, <2>2, <2>3, <2>4, <2>5, <2>6, <2>7, <2>8 DEF Contract!Next
<1>3. QED
  BY <1>1, <1>2, PTL DEF Contract!Spec

-----------------------------------------------------------------------------
(* What an uninterrupted transaction leaves.                                *)

\* Nobody has crashed and nobody else has changed anything.
Calm == crashes = 0 /\ edits = 0

\* The stage of operation i in this run's transaction, if it has one.
Staged(i, level) == NeedsStage(plan.kinds[i]) => stage[run.tx][i] = level

\* Operation i has a container if it needs one, and it is this run's own.
Mine(i) == NeedsContainer(plan.kinds[i]) => run.alloc /\ i \in run.mine

\* What the rename that restores operation i leaves in its container.
Emptied(kind) == IF kind = "CreateTree" THEN "full" ELSE "marked"

\* Operation i has been restored through its container.
Restored(i) ==
  NeedsContainer(plan.kinds[i]) => container[run.tx][i] = Emptied(plan.kinds[i])

\* The slot is yet to be cleaned, or restored: the cursor has not begun it.
Ahead(slot) == slot > run.machine.cursor \/ (slot = run.machine.cursor /\ ~ run.busy)

\* No stage, or no container, of operation i is there.
NoStage(i) == stage[run.tx][i] = "none"
NoContainer(i) == container[run.tx][i] = "none"

\* Before the first preparation, and once the cleanup is over.
UntouchedYet == \A i \in Ops(plan) : NoStage(i) /\ NoContainer(i)

\* The stages before the cursor are complete.
WhilePreparing ==
  \A i \in Ops(plan) :
    /\ StageSlot(i) < run.machine.cursor => Staged(i, "full")
    /\ NoContainer(i)

\* The operations before the cursor are applied, their stages emptied.
WhileInstalling ==
  \A i \in Ops(plan) :
    /\ Staged(i, IF i < run.machine.cursor THEN "marked" ELSE "full")
    /\ target[i] = IF i < run.machine.cursor THEN "new" ELSE "old"
    /\ NoContainer(i)

\* Every operation is applied.
OnceInstalled ==
  \A i \in Ops(plan) : Staged(i, "marked") /\ target[i] = "new" /\ NoContainer(i)

\* The operations after the cursor are restored, the others still applied.
WhileRollingBack ==
  \A i \in Ops(plan) :
    /\ Staged(i, "marked")
    /\ i <= run.machine.cursor => target[i] = "new"
    /\ i < run.machine.cursor \/ (i = run.machine.cursor /\ ~ run.busy) => NoContainer(i)
    /\ i > run.machine.cursor => Restored(i)
    /\ i > run.machine.cursor \/ (i = run.machine.cursor /\ run.busy) => Mine(i)

\* Every operation is restored, through a container of this run's own.
OnceRestored ==
  \A i \in Ops(plan) : Staged(i, "marked") /\ Restored(i) /\ Mine(i)

\* Stages and backups go first.
WhileCleaning ==
  \A i \in Ops(plan) :
    /\ StageSlot(i) < run.machine.cursor => NoStage(i)
    /\ Ahead(StageSlot(i)) => Staged(i, "marked")
    /\ backup[run.tx][i] # "partial"

\* Then, after a rollback, the containers.
WhileCleaningContainers ==
  \A i \in Ops(plan) :
    /\ RollbackSlot(plan, i) < run.machine.cursor => NoContainer(i)
    /\ Ahead(RollbackSlot(plan, i)) => Restored(i)
    /\ Mine(i)

\* Where the evidence of a run stands, state by state.
Progress ==
  LET s == run.machine.state
  IN  /\ s \in {"NeedRevalidation", "NeedPlannedJournal", "Releasing"} =>
           journal = NoJournal /\ UntouchedYet
      /\ s = "Preparing" => WhilePreparing
      /\ s = "NeedMutatingJournal" =>
           \A i \in Ops(plan) : Staged(i, "full") /\ NoContainer(i)
      /\ s = "Installing" => WhileInstalling
      /\ s \in {"Verifying", "NeedSealedJournal"} => OnceInstalled
      /\ s = "RollingBack" => WhileRollingBack
      /\ s = "NeedRestoredJournal" => OnceRestored
      /\ s \in {"CleaningRollback", "CleaningForward"} => WhileCleaning
      /\ s = "CleaningRollback" => WhileCleaningContainers
      /\ s = "CleaningForward" => \A i \in Ops(plan) : NoContainer(i)

\* Everything there is, is the run's own, and stands where the run does.
Accounted ==
  /\ edited = {}
  /\ run.cmd # "recover" /\ \A p \in Procs : waiting[p].cmd # "recover"
  /\ pending => Awaiting("PersistJournal") /\ run.busy
  /\ \A t \in Tx : t # run.tx =>
       /\ t \notin txdir
       /\ \A i \in Ops(plan) : stage[t][i] = "none" /\ container[t][i] = "none"
  /\ ~ Locked => run = NoRun /\ journal = NoJournal
  /\ Locked => Progress

\* The invariant, relative to IInv: as long as nobody has interfered, the
\* evidence on the disk is accounted for.
QuietInv == Calm => Accounted

\* A command that goes on where its evidence stands is accounted for.
LEMMA CommandGoesOn ==
  ASSUME IInv, Accounted, Locked, UNCHANGED <<plan, edited, waiting>>,
         Locked', run'.cmd = run.cmd, run'.tx = run.tx,
         pending' => run'.machine.awaiting = "PersistJournal" /\ run'.busy,
         txdir' \subseteq txdir \cup {run.tx},
         \A t \in Tx \ {run.tx} : stage'[t] = stage[t] /\ container'[t] = container[t],
         Progress'
  PROVE  Accounted'
<1>1. /\ edited' = {}
      /\ run'.cmd # "recover" /\ \A p \in Procs : waiting'[p].cmd # "recover"
  BY DEF Accounted
<1>2. Ops(plan)' = Ops(plan)
  BY DEF Ops
<1>3. \A t \in Tx : t # run'.tx =>
        /\ t \notin txdir'
        /\ \A i \in Ops(plan)' : stage'[t][i] = "none" /\ container'[t][i] = "none"
  BY <1>2 DEF Accounted
<1>4. QED
  BY <1>1, <1>3 DEF Accounted, Awaiting

\* A command may end where it has left nothing.
LEMMA CommandEnds ==
  ASSUME IInv, Accounted, Locked, run' = NoRun, ~ pending, journal = NoJournal, UntouchedYet,
         UNCHANGED <<plan, edited, waiting, stage, container, txdir, journal, pending>>
  PROVE  Accounted'
<1>1. Ops(plan)' = Ops(plan)
  BY DEF Ops
<1>2. \A t \in Tx : /\ t \notin txdir
                    /\ \A i \in Ops(plan) : stage[t][i] = "none" /\ container[t][i] = "none"
  <2>1. \A t \in Tx : t # 0
    BY DEF Tx
  <2>2. \A t \in Tx : t \notin txdir
    BY <2>1 DEF IInv, EvidenceInv, EvidenceIsJournaled, NoJournal
  <2>3. QED
    BY <2>2 DEF Accounted, UntouchedYet, NoStage, NoContainer
<1>3. ~ Locked' /\ NoRun.cmd = "none"
  BY DEF Locked, NoRun
<1>4. QED
  BY <1>1, <1>2, <1>3 DEF Accounted

\* Nobody has taken the lock before the first command.
LEMMA InitAccounted == Init => Accounted
<1> SUFFICES ASSUME Init PROVE Accounted
  OBVIOUS
<1>1. ~ Locked /\ run.cmd = "none" /\ \A p \in Procs : waiting[p].cmd = "none"
  BY DEF Init, Locked, NoRun, Idle
<1>2. QED
  BY <1>1 DEF Accounted, Init

\* Where nothing is left, an apply waits for the lock.
LEMMA ApplyObserveAccounted ==
  ASSUME IInv, Accounted, NEW p \in Procs, ApplyObserve(p)
  PROVE  Accounted'
<1>1. /\ waiting' = [waiting EXCEPT ![p] = [Idle EXCEPT !.cmd = "apply", !.tx = nextTx]]
      /\ UNCHANGED <<plan, target, edited, evidence, journal, pending, run>>
  BY DEF ApplyObserve
<1>2. UNCHANGED <<stage, container, backup, txdir>>
  BY <1>1 DEF evidence
<1>3. \A q \in Procs : waiting'[q].cmd # "recover"
  <2>1. [Idle EXCEPT !.cmd = "apply", !.tx = nextTx].cmd = "apply"
    BY DEF Idle
  <2>2. waiting \in [Procs -> [cmd : {"none", "apply", "recover"}, tx : 0 .. MaxTx,
                           decision : RecoveryDecisions \cup {"none"}, extra : BOOLEAN]]
    BY DEF IInv, TypeOK
  <2>3. QED
    BY <1>1, <2>1, <2>2 DEF Accounted
<1>4. Progress => Progress'
  BY <1>1, <1>2 DEF Progress, UntouchedYet, WhilePreparing, WhileInstalling, OnceInstalled,
     WhileRollingBack, OnceRestored, WhileCleaning, WhileCleaningContainers, Staged, Mine,
     Restored, Ahead, NoStage, NoContainer, Ops
<1>5. Locked' = Locked /\ Awaiting("PersistJournal")' = Awaiting("PersistJournal")
  BY <1>1 DEF Locked, Awaiting
<1>6. QED
  BY <1>1, <1>2, <1>3, <1>4, <1>5 DEF Accounted, Ops

\* Where nothing is left, there is nothing to recover; and nobody observes for
\* a recover what a command is about.
LEMMA NobodyRecovers ==
  ASSUME IInv, ~ Overlap, Accounted, NEW p \in Procs
  PROVE  ~ RecoverObserve(p)
<1> SUFFICES ASSUME RecoverObserve(p) PROVE FALSE
  OBVIOUS
<1>1. ~ Locked
  BY DEF RecoverObserve, MayStart
<1>2. journal = NoJournal /\ run = NoRun /\ ~ pending
  BY <1>1 DEF Accounted, Awaiting
<1>3. txdir = {}
  <2>1. txdir \subseteq Tx /\ \A t \in Tx : t # 0
    BY DEF IInv, TypeOK, Tx
  <2>2. QED
    BY <1>2, <2>1 DEF IInv, EvidenceInv, EvidenceIsJournaled, NoJournal
<1>4. RecoveryDecision = "NoRecoveryNeeded"
  BY <1>2, <1>3 DEF RecoveryDecision, Classification
<1>5. QED
  BY <1>4 DEF RecoverObserve

\* An apply takes the lock over a state root without a trace.
LEMMA TakeLockAccounted ==
  ASSUME IInv, Accounted, NEW p \in Procs, TakeLock(p)
  PROVE  Accounted'
<1>1. /\ waiting[p] # Idle /\ ~ Locked /\ waiting' = [waiting EXCEPT ![p] = Idle]
      /\ UNCHANGED <<plan, target, edited, evidence, journal, pending>>
  BY DEF TakeLock
<1>2. UNCHANGED <<stage, container, backup, txdir>>
  BY <1>1 DEF evidence
<1>3. AppliesIn(waiting[p])
  BY <1>1 DEF IInv, WaitingInv, Accounted
<1>4. /\ run = NoRun /\ journal = NoJournal /\ ~ pending
      /\ \A t \in Tx : /\ t \notin txdir
                       /\ \A i \in Ops(plan) : stage[t][i] = "none" /\ container[t][i] = "none"
  <2>1. run = NoRun /\ journal = NoJournal /\ ~ pending
    BY <1>1 DEF Accounted, Awaiting
  <2>2. \A t \in Tx : t # run.tx
    BY <2>1 DEF Tx, NoRun
  <2>3. QED
    BY <2>1, <2>2 DEF Accounted
<1>5. PICK m : m = LockedMachine
  OBVIOUS
<1>6. m \in Machines /\ m.state = "NeedRevalidation"
  BY <1>5, LockedMachineObserves, ContinueIsMachine DEF States, Effects
<1>7. run' = [NoRun EXCEPT
           !.cmd = waiting[p].cmd, !.tx = waiting[p].tx, !.extra = waiting[p].extra,
           !.machine = m,
           !.alloc = waiting[p].decision = "RollBack" /\ RollbackSlots(plan) # {}]
  BY <1>3, <1>5 DEF TakeLock, AppliesIn
<1>8. /\ Locked' /\ run'.cmd = "apply" /\ run'.tx \in Tx /\ run'.machine = m
  BY <1>1, <1>3, <1>6, <1>7, RunStarts DEF AppliesIn
<1>9. Progress'
  BY <1>1, <1>2, <1>4, <1>6, <1>8 DEF Progress, UntouchedYet, NoStage, NoContainer, Ops
<1>10. \A q \in Procs : waiting'[q].cmd # "recover"
  <2>1. waiting \in [Procs -> [cmd : {"none", "apply", "recover"}, tx : 0 .. MaxTx,
                           decision : RecoveryDecisions \cup {"none"}, extra : BOOLEAN]]
    BY DEF IInv, TypeOK
  <2>2. QED
    BY <1>1, <2>1 DEF Accounted, Idle
<1>11. QED
  BY <1>1, <1>2, <1>4, <1>8, <1>9, <1>10 DEF Accounted, Ops

\* A command that gives up waiting leaves everything as it is.
LEMMA RefuseLockAccounted ==
  ASSUME IInv, Accounted, NEW p \in Procs, RefuseLock(p)
  PROVE  Accounted'
<1>1. /\ Locked /\ waiting' = [waiting EXCEPT ![p] = Idle]
      /\ UNCHANGED <<plan, target, edited, evidence, journal, pending, run>>
  BY DEF RefuseLock
<1>2. UNCHANGED <<stage, container, backup, txdir>>
  BY <1>1 DEF evidence
<1>3. \A q \in Procs : waiting'[q].cmd # "recover"
  <2>1. waiting \in [Procs -> [cmd : {"none", "apply", "recover"}, tx : 0 .. MaxTx,
                           decision : RecoveryDecisions \cup {"none"}, extra : BOOLEAN]]
    BY DEF IInv, TypeOK
  <2>2. QED
    BY <1>1, <2>1 DEF Accounted, Idle
<1>4. Progress => Progress'
  BY <1>1, <1>2 DEF Progress, UntouchedYet, WhilePreparing, WhileInstalling, OnceInstalled,
     WhileRollingBack, OnceRestored, WhileCleaning, WhileCleaningContainers, Staged, Mine,
     Restored, Ahead, NoStage, NoContainer, Ops
<1>5. Locked' = Locked /\ Awaiting("PersistJournal")' = Awaiting("PersistJournal")
  BY <1>1 DEF Locked, Awaiting
<1>6. QED
  BY <1>1, <1>2, <1>3, <1>4, <1>5 DEF Accounted, Ops

\* What is known of a command that is accounted for: it is an apply.
LEMMA AccountedRun ==
  ASSUME IInv, Accounted, Locked
  PROVE  /\ run \in Runs /\ run.machine \in Machines /\ run.cmd = "apply" /\ Progress
         /\ edited = {} /\ (run.tx \in Tx \/ run.machine.state = "Releasing")
         /\ WellFormed(plan) /\ Len(plan.kinds) \in Nat /\ Ops(plan) = 1 .. Len(plan.kinds)
         /\ \A i \in Ops(plan) : i \in Nat /\ plan.kinds[i] \in Kinds
         /\ plan' = plan => Ops(plan)' = Ops(plan)
<1>1. run \in Runs /\ run.machine \in Machines
  BY DEF IInv, Runs
<1>2. run.cmd = "apply"
  BY <1>1 DEF Accounted, Runs, Locked
<1>3. run.tx \in Tx \/ run.machine.state = "Releasing"
  BY <1>2 DEF IInv, RunInv, ControlInv, States
<1>4. QED
  BY <1>1, <1>2, <1>3, PlanIsWellFormed DEF IInv, Accounted, Ops

\* The command enters a state where its evidence stands.
LEMMA EntersAccounted ==
  ASSUME IInv, Accounted, Locked, UNCHANGED <<plan, edited, waiting>>, ~ pending',
         NEW e, Report(e), NEW s \in States, NEW k \in Nat, NEW f \in Effects,
         Successor(e) = Continue(s, k, f),
         txdir' \subseteq txdir \cup {run.tx},
         \A t \in Tx \ {run.tx} : stage'[t] = stage[t] /\ container'[t] = container[t],
         /\ run'.machine.state = s /\ run'.machine.cursor = k /\ ~ run'.busy
         /\ run'.tx = run.tx /\ run'.alloc = run.alloc /\ run'.mine = run.mine
         => Progress'
  PROVE  Accounted'
<1>1. run \in Runs /\ s \in States \cup RecoveryStates
  BY AccountedRun
<1>2. Entered(s, k, f)
  BY <1>1, ReportEnters
<1>3. run'.alloc = run.alloc /\ run'.mine = run.mine
  BY <1>1, ReportContinues
<1>4. /\ Locked' /\ run'.cmd = run.cmd /\ run'.tx = run.tx
      /\ run'.machine.state = s /\ run'.machine.cursor = k /\ run'.busy = FALSE
  BY <1>2 DEF Entered
<1>5. Progress'
  BY <1>3, <1>4
<1>6. QED
  BY <1>4, <1>5, CommandGoesOn

\* An apply that finds the target changed ends; nothing is there yet.
LEMMA ObserveAgainAccounted ==
  ASSUME IInv, Accounted, ObserveAgain
  PROVE  Accounted'
<1>1. /\ Awaiting("ObserveAgain") /\ Locked /\ Report(Observation)
      /\ UNCHANGED <<plan, target, edited, evidence, journal, pending, waiting>>
  BY DEF ObserveAgain, Awaiting
<1>2. UNCHANGED <<stage, container, backup, txdir>>
  BY <1>1 DEF evidence
<1>3. /\ run \in Runs /\ run.machine \in Machines /\ run.cmd = "apply" /\ Progress
      /\ run.machine.awaiting = "ObserveAgain"
  BY <1>1, AccountedRun DEF Awaiting
<1>4. run.machine.state = "NeedRevalidation"
  BY <1>1, <1>3, StatesOfEffects DEF IInv, RunInv
<1>5. ~ pending /\ journal = NoJournal /\ UntouchedYet
  BY <1>3, <1>4 DEF Accounted, Awaiting, Progress
<1>6. CASE Observation = Reobserved(TRUE)
  <2>1. Successor(Reobserved(TRUE)) = Continue("NeedPlannedJournal", 0, "PersistJournal")
    BY <1>3, <1>4, ApplySuccessors DEF Successor, PersistThen
  <2>2. "NeedPlannedJournal" \in States /\ "PersistJournal" \in Effects
    BY DEF States, Effects
  <2>3. run'.machine.state = "NeedPlannedJournal" /\ run'.tx = run.tx => Progress'
    BY <1>1, <1>2, <1>5 DEF Progress, UntouchedYet, NoStage, NoContainer, Ops
  <2>4. QED
    BY <1>1, <1>2, <1>5, <1>6, <2>1, <2>2, <2>3, EntersAccounted
<1>7. CASE Observation = EffectFailed("ObserveAgain")
  <2>1. Fail
    BY <1>1, <1>3, <1>7 DEF Fail
  <2>2. QED
    BY <1>1, <1>2, <1>3, <1>5, <2>1, FailureEndsRun, CommandEnds
<1>8. QED
  <2>1. CASE Classification = "NoJournal" /\ MatchesPreconditions(plan, target)
    BY <1>3, <1>4, <1>6, <2>1 DEF Observation
  <2>2. CASE ~ (Classification = "NoJournal" /\ MatchesPreconditions(plan, target))
    BY <1>3, <1>4, <1>7, <2>2 DEF Observation
  <2>3. QED
    BY <2>1, <2>2

\* journal.pending is there only while its own rename is awaited.
LEMMA WritePendingAccounted ==
  ASSUME IInv, Accounted, WritePending
  PROVE  Accounted'
<1>1. /\ Awaiting("PersistJournal") /\ Locked /\ ~ run.busy
      /\ UNCHANGED <<plan, target, edited, evidence, journal, waiting>>
  BY DEF WritePending, Awaiting
<1>2. UNCHANGED <<stage, container, backup, txdir>>
  BY <1>1 DEF evidence
<1>3. run \in Runs /\ run.cmd = "apply" /\ Progress
  BY <1>1, AccountedRun
<1>4. KeepBusy
  BY <1>1 DEF WritePending, Accounted
<1>5. /\ run' \in Runs' /\ Locked' /\ run'.busy = TRUE /\ run'.cmd = run.cmd
      /\ run'.tx = run.tx /\ run'.machine = run.machine
      /\ run'.alloc = run.alloc /\ run'.mine = run.mine
  BY <1>1, <1>3, <1>4, BusyRun
<1>6. run.machine.state \in {"NeedPlannedJournal", "NeedMutatingJournal",
                             "NeedSealedJournal", "NeedRestoredJournal"}
  BY <1>1, StatesOfEffects DEF IInv, RunInv
<1>7. Progress'
  BY <1>1, <1>2, <1>3, <1>5, <1>6 DEF Progress, UntouchedYet, OnceInstalled, OnceRestored,
     Staged, Mine, Restored, NoStage, NoContainer, Ops
<1>8. QED
  BY <1>1, <1>2, <1>5, <1>7, CommandGoesOn DEF Awaiting

\* A preparation goes on after slot k: every stage up to there is full.
LEMMA PreparationAccounted ==
  ASSUME IInv, Accounted, Locked, UNCHANGED <<plan, edited, waiting>>, ~ pending',
         NEW e, Report(e), NEW k \in Nat, Successor(e) = PrepareAfter(plan, k),
         txdir' \subseteq txdir \cup {run.tx},
         \A t \in Tx \ {run.tx} : stage'[t] = stage[t] /\ container'[t] = container[t],
         \A i \in Ops(plan) :
           /\ StageSlot(i) <= k /\ NeedsStage(plan.kinds[i]) => stage'[run.tx][i] = "full"
           /\ container'[run.tx][i] = "none"
  PROVE  Accounted'
<1>1. WellFormed(plan) /\ Ops(plan)' = Ops(plan)
  BY AccountedRun
<1>2. \A i \in Ops(plan) :
        StageSlot(i) \in Nat /\ (NeedsStage(plan.kinds[i]) => StageSlot(i) \in PreparationSlots(plan))
  BY <1>1, SlotOrder
<1>3. /\ "Preparing" \in States /\ "NeedMutatingJournal" \in States
      /\ "PrepareOne" \in Effects /\ "PersistJournal" \in Effects
  BY DEF States, Effects
<1>4. CASE /\ PrepareAfter(plan, k) = Continue("NeedMutatingJournal", 0, "PersistJournal")
           /\ \A j \in PreparationSlots(plan) : j <= k
  <2>1. run'.machine.state = "NeedMutatingJournal" /\ run'.tx = run.tx => Progress'
    BY <1>1, <1>2, <1>4 DEF Progress, Staged, NoContainer
  <2>2. QED
    BY <1>3, <1>4, <2>1, EntersAccounted
<1>5. ASSUME NEW n \in PreparationSlots(plan), n \in Nat,
             PrepareAfter(plan, k) = Continue("Preparing", n, "PrepareOne"),
             \A l \in PreparationSlots(plan) : l > k => n <= l
      PROVE  Accounted'
  <2>1. \A i \in Ops(plan) : StageSlot(i) < n /\ NeedsStage(plan.kinds[i]) => StageSlot(i) <= k
    BY <1>2, <1>5
  <2>2. run'.machine.state = "Preparing" /\ run'.machine.cursor = n /\ run'.tx = run.tx
          => Progress'
    BY <1>1, <2>1 DEF Progress, WhilePreparing, Staged, NoContainer
  <2>3. QED
    BY <1>3, <1>5, <2>2, EntersAccounted
<1>6. QED
  BY <1>1, <1>4, <1>5, PrepareAfterResult

\* An installation goes on after operation i: every operation up to there has
\* been applied, and no other.
LEMMA InstallationAccounted ==
  ASSUME IInv, Accounted, Locked, UNCHANGED <<plan, edited, waiting>>, ~ pending',
         NEW e, Report(e), NEW i \in 0 .. Len(plan.kinds), Successor(e) = InstallAfter(plan, i),
         txdir' \subseteq txdir \cup {run.tx},
         \A t \in Tx \ {run.tx} : stage'[t] = stage[t] /\ container'[t] = container[t],
         \A j \in Ops(plan) :
           /\ NeedsStage(plan.kinds[j]) =>
                stage'[run.tx][j] = IF j <= i THEN "marked" ELSE "full"
           /\ target'[j] = IF j <= i THEN "new" ELSE "old"
           /\ container'[run.tx][j] = "none"
  PROVE  Accounted'
<1>1. /\ WellFormed(plan) /\ Ops(plan)' = Ops(plan) /\ Len(plan.kinds) \in Nat
      /\ Ops(plan) = 1 .. Len(plan.kinds)
  BY AccountedRun
<1>2. /\ "Installing" \in States /\ "Verifying" \in States
      /\ "ApplyOne" \in Effects /\ "ObservePostState" \in Effects
  BY DEF States, Effects
<1>3. CASE i = Len(plan.kinds) /\ InstallAfter(plan, i) = Continue("Verifying", 0, "ObservePostState")
  <2>1. \A j \in Ops(plan) : j <= i
    BY <1>1, <1>3
  <2>2. run'.machine.state = "Verifying" /\ run'.tx = run.tx => Progress'
    BY <1>1, <2>1 DEF Progress, OnceInstalled, Staged, NoContainer
  <2>3. QED
    BY <1>2, <1>3, <2>2, EntersAccounted
<1>4. CASE InstallAfter(plan, i) = Continue("Installing", i + 1, "ApplyOne")
  <2>1. i + 1 \in Nat /\ \A j \in Ops(plan) : j <= i <=> j < i + 1
    BY <1>1
  <2>2. run'.machine.state = "Installing" /\ run'.machine.cursor = i + 1 /\ run'.tx = run.tx
          => Progress'
    BY <1>1, <2>1 DEF Progress, WhileInstalling, Staged, NoContainer
  <2>3. QED
    BY <1>2, <1>4, <2>1, <2>2, EntersAccounted
<1>5. QED
  <2>1. i \in 0 .. Len(plan.kinds) + 1 /\ i <= Len(plan.kinds)
    BY <1>1
  <2>2. QED
    BY <1>1, <1>3, <1>4, <2>1, CursorResults

\* A rollback goes on before operation i: every operation from there on has
\* been restored, and no other.
LEMMA RollbackAccounted ==
  ASSUME IInv, Accounted, Locked, UNCHANGED <<plan, edited, waiting>>, ~ pending',
         NEW e, Report(e), NEW i \in 1 .. Len(plan.kinds) + 1,
         Successor(e) = RollbackBefore(plan, i),
         txdir' \subseteq txdir \cup {run.tx},
         \A t \in Tx \ {run.tx} : stage'[t] = stage[t] /\ container'[t] = container[t],
         \A j \in Ops(plan) :
           /\ NeedsStage(plan.kinds[j]) => stage'[run.tx][j] = "marked"
           /\ j < i => target'[j] = "new" /\ container'[run.tx][j] = "none"
           /\ j >= i /\ NeedsContainer(plan.kinds[j]) =>
                /\ container'[run.tx][j] = Emptied(plan.kinds[j])
                /\ run.alloc /\ j \in run.mine
  PROVE  Accounted'
<1>1. /\ WellFormed(plan) /\ Ops(plan)' = Ops(plan) /\ Len(plan.kinds) \in Nat
      /\ Ops(plan) = 1 .. Len(plan.kinds)
  BY AccountedRun
<1>2. /\ "RollingBack" \in States /\ "NeedRestoredJournal" \in States
      /\ "AttemptRollbackOne" \in Effects /\ "PersistJournal" \in Effects
  BY DEF States, Effects
<1>3. CASE i = 1 /\ RollbackBefore(plan, i) = Continue("NeedRestoredJournal", 0, "PersistJournal")
  <2>1. \A j \in Ops(plan) : j >= i
    BY <1>1, <1>3
  <2>2. /\ run'.machine.state = "NeedRestoredJournal" /\ run'.tx = run.tx
        /\ run'.alloc = run.alloc /\ run'.mine = run.mine
        => Progress'
    <3> SUFFICES ASSUME run'.machine.state = "NeedRestoredJournal", run'.tx = run.tx,
                        run'.alloc = run.alloc, run'.mine = run.mine
                 PROVE  Progress'
      OBVIOUS
    <3>1. \A j \in Ops(plan) : Staged(j, "marked")' /\ Restored(j)'
      BY <1>1, <2>1 DEF Staged, Restored
    <3>2. \A j \in Ops(plan) : Mine(j)'
      BY <1>1, <2>1 DEF Mine
    <3>3. QED
      BY <1>1, <3>1, <3>2 DEF OnceRestored, Progress
  <2>3. QED
    BY <1>2, <1>3, <2>2, EntersAccounted
<1>4. CASE RollbackBefore(plan, i) = Continue("RollingBack", i - 1, "AttemptRollbackOne")
  <2>1. /\ i - 1 \in Nat
        /\ \A j \in Ops(plan) : /\ j <= i - 1 <=> j < i
                                /\ j < i - 1 => j < i
                                /\ j > i - 1 <=> j >= i
                                /\ j = i - 1 => j < i
    BY <1>1
  <2>2. /\ run'.machine.state = "RollingBack" /\ run'.machine.cursor = i - 1 /\ run'.tx = run.tx
        /\ ~ run'.busy /\ run'.alloc = run.alloc /\ run'.mine = run.mine
        => Progress'
    <3> SUFFICES ASSUME run'.machine.state = "RollingBack", run'.machine.cursor = i - 1,
                        run'.tx = run.tx, ~ run'.busy,
                        run'.alloc = run.alloc, run'.mine = run.mine
                 PROVE  Progress'
      OBVIOUS
    <3>1. \A j \in Ops(plan) :
            /\ Staged(j, "marked")'
            /\ j <= i - 1 => target'[j] = "new" /\ NoContainer(j)'
            /\ j > i - 1 => Restored(j)'
      BY <1>1, <2>1 DEF Staged, Restored, NoContainer
    <3>2. \A j \in Ops(plan) : j > i - 1 => Mine(j)'
      BY <1>1, <2>1 DEF Mine
    <3>3. \A j \in Ops(plan) : j < i - 1 \/ j = i - 1 => j <= i - 1
      BY <1>1
    <3>4. QED
      BY <1>1, <3>1, <3>2, <3>3 DEF WhileRollingBack, Progress
  <2>3. QED
    BY <1>2, <1>4, <2>1, <2>2, EntersAccounted
<1>5. QED
  <2>1. i \in 0 .. Len(plan.kinds) + 1 /\ i >= 1
    BY <1>1
  <2>2. QED
    BY <1>1, <1>3, <1>4, <2>1, CursorResults

\* A cleanup goes on after slot k: what has a slot up to there is gone, and
\* everything else is as the installation or the rollback left it.
LEMMA CleanupAccounted ==
  ASSUME IInv, Accounted, Locked, UNCHANGED <<plan, edited, waiting>>, ~ pending',
         NEW s \in {"CleaningForward", "CleaningRollback"}, NEW phase, phase = CleanupPhase(s),
         NEW e, Report(e), NEW k \in Nat, Successor(e) = CleanAfter(plan, s, phase, k),
         txdir' \subseteq txdir \cup {run.tx},
         \A t \in Tx \ {run.tx} : stage'[t] = stage[t] /\ container'[t] = container[t],
         \A i \in Ops(plan) :
           /\ StageSlot(i) <= k \/ ~ NeedsStage(plan.kinds[i]) => stage'[run.tx][i] = "none"
           /\ StageSlot(i) > k /\ NeedsStage(plan.kinds[i]) => stage'[run.tx][i] = "marked"
           /\ backup'[run.tx][i] # "partial",
         \A i \in Ops(plan) :
           /\ \/ RollbackSlot(plan, i) <= k
              \/ s = "CleaningForward"
              \/ ~ NeedsContainer(plan.kinds[i])
              => container'[run.tx][i] = "none"
           /\ s = "CleaningRollback" /\ NeedsContainer(plan.kinds[i]) =>
                /\ RollbackSlot(plan, i) > k => container'[run.tx][i] = Emptied(plan.kinds[i])
                /\ run.alloc /\ i \in run.mine,
         k >= JournalSlot(plan) => journal' = NoJournal
  PROVE  Accounted'
<1>1. WellFormed(plan) /\ Ops(plan)' = Ops(plan)
  BY AccountedRun
<1>2. phase \in Phases /\ (s = "CleaningRollback" => phase = "restored")
  BY DEF CleanupPhase, Phases
<1>3. /\ JournalSlot(plan) \in Nat /\ JournalSlot(plan) \in CleanupSlots(plan, phase)
      /\ \A i \in Ops(plan) :
           /\ StageSlot(i) \in Nat /\ RollbackSlot(plan, i) \in Nat
           /\ StageSlot(i) < JournalSlot(plan) /\ RollbackSlot(plan, i) < JournalSlot(plan)
           /\ NeedsStage(plan.kinds[i]) => StageSlot(i) \in CleanupSlots(plan, phase)
           /\ s = "CleaningRollback" /\ NeedsContainer(plan.kinds[i])
                => RollbackSlot(plan, i) \in CleanupSlots(plan, phase)
  <2>1. JournalSlot(plan) \in Nat
    BY PlanIsWellFormed DEF IInv, JournalSlot
  <2>2. QED
    BY <1>1, <1>2, <2>1, SlotOrder DEF CleanupSlots
<1>4. s \in States /\ "Releasing" \in States /\ "CleanOne" \in Effects /\ "ReleaseLock" \in Effects
  BY DEF States, Effects
<1>5. CASE /\ CleanAfter(plan, s, phase, k) = Continue("Releasing", 0, "ReleaseLock")
           /\ \A j \in CleanupSlots(plan, phase) : j <= k
  <2>1. JournalSlot(plan) <= k
    BY <1>3, <1>5
  <2>2. \A i \in Ops(plan) : StageSlot(i) <= k /\ RollbackSlot(plan, i) <= k
    BY <1>3, <2>1
  <2>3. run'.machine.state = "Releasing" /\ run'.tx = run.tx => Progress'
    BY <1>1, <1>3, <2>1, <2>2 DEF Progress, UntouchedYet, NoStage, NoContainer
  <2>4. QED
    BY <1>4, <1>5, <2>3, EntersAccounted
<1>6. ASSUME NEW n \in CleanupSlots(plan, phase), n \in Nat, n > k,
             CleanAfter(plan, s, phase, k) = Continue(s, n, "CleanOne"),
             \A l \in CleanupSlots(plan, phase) : l > k => n <= l
      PROVE  Accounted'
  <2>1. \A i \in Ops(plan) :
          /\ StageSlot(i) < n /\ NeedsStage(plan.kinds[i]) => StageSlot(i) <= k
          /\ RollbackSlot(plan, i) < n /\ NeedsContainer(plan.kinds[i])
               /\ s = "CleaningRollback" => RollbackSlot(plan, i) <= k
          /\ StageSlot(i) > n \/ StageSlot(i) = n => StageSlot(i) > k
          /\ RollbackSlot(plan, i) > n \/ RollbackSlot(plan, i) = n => RollbackSlot(plan, i) > k
    BY <1>3, <1>6
  <2>2. ASSUME run'.machine.state = s, run'.machine.cursor = n, ~ run'.busy,
               run'.tx = run.tx, run'.alloc = run.alloc, run'.mine = run.mine
        PROVE  Progress'
    <3>1. WhileCleaning'
      BY <1>1, <2>1, <2>2 DEF WhileCleaning, Ahead, Staged, NoStage
    <3>2. s = "CleaningForward" => \A i \in Ops(plan)' : NoContainer(i)'
      BY <1>1, <2>2 DEF NoContainer
    <3>3. s = "CleaningRollback" => WhileCleaningContainers'
      <4>1. \A i \in Ops(plan) : RollbackSlot(plan, i)' = RollbackSlot(plan, i)
        BY DEF RollbackSlot
      <4>2. s = "CleaningRollback" => \A i \in Ops(plan) :
              /\ RollbackSlot(plan, i) < n => NoContainer(i)'
              /\ RollbackSlot(plan, i) > n \/ RollbackSlot(plan, i) = n => Restored(i)'
        BY <1>1, <2>1, <2>2 DEF Restored, NoContainer
      <4>3. s = "CleaningRollback" => \A i \in Ops(plan) : Mine(i)'
        BY <1>1, <2>2 DEF Mine
      <4>4. QED
        BY <1>1, <2>2, <4>1, <4>2, <4>3 DEF WhileCleaningContainers, Ahead
    <3>4. QED
      BY <2>2, <3>1, <3>2, <3>3 DEF Progress
  <2>3. QED
    BY <1>4, <1>6, <2>2, EntersAccounted
<1>7. QED
  BY <1>1, <1>2, <1>5, <1>6, CleanAfterResult

\* Persisting a phase: the evidence is what the next state starts from.
LEMMA RenamePendingAccounted ==
  ASSUME IInv, Accounted, RenamePending
  PROVE  Accounted'
<1>1. /\ Awaiting("PersistJournal") /\ Locked /\ Report(JournalPersisted(PersistedPhase))
      /\ UNCHANGED <<plan, target, edited, evidence, waiting>> /\ ~ pending'
  BY DEF RenamePending, Awaiting
<1>2. UNCHANGED <<stage, container, backup, txdir>>
  BY <1>1 DEF evidence
<1>3. /\ run \in Runs /\ run.machine \in Machines /\ run.cmd = "apply" /\ Progress
      /\ edited = {} /\ WellFormed(plan) /\ Len(plan.kinds) \in Nat
      /\ Ops(plan) = 1 .. Len(plan.kinds)
  BY <1>1, AccountedRun
<1>4. run.tx \in Tx
  BY <1>1, PersistingStates
<1>5. \A i \in Ops(plan) :
        /\ 0 < StageSlot(i) /\ StageSlot(i) \in Nat
        /\ 0 < RollbackSlot(plan, i) /\ RollbackSlot(plan, i) \in Nat
  BY <1>3, SlotOrder
<1>6. \A i \in Ops(plan) : /\ ~ (StageSlot(i) <= 0) /\ StageSlot(i) > 0
                           /\ ~ (RollbackSlot(plan, i) <= 0) /\ RollbackSlot(plan, i) > 0
  BY <1>5
<1>7. ~ (0 >= JournalSlot(plan))
  BY <1>3 DEF JournalSlot
<1>8. \A i \in Ops(plan) : /\ ~ NeedsStage(plan.kinds[i]) => stage[run.tx][i] = "none"
                           /\ ~ NeedsContainer(plan.kinds[i]) => container[run.tx][i] = "none"
                           /\ ~ NeedsBackup(plan.kinds[i]) => backup[run.tx][i] = "none"
  BY <1>4 DEF IInv, EvidenceInv
<1>9. \A i \in Ops(plan) : Untouched(i)
  BY <1>3 DEF Untouched
<1>10. CASE run.machine.state = "NeedPlannedJournal" /\ PersistedPhase = "planned"
  <2>1. Successor(JournalPersisted(PersistedPhase)) = PrepareAfter(plan, 0)
    BY <1>3, <1>10, ApplySuccessors DEF Successor
  <2>2. \A i \in Ops(plan) : container'[run.tx][i] = "none"
    BY <1>2, <1>3, <1>10 DEF Progress, UntouchedYet, NoContainer
  <2>3. QED
    BY <1>1, <1>2, <1>6, <2>1, <2>2, PreparationAccounted
<1>11. CASE /\ run.machine.state = "NeedMutatingJournal" /\ PersistedPhase = "mutating"
            /\ journal.phase = "planned"
  <2>1. Successor(JournalPersisted(PersistedPhase)) = InstallAfter(plan, 0)
    BY <1>3, <1>11, ApplySuccessors DEF Successor
  <2>2. \A i \in Ops(plan) : target'[i] = "old"
    BY <1>1, <1>9, <1>11 DEF IInv, JournalInv, PlannedMeansUntouched
  <2>3. \A i \in Ops(plan) : /\ NeedsStage(plan.kinds[i]) => stage'[run.tx][i] = "full"
                             /\ container'[run.tx][i] = "none" /\ ~ (i <= 0)
    BY <1>2, <1>3, <1>11 DEF Progress, Staged, NoContainer
  <2>4. 0 \in 0 .. Len(plan.kinds)
    BY <1>3
  <2>5. QED
    BY <1>1, <1>2, <2>1, <2>2, <2>3, <2>4, InstallationAccounted
<1>12. CASE /\ run.machine.state = "NeedSealedJournal" /\ PersistedPhase = "sealed"
            /\ journal.tx = run.tx /\ journal.phase = "mutating"
  <2>1. Successor(JournalPersisted(PersistedPhase))
          = CleanAfter(plan, "CleaningForward", "sealed", 0)
    BY <1>3, <1>12, ApplySuccessors DEF Successor
  <2>2. "sealed" = CleanupPhase("CleaningForward")
    BY DEF CleanupPhase
  <2>3. \A i \in Ops(plan) : /\ NeedsStage(plan.kinds[i]) => stage'[run.tx][i] = "marked"
                             /\ container'[run.tx][i] = "none"
    BY <1>2, <1>3, <1>12 DEF Progress, OnceInstalled, Staged, NoContainer
  <2>4. \A i \in Ops(plan) : backup'[run.tx][i] # "partial"
    BY <1>2, <1>8, <1>12 DEF IInv, JournalInv, BackupUntilSettled
  <2>5. QED
    BY <1>1, <1>2, <1>6, <1>7, <1>8, <2>1, <2>2, <2>3, <2>4, CleanupAccounted
<1>13. CASE /\ run.machine.state = "NeedRestoredJournal" /\ PersistedPhase = "restored"
            /\ journal.tx = run.tx /\ journal.phase = "mutating"
  <2>1. Successor(JournalPersisted(PersistedPhase))
          = CleanAfter(plan, "CleaningRollback", "restored", 0)
    BY <1>3, <1>13, ApplySuccessors DEF Successor
  <2>2. "restored" = CleanupPhase("CleaningRollback")
    BY DEF CleanupPhase
  <2>3. \A i \in Ops(plan) :
          /\ NeedsStage(plan.kinds[i]) => stage'[run.tx][i] = "marked"
          /\ NeedsContainer(plan.kinds[i]) =>
               /\ container'[run.tx][i] = Emptied(plan.kinds[i])
               /\ run.alloc /\ i \in run.mine
    BY <1>2, <1>3, <1>13 DEF Progress, OnceRestored, Staged, Restored, Mine
  <2>4. \A i \in Ops(plan) : backup'[run.tx][i] # "partial"
    BY <1>2, <1>8, <1>13 DEF IInv, JournalInv, BackupUntilSettled
  <2>5. QED
    BY <1>1, <1>2, <1>6, <1>7, <1>8, <2>1, <2>2, <2>3, <2>4, CleanupAccounted
<1>14. QED
  BY <1>1, <1>10, <1>11, <1>12, <1>13, PersistingStates

\* Preparing a stage: the one at the cursor grows, the ones below it are full.
LEMMA PrepareStageAccounted ==
  ASSUME IInv, Accounted, PrepareStage
  PROVE  Accounted'
<1>1. Awaiting("PrepareOne") /\ Locked
  BY DEF PrepareStage, Awaiting
<1>2. PICK i \in Ops(plan) :
        /\ run.machine.cursor = StageSlot(i)
        /\ stage' = [stage EXCEPT ![run.tx][i] = More[@]]
        /\ IF stage'[run.tx][i] = "full" THEN Report(PreparationCompleted(StageSlot(i)))
                                         ELSE KeepBusy
  BY DEF PrepareStage
<1>3. UNCHANGED <<plan, edited, container, txdir, pending, waiting>>
  BY DEF PrepareStage
<1>4. /\ run \in Runs /\ run.machine \in Machines /\ run.cmd = "apply" /\ Progress
      /\ WellFormed(plan) /\ Ops(plan)' = Ops(plan)
  BY <1>1, <1>3, AccountedRun
<1>5. /\ run.machine.state = "Preparing" /\ run.tx \in Tx
      /\ run.machine.cursor \in PreparationSlots(plan)
  BY <1>1, PreparingStates
<1>6. ~ pending
  BY <1>1 DEF Accounted, Awaiting
<1>7. /\ \A t \in Tx \ {run.tx} : stage'[t] = stage[t]
      /\ \A j \in Ops(plan) \ {i} : stage'[run.tx][j] = stage[run.tx][j]
  <2>1. stage \in [Tx -> [Ops(plan) -> Levels]]
    BY DEF IInv, TypeOK
  <2>2. QED
    BY <1>2, <1>5, <2>1
<1>8. \A j \in Ops(plan) : StageSlot(j) \in Nat /\ (StageSlot(j) = StageSlot(i) => j = i)
  BY <1>4, SlotOrder, SlotsDiffer
<1>9. \A j \in Ops(plan) :
        /\ StageSlot(j) < StageSlot(i) /\ NeedsStage(plan.kinds[j]) => stage'[run.tx][j] = "full"
        /\ container'[run.tx][j] = "none"
  BY <1>2, <1>3, <1>4, <1>5, <1>7, <1>8 DEF Progress, WhilePreparing, Staged, NoContainer
<1>10. CASE stage'[run.tx][i] = "full"
  <2>1. Report(PreparationCompleted(StageSlot(i)))
    BY <1>2, <1>10
  <2>2. Successor(PreparationCompleted(StageSlot(i))) = PrepareAfter(plan, StageSlot(i))
    BY <1>2, <1>4, <1>5, ApplySuccessors DEF Successor
  <2>3. \A j \in Ops(plan) : StageSlot(j) <= StageSlot(i) => StageSlot(j) < StageSlot(i) \/ j = i
    BY <1>8
  <2>4. \A j \in Ops(plan) :
          StageSlot(j) <= StageSlot(i) /\ NeedsStage(plan.kinds[j]) => stage'[run.tx][j] = "full"
    BY <1>9, <1>10, <2>3
  <2>5. QED
    BY <1>1, <1>3, <1>6, <1>7, <1>8, <1>9, <2>1, <2>2, <2>4, PreparationAccounted
<1>11. CASE KeepBusy
  <2>1. /\ Locked' /\ run'.cmd = run.cmd /\ run'.tx = run.tx /\ run'.machine = run.machine
    BY <1>1, <1>3, <1>4, <1>11, BusyRun
  <2>2. run'.machine.cursor = StageSlot(i) /\ run'.machine.state = "Preparing"
    BY <1>2, <1>5, <2>1
  <2>3. WhilePreparing'
    BY <1>3, <1>4, <1>9, <2>1, <2>2 DEF WhilePreparing, Staged, NoContainer
  <2>4. Progress'
    BY <2>2, <2>3 DEF Progress
  <2>5. QED
    BY <1>1, <1>3, <1>6, <1>7, <2>1, <2>4, CommandGoesOn
<1>12. QED
  BY <1>2, <1>10, <1>11

\* Copying a backup: the path is at its old state, so the copy does not fail.
LEMMA PrepareBackupAccounted ==
  ASSUME IInv, Accounted, PrepareBackup
  PROVE  Accounted'
<1>1. Awaiting("PrepareOne") /\ Locked
  BY DEF PrepareBackup, Awaiting
<1>2. UNCHANGED <<plan, target, edited, stage, container, pending, waiting>>
  BY DEF PrepareBackup
<1>3. /\ run \in Runs /\ run.machine \in Machines /\ run.cmd = "apply" /\ Progress
      /\ edited = {} /\ WellFormed(plan) /\ Ops(plan)' = Ops(plan)
  BY <1>1, <1>2, AccountedRun
<1>4. /\ run.machine.state = "Preparing" /\ run.tx \in Tx /\ journal.phase = "planned"
      /\ run.machine.cursor \in PreparationSlots(plan)
  BY <1>1, PreparingStates
<1>5. ~ pending
  BY <1>1 DEF Accounted, Awaiting
<1>6. \A j \in Ops(plan) : target[j] = "old"
  BY <1>3, <1>4 DEF IInv, JournalInv, PlannedMeansUntouched, Untouched
<1>7. PICK i \in Ops(plan) :
        /\ run.machine.cursor = BackupSlot(i)
        /\ txdir' \subseteq txdir \cup {run.tx}
        /\ KeepBusy \/ Report(PreparationCompleted(BackupSlot(i)))
  <2>1. PICK i \in Ops(plan) :
          /\ run.machine.cursor = BackupSlot(i)
          /\ IF ~ run.busy
               THEN IF target[i] = "old"
                      THEN txdir' = txdir \cup {run.tx} /\ KeepBusy /\ UNCHANGED backup
                      ELSE Fail /\ UNCHANGED <<txdir, backup>>
               ELSE /\ backup' = [backup EXCEPT ![run.tx][i] =
                                    IF @ = "none" THEN "partial" ELSE "full"]
                    /\ IF backup'[run.tx][i] = "full"
                         THEN Report(PreparationCompleted(BackupSlot(i))) ELSE KeepBusy
                    /\ UNCHANGED txdir
    BY DEF PrepareBackup
  <2>2. target[i] = "old"
    BY <1>6
  <2>3. QED
    BY <2>1, <2>2
<1>8. \A j \in Ops(plan) :
        StageSlot(j) \in Nat /\ BackupSlot(i) \in Nat /\ StageSlot(j) # BackupSlot(i)
  BY <1>3, SlotOrder, SlotsDiffer
<1>9. \A j \in Ops(plan) :
        /\ StageSlot(j) < BackupSlot(i) /\ NeedsStage(plan.kinds[j]) => stage'[run.tx][j] = "full"
        /\ container'[run.tx][j] = "none"
  BY <1>2, <1>3, <1>4, <1>7 DEF Progress, WhilePreparing, Staged, NoContainer
<1>10. CASE Report(PreparationCompleted(BackupSlot(i)))
  <2>1. Successor(PreparationCompleted(BackupSlot(i))) = PrepareAfter(plan, BackupSlot(i))
    BY <1>3, <1>4, <1>7, ApplySuccessors DEF Successor
  <2>2. \A j \in Ops(plan) : StageSlot(j) <= BackupSlot(i) => StageSlot(j) < BackupSlot(i)
    BY <1>8
  <2>3. \A j \in Ops(plan) :
          StageSlot(j) <= BackupSlot(i) /\ NeedsStage(plan.kinds[j]) => stage'[run.tx][j] = "full"
    BY <1>9, <2>2
  <2>4. BackupSlot(i) \in Nat
    BY <1>8
  <2>5. QED
    BY <1>1, <1>2, <1>5, <1>7, <1>9, <1>10, <2>1, <2>3, <2>4, PreparationAccounted
<1>11. CASE KeepBusy
  <2>1. /\ Locked' /\ run'.cmd = run.cmd /\ run'.tx = run.tx /\ run'.machine = run.machine
    BY <1>1, <1>2, <1>3, <1>11, BusyRun
  <2>2. run'.machine.cursor = BackupSlot(i) /\ run'.machine.state = "Preparing"
    BY <1>4, <1>7, <2>1
  <2>3. WhilePreparing'
    BY <1>2, <1>3, <1>9, <2>1, <2>2 DEF WhilePreparing, Staged, NoContainer
  <2>4. Progress'
    BY <2>2, <2>3 DEF Progress
  <2>5. QED
    BY <1>1, <1>2, <1>5, <1>7, <2>1, <2>4, CommandGoesOn
<1>12. QED
  BY <1>7, <1>10, <1>11

\* Installing: every path is still at its old state, a directory is empty when
\* its turn comes, and every stage is full, so no operation fails.
LEMMA ApplyOneAccounted ==
  ASSUME IInv, Accounted, ApplyOne
  PROVE  Accounted'
<1>1. Awaiting("ApplyOne") /\ Locked
  BY DEF ApplyOne, Awaiting
<1>2. UNCHANGED <<plan, edited, container, txdir, pending, waiting>>
  BY DEF ApplyOne
<1>3. /\ run \in Runs /\ run.machine \in Machines /\ run.cmd = "apply" /\ Progress
      /\ WellFormed(plan) /\ Ops(plan)' = Ops(plan) /\ Ops(plan) = 1 .. Len(plan.kinds)
      /\ Len(plan.kinds) \in Nat
  BY <1>1, <1>2, AccountedRun
<1>4. run.machine.state = "Installing"
  BY <1>1, StatesOfEffects DEF IInv, RunInv
<1>5. run.tx \in Tx /\ ~ pending
  BY <1>1, <1>3, <1>4, MutatingCommand DEF MutatingStates, Accounted, Awaiting
<1>6. WhileInstalling
  BY <1>3, <1>4 DEF Progress
<1>7. PICK i \in Ops(plan) :
        /\ run.machine.cursor = i
        /\ IF MayApply(i)
             THEN /\ target' = [target EXCEPT ![i] = "new"]
                  /\ stage' = [stage EXCEPT ![run.tx][i] =
                                 IF NeedsStage(plan.kinds[i]) THEN "marked" ELSE @]
                  /\ Report(OperationApplied(i))
             ELSE Fail /\ UNCHANGED <<target, stage>>
  BY DEF ApplyOne
<1>8. MayApply(i)
  <2>1. target[i] = "old" /\ (NeedsStage(plan.kinds[i]) => stage[run.tx][i] = "full")
    BY <1>3, <1>6, <1>7 DEF WhileInstalling, Staged
  <2>2. \A j \in Children(plan, i) : j \in Ops(plan) /\ j < i
    BY <1>3 DEF Children, WellFormed
  <2>3. \A j \in Children(plan, i) : target[j] = "new"
    BY <1>6, <1>7, <2>2 DEF WhileInstalling
  <2>4. \A j \in Ops(plan), t \in Tx : container[t][j] = "none"
    BY <1>6 DEF Accounted, WhileInstalling, NoContainer
  <2>5. Childless(i)
    BY <2>2, <2>3, <2>4 DEF Childless
  <2>6. QED
    BY <2>1, <2>5 DEF MayApply
<1>9. /\ \A t \in Tx \ {run.tx} : stage'[t] = stage[t]
      /\ \A j \in Ops(plan) : target'[j] = IF j = i THEN "new" ELSE target[j]
      /\ \A j \in Ops(plan) : stage'[run.tx][j] =
           IF j = i /\ NeedsStage(plan.kinds[i]) THEN "marked" ELSE stage[run.tx][j]
  <2>1. stage \in [Tx -> [Ops(plan) -> Levels]] /\ target \in [Ops(plan) -> PathStates]
    BY DEF IInv, TypeOK
  <2>2. QED
    BY <1>5, <1>7, <1>8, <2>1
<1>10. Successor(OperationApplied(i)) = InstallAfter(plan, i) /\ i \in 0 .. Len(plan.kinds)
  <2>1. run.machine.cursor \in Ops(plan)
    BY <1>7
  <2>2. StepTransaction(plan, "pass", run.machine, OperationApplied(run.machine.cursor))
          = InstallAfter(plan, run.machine.cursor)
    BY <1>3, <1>4, <2>1, ApplySuccessors
  <2>3. QED
    BY <1>3, <1>7, <2>2 DEF Successor
<1>11. \A j \in Ops(plan) : (j <= i <=> j < i \/ j = i) /\ (j = i => ~ (j < i))
  BY <1>3
<1>12. \A j \in Ops(plan) :
         /\ NeedsStage(plan.kinds[j]) => stage'[run.tx][j] = IF j <= i THEN "marked" ELSE "full"
         /\ target'[j] = IF j <= i THEN "new" ELSE "old"
         /\ container'[run.tx][j] = "none"
  BY <1>2, <1>6, <1>7, <1>9, <1>11 DEF WhileInstalling, Staged, NoContainer
<1>13. QED
  BY <1>1, <1>2, <1>5, <1>7, <1>8, <1>9, <1>10, <1>12, InstallationAccounted

\* The final observation: SEALED is next, or everything is taken back.
LEMMA ObservePostStateAccounted ==
  ASSUME IInv, Accounted, ObservePostState
  PROVE  Accounted'
<1>1. /\ Awaiting("ObservePostState") /\ Locked
      /\ UNCHANGED <<plan, target, edited, evidence, journal, pending, waiting>>
  BY DEF ObservePostState, Awaiting
<1>2. UNCHANGED <<stage, container, backup, txdir>>
  BY <1>1 DEF evidence
<1>3. /\ run \in Runs /\ run.machine \in Machines /\ run.cmd = "apply" /\ Progress
      /\ WellFormed(plan) /\ Ops(plan)' = Ops(plan) /\ Ops(plan) = 1 .. Len(plan.kinds)
      /\ Len(plan.kinds) \in Nat
  BY <1>1, AccountedRun
<1>4. run.machine.state = "Verifying"
  BY <1>1, StatesOfEffects DEF IInv, RunInv
<1>5. ~ pending' /\ OnceInstalled
  BY <1>1, <1>3, <1>4 DEF Accounted, Awaiting, Progress
<1>6. PICK valid \in BOOLEAN : Report(PostStateObserved(valid, MatchesCandidate(plan, target)))
  BY DEF ObservePostState
<1>7. Successor(PostStateObserved(valid, MatchesCandidate(plan, target)))
        = AfterVerification(plan, "pass", valid, MatchesCandidate(plan, target))
  BY <1>3, <1>4 DEF Successor, StepTransaction, PostStateObserved
<1>8. CASE AfterVerification(plan, "pass", valid, MatchesCandidate(plan, target))
             = PersistThen("NeedSealedJournal")
  <2>1. "NeedSealedJournal" \in States /\ "PersistJournal" \in Effects
    BY DEF States, Effects
  <2>2. run'.machine.state = "NeedSealedJournal" /\ run'.tx = run.tx => Progress'
    BY <1>1, <1>2, <1>3, <1>5 DEF Progress, OnceInstalled, Staged, NoContainer
  <2>3. QED
    BY <1>1, <1>2, <1>5, <1>6, <1>7, <1>8, <2>1, <2>2, EntersAccounted DEF PersistThen
<1>9. CASE AfterVerification(plan, "pass", valid, MatchesCandidate(plan, target))
             = EnterRollback(plan)
  <2>1. Len(plan.kinds) + 1 \in 1 .. Len(plan.kinds) + 1
    BY <1>3
  <2>2. \A j \in Ops(plan) : j < Len(plan.kinds) + 1 /\ ~ (j >= Len(plan.kinds) + 1)
    BY <1>3
  <2>3. \A j \in Ops(plan) : /\ NeedsStage(plan.kinds[j]) => stage'[run.tx][j] = "marked"
                             /\ target'[j] = "new" /\ container'[run.tx][j] = "none"
    BY <1>1, <1>2, <1>5 DEF OnceInstalled, Staged, NoContainer
  <2>4. QED
    BY <1>1, <1>2, <1>5, <1>6, <1>7, <1>9, <2>1, <2>2, <2>3, RollbackAccounted
    DEF EnterRollback
<1>10. QED
  BY <1>8, <1>9 DEF AfterVerification

\* A rollback step of an apply is followed by the operation before it.
LEMMA RollbackSuccessor ==
  ASSUME IInv, Accounted, Awaiting("AttemptRollbackOne")
  PROVE  Successor(RollbackStepCompleted(run.machine.cursor))
           = RollbackBefore(plan, run.machine.cursor)
<1>1. /\ run.machine \in Machines /\ run.cmd = "apply" /\ run.machine.state = "RollingBack"
      /\ run.machine.cursor >= 1
  BY AccountedRun, RollingBackStates
<1>2. StepTransaction(plan, "pass", run.machine, RollbackStepCompleted(run.machine.cursor))
        = RollbackBefore(plan, run.machine.cursor)
  BY <1>1, ApplySuccessors
<1>3. QED
  BY <1>1, <1>2 DEF Successor

\* Rolling back an installation: every path up to the cursor is at its new
\* state and every backup is full, so no decision fails.
LEMMA AttemptRollbackOneAccounted ==
  ASSUME IInv, Accounted, AttemptRollbackOne
  PROVE  Accounted'
<1>1. Awaiting("AttemptRollbackOne") /\ Locked /\ ~ run.busy
  BY DEF AttemptRollbackOne, Awaiting
<1>2. UNCHANGED <<plan, edited, stage, txdir, pending, waiting>>
  BY DEF AttemptRollbackOne
<1>3. /\ run \in Runs /\ run.machine \in Machines /\ run.cmd = "apply" /\ Progress
      /\ WellFormed(plan) /\ Ops(plan)' = Ops(plan) /\ Ops(plan) = 1 .. Len(plan.kinds)
      /\ Len(plan.kinds) \in Nat
  BY <1>1, <1>2, AccountedRun
<1>4. /\ run.machine.state = "RollingBack" /\ run.tx \in Tx
      /\ \A j \in Ops(plan) : NeedsBackup(plan.kinds[j]) => backup[run.tx][j] = "full"
  BY <1>1, RollingBackStates
<1>5. ~ pending /\ WhileRollingBack
  BY <1>1, <1>3, <1>4 DEF Accounted, Awaiting, Progress
<1>6. target \in [Ops(plan) -> PathStates] /\ container \in [Tx -> [Ops(plan) -> Levels]]
  BY DEF IInv, TypeOK
<1>7. PICK i \in Ops(plan) :
        /\ run.machine.cursor = i
        /\ \/ /\ Decision(i) = "AlreadyRestored"
              /\ Report(RollbackStepCompleted(i))
              /\ UNCHANGED <<target, container>>
           \/ /\ Decision(i) = "Restore" /\ ~ NeedsContainer(plan.kinds[i])
              /\ target' = [target EXCEPT ![i] = "old"]
              /\ Report(RollbackStepCompleted(i))
              /\ UNCHANGED container
           \/ /\ Decision(i) = "Restore" /\ NeedsContainer(plan.kinds[i]) /\ MayBuild(i)
              /\ container' = [container EXCEPT ![run.tx][i] = "bare"]
              /\ run' = [run EXCEPT !.busy = TRUE, !.alloc = TRUE, !.mine = @ \cup {i}]
              /\ UNCHANGED target
           \/ /\ \/ Decision(i) = "ThirdState"
                 \/ Decision(i) = "Restore" /\ NeedsContainer(plan.kinds[i]) /\ ~ MayBuild(i)
              /\ Fail
              /\ UNCHANGED <<target, container>>
  BY DEF AttemptRollbackOne
<1>8. target[i] = "new" /\ container[run.tx][i] = "none"
  BY <1>1, <1>3, <1>5, <1>7 DEF WhileRollingBack, NoContainer
<1>9. Decision(i) = "Restore" /\ MayBuild(i)
  BY <1>4, <1>8 DEF Decision, RollbackDecision, MayBuild
<1>10. CASE /\ ~ NeedsContainer(plan.kinds[i])
            /\ target' = [target EXCEPT ![i] = "old"]
            /\ Report(RollbackStepCompleted(i))
            /\ UNCHANGED container
  <2>1. Successor(RollbackStepCompleted(i)) = RollbackBefore(plan, i)
    BY <1>1, <1>3, RollbackSuccessor, <1>7
  <2>2. i \in 1 .. Len(plan.kinds) + 1
    BY <1>3
  <2>3. \A j \in Ops(plan) : /\ j < i => j # i /\ j <= i
                             /\ j >= i => j > i \/ j = i
    BY <1>3
  <2>4. \A j \in Ops(plan) :
          /\ NeedsStage(plan.kinds[j]) => stage'[run.tx][j] = "marked"
          /\ j < i => target'[j] = "new" /\ container'[run.tx][j] = "none"
    BY <1>2, <1>5, <1>6, <1>7, <1>10, <2>3 DEF WhileRollingBack, Staged, NoContainer
  <2>5. \A j \in Ops(plan) :
          j >= i /\ NeedsContainer(plan.kinds[j]) =>
            /\ container'[run.tx][j] = Emptied(plan.kinds[j])
            /\ run.alloc /\ j \in run.mine
    BY <1>5, <1>7, <1>10, <2>3 DEF WhileRollingBack, Restored, Mine
  <2>6. QED
    BY <1>1, <1>2, <1>5, <1>10, <2>1, <2>2, <2>4, <2>5, RollbackAccounted
<1>11. CASE /\ container' = [container EXCEPT ![run.tx][i] = "bare"]
            /\ run' = [run EXCEPT !.busy = TRUE, !.alloc = TRUE, !.mine = @ \cup {i}]
            /\ UNCHANGED target
  <2>1. /\ run'.cmd = run.cmd /\ run'.tx = run.tx /\ run'.machine = run.machine
        /\ run'.busy = TRUE /\ run'.alloc = TRUE /\ run'.mine = run.mine \cup {i}
    BY <1>3, <1>11 DEF Runs
  <2>2. Locked' /\ run'.machine.state = "RollingBack" /\ run'.machine.cursor = i
    BY <1>1, <1>4, <1>7, <2>1 DEF Locked
  <2>3. /\ \A t \in Tx \ {run.tx} : container'[t] = container[t]
        /\ \A j \in Ops(plan) \ {i} : container'[run.tx][j] = container[run.tx][j]
    BY <1>4, <1>6, <1>11
  <2>4. \A j \in Ops(plan) : (j < i => j # i) /\ (j > i => j # i) /\ (j <= i => target[j] = "new")
    BY <1>3, <1>5, <1>7 DEF WhileRollingBack
  <2>5. \A j \in Ops(plan) :
          /\ Staged(j, "marked")' /\ (j <= i => target'[j] = "new")
          /\ j < i => NoContainer(j)'
          /\ j > i => Restored(j)'
    BY <1>2, <1>3, <1>5, <1>7, <1>11, <2>1, <2>3, <2>4
    DEF WhileRollingBack, Staged, NoContainer, Restored
  <2>6. \A j \in Ops(plan) : j > i \/ j = i => Mine(j)'
    BY <1>2, <1>5, <1>7, <2>1 DEF WhileRollingBack, Mine
  <2>7. WhileRollingBack'
    BY <1>3, <2>1, <2>2, <2>5, <2>6 DEF WhileRollingBack
  <2>8. Progress'
    BY <2>2, <2>7 DEF Progress
  <2>9. QED
    BY <1>1, <1>2, <1>5, <2>1, <2>2, <2>3, <2>8, CommandGoesOn
<1>12. QED
  BY <1>7, <1>9, <1>10, <1>11

\* Building a container, and the rename through it.
LEMMA BuildContainerAccounted ==
  ASSUME IInv, Accounted, BuildContainer
  PROVE  Accounted'
<1>1. Awaiting("AttemptRollbackOne") /\ Locked /\ run.busy
  BY DEF BuildContainer, Awaiting
<1>2. UNCHANGED <<plan, edited, stage, txdir, pending, waiting>>
  BY DEF BuildContainer
<1>3. /\ run \in Runs /\ run.machine \in Machines /\ run.cmd = "apply" /\ Progress
      /\ WellFormed(plan) /\ Ops(plan)' = Ops(plan) /\ Ops(plan) = 1 .. Len(plan.kinds)
      /\ Len(plan.kinds) \in Nat
  BY <1>1, <1>2, AccountedRun
<1>4. run.machine.state = "RollingBack" /\ run.tx \in Tx
  BY <1>1, RollingBackStates
<1>5. ~ pending /\ WhileRollingBack
  BY <1>1, <1>3, <1>4 DEF Accounted, Awaiting, Progress
<1>6. target \in [Ops(plan) -> PathStates] /\ container \in [Tx -> [Ops(plan) -> Levels]]
  BY DEF IInv, TypeOK
<1>7. PICK i \in Ops(plan) :
        /\ run.machine.cursor = i
        /\ IF container[run.tx][i] = RenameLevel(plan.kinds[i])
             THEN RestoreRename(i)
             ELSE /\ container' = [container EXCEPT ![run.tx][i] = More[@]]
                  /\ KeepBusy
                  /\ UNCHANGED target
  BY DEF BuildContainer
<1>8. \A j \in Ops(plan) : /\ j < i => j # i /\ j <= i
                           /\ j > i => j # i
                           /\ j >= i => j > i \/ j = i
  BY <1>3
<1>9. CASE RestoreRename(i)
  <2>1. /\ target' = [target EXCEPT ![i] = "old"]
        /\ container' = [container EXCEPT ![run.tx][i] = Emptied(plan.kinds[i])]
        /\ Report(RollbackStepCompleted(i))
    BY <1>9 DEF RestoreRename, Emptied
  <2>2. Successor(RollbackStepCompleted(i)) = RollbackBefore(plan, i)
    BY <1>1, <1>7, RollbackSuccessor
  <2>3. i \in 1 .. Len(plan.kinds) + 1
    BY <1>3
  <2>4. /\ \A t \in Tx \ {run.tx} : container'[t] = container[t]
        /\ \A j \in Ops(plan) \ {i} : container'[run.tx][j] = container[run.tx][j]
        /\ container'[run.tx][i] = Emptied(plan.kinds[i])
        /\ \A j \in Ops(plan) \ {i} : target'[j] = target[j]
    BY <1>4, <1>6, <2>1
  <2>5. \A j \in Ops(plan) :
          /\ NeedsStage(plan.kinds[j]) => stage'[run.tx][j] = "marked"
          /\ j < i => target'[j] = "new" /\ container'[run.tx][j] = "none"
    BY <1>2, <1>5, <1>7, <1>8, <2>4 DEF WhileRollingBack, Staged, NoContainer
  <2>6. \A j \in Ops(plan) :
          j >= i /\ NeedsContainer(plan.kinds[j]) =>
            /\ container'[run.tx][j] = Emptied(plan.kinds[j])
            /\ run.alloc /\ j \in run.mine
    <3>1. \A j \in Ops(plan) : j >= i => Mine(j)
      BY <1>1, <1>5, <1>7, <1>8 DEF WhileRollingBack
    <3>2. \A j \in Ops(plan) : j > i => Restored(j)
      BY <1>5, <1>7 DEF WhileRollingBack
    <3>3. QED
      BY <1>8, <2>4, <3>1, <3>2 DEF Restored, Mine
  <2>7. QED
    BY <1>1, <1>2, <1>5, <2>1, <2>2, <2>3, <2>4, <2>5, <2>6, RollbackAccounted
<1>10. CASE /\ container' = [container EXCEPT ![run.tx][i] = More[@]]
            /\ KeepBusy
            /\ UNCHANGED target
  <2>1. /\ Locked' /\ run'.cmd = run.cmd /\ run'.tx = run.tx /\ run'.machine = run.machine
        /\ run'.busy = TRUE /\ run'.alloc = run.alloc /\ run'.mine = run.mine
    BY <1>1, <1>2, <1>3, <1>10, BusyRun
  <2>2. run'.machine.state = "RollingBack" /\ run'.machine.cursor = i
    BY <1>4, <1>7, <2>1
  <2>3. /\ \A t \in Tx \ {run.tx} : container'[t] = container[t]
        /\ \A j \in Ops(plan) \ {i} : container'[run.tx][j] = container[run.tx][j]
    BY <1>4, <1>6, <1>10
  <2>4. \A j \in Ops(plan) :
          /\ Staged(j, "marked")' /\ (j <= i => target'[j] = "new")
          /\ j < i => NoContainer(j)'
          /\ j > i => Restored(j)'
    BY <1>2, <1>5, <1>7, <1>8, <1>10, <2>1, <2>3
    DEF WhileRollingBack, Staged, NoContainer, Restored
  <2>5. \A j \in Ops(plan) : j > i \/ j = i => Mine(j)'
    <3>1. \A j \in Ops(plan) : j > i \/ j = i => Mine(j)
      BY <1>1, <1>5, <1>7 DEF WhileRollingBack
    <3>2. QED
      BY <1>2, <2>1, <3>1 DEF Mine
  <2>6. WhileRollingBack'
    BY <1>3, <2>1, <2>2, <2>4, <2>5 DEF WhileRollingBack
  <2>7. Progress'
    BY <2>2, <2>6 DEF Progress
  <2>8. QED
    BY <1>1, <1>2, <1>5, <2>1, <2>3, <2>7, CommandGoesOn
<1>11. QED
  BY <1>7, <1>9, <1>10

\* What is known of an apply that cleans up.
LEMMA AccountedCleaning ==
  ASSUME IInv, Accounted, Awaiting("CleanOne")
  PROVE  /\ Locked /\ run \in Runs /\ run.tx \in Tx /\ ~ pending /\ WhileCleaning
         /\ run.machine.state \in {"CleaningForward", "CleaningRollback"}
         /\ run.machine.state = "CleaningRollback" => WhileCleaningContainers
         /\ run.machine.state = "CleaningForward" => \A i \in Ops(plan) : NoContainer(i)
         /\ run.machine.cursor \in CleanupSlots(plan, CleanupPhase(run.machine.state))
         /\ run.machine.cursor \in Nat
         /\ Successor(CleanupCompleted(run.machine.cursor))
              = CleanAfter(plan, run.machine.state, CleanupPhase(run.machine.state),
                           run.machine.cursor)
<1>1. /\ Locked /\ run \in Runs /\ run.machine \in Machines /\ run.cmd = "apply"
      /\ Progress /\ run.tx \in Tx
      /\ run.machine.state \in CleaningStates /\ run.machine.state # "Discarding"
      /\ run.machine.cursor \in Inventory(run.machine.state) /\ run.machine.cursor \in Nat
  BY AccountedRun, CleaningCommand
<1>2. run.machine.state \in {"CleaningForward", "CleaningRollback"}
  BY <1>1 DEF CleaningStates
<1>3. ~ pending
  BY DEF Accounted, Awaiting
<1>4. run.machine.cursor \in CleanupSlots(plan, CleanupPhase(run.machine.state))
  BY <1>1, <1>2 DEF Inventory, CleanupPhase
<1>5. StepTransaction(plan, "pass", run.machine, CleanupCompleted(run.machine.cursor))
        = CleanAfter(plan, run.machine.state, CleanupPhase(run.machine.state),
                     run.machine.cursor)
  <2>1. CASE run.machine.state = "CleaningForward"
    BY <1>1, <1>4, <2>1, ApplySuccessors DEF CleanupPhase
  <2>2. CASE run.machine.state = "CleaningRollback"
    BY <1>1, <1>4, <2>2, ApplySuccessors DEF CleanupPhase
  <2>3. QED
    BY <1>2, <2>1, <2>2
<1>6. QED
  BY <1>1, <1>2, <1>3, <1>4, <1>5 DEF Progress, Successor

\* A removal that is not finished touches nothing but its own slot.
LEMMA RemovalAccounted ==
  ASSUME IInv, Accounted, Awaiting("CleanOne"), KeepBusy,
         UNCHANGED <<plan, edited, waiting, pending, backup, txdir>>,
         \A t \in Tx \ {run.tx} : stage'[t] = stage[t] /\ container'[t] = container[t],
         \A i \in Ops(plan) :
           StageSlot(i) # run.machine.cursor => stage'[run.tx][i] = stage[run.tx][i],
         \A i \in Ops(plan) :
           RollbackSlot(plan, i) # run.machine.cursor
             => container'[run.tx][i] = container[run.tx][i]
  PROVE  Accounted'
<1>1. /\ Locked /\ run \in Runs /\ run.tx \in Tx /\ ~ pending /\ WhileCleaning
      /\ run.machine.state \in {"CleaningForward", "CleaningRollback"}
      /\ run.machine.state = "CleaningRollback" => WhileCleaningContainers
      /\ run.machine.state = "CleaningForward" => \A i \in Ops(plan) : NoContainer(i)
      /\ run.machine.cursor \in CleanupSlots(plan, CleanupPhase(run.machine.state))
      /\ run.machine.cursor \in Nat
  BY AccountedCleaning
<1>2. WellFormed(plan) /\ Ops(plan)' = Ops(plan)
  BY <1>1, AccountedRun
<1>3. /\ Locked' /\ run'.cmd = run.cmd /\ run'.tx = run.tx /\ run'.machine = run.machine
      /\ run'.busy = TRUE /\ run'.alloc = run.alloc /\ run'.mine = run.mine
  BY <1>1, BusyRun
<1>4. \A i \in Ops(plan) :
        /\ StageSlot(i) \in Nat /\ RollbackSlot(plan, i) \in Nat
        /\ RollbackSlot(plan, i)' = RollbackSlot(plan, i)
  BY <1>2, SlotOrder DEF RollbackSlot
<1>5. \A i \in Ops(plan) :
        /\ StageSlot(i) < run.machine.cursor \/ StageSlot(i) > run.machine.cursor
             => StageSlot(i) # run.machine.cursor
        /\ RollbackSlot(plan, i) < run.machine.cursor \/ RollbackSlot(plan, i) > run.machine.cursor
             => RollbackSlot(plan, i) # run.machine.cursor
  BY <1>1, <1>4
<1>6. WhileCleaning'
  <2>1. \A i \in Ops(plan) :
          /\ StageSlot(i) < run.machine.cursor => NoStage(i)'
          /\ StageSlot(i) > run.machine.cursor => Staged(i, "marked")'
    BY <1>1, <1>2, <1>3, <1>5 DEF WhileCleaning, Ahead, Staged, NoStage
  <2>2. \A i \in Ops(plan) : backup'[run'.tx][i] # "partial"
    BY <1>1, <1>3 DEF WhileCleaning
  <2>3. QED
    BY <1>2, <1>3, <2>1, <2>2 DEF WhileCleaning, Ahead
<1>7. run.machine.state = "CleaningRollback" => WhileCleaningContainers'
  <2>1. run.machine.state = "CleaningRollback" => \A i \in Ops(plan) :
          /\ RollbackSlot(plan, i) < run.machine.cursor => NoContainer(i)'
          /\ RollbackSlot(plan, i) > run.machine.cursor => Restored(i)'
    BY <1>1, <1>2, <1>3, <1>5 DEF WhileCleaningContainers, Ahead, Restored, NoContainer
  <2>2. run.machine.state = "CleaningRollback" => \A i \in Ops(plan) : Mine(i)'
    BY <1>1, <1>3 DEF WhileCleaningContainers, Mine
  <2>3. QED
    BY <1>2, <1>3, <1>4, <2>1, <2>2 DEF WhileCleaningContainers, Ahead
<1>8. run.machine.state = "CleaningForward" => \A i \in Ops(plan)' : NoContainer(i)'
  <2>1. run.machine.state = "CleaningForward" => \A i \in Ops(plan) :
          RollbackSlot(plan, i) # run.machine.cursor
    <3>1. "sealed" # "restored" /\ CleanupPhase("CleaningForward") = "sealed"
      BY DEF CleanupPhase
    <3>2. \A i \in Ops(plan) : RollbackSlot(plan, i) \notin CleanupSlots(plan, "sealed")
      <4>1. \A i \in Ops(plan), j \in Ops(plan) :
              /\ StageSlot(j) # RollbackSlot(plan, i) /\ BackupSlot(j) # RollbackSlot(plan, i)
              /\ RollbackSlot(plan, i) < DirectorySlot(plan)
              /\ DirectorySlot(plan) \in Nat /\ JournalSlot(plan) \in Nat
              /\ DirectorySlot(plan) < JournalSlot(plan)
        BY <1>2, SlotOrder, SlotsDiffer
      <4>2. \A i \in Ops(plan) : RollbackSlot(plan, i) \notin PreparationSlots(plan)
        BY <4>1 DEF PreparationSlots
      <4>3. \A i \in Ops(plan) :
              RollbackSlot(plan, i) # DirectorySlot(plan) /\ RollbackSlot(plan, i) # JournalSlot(plan)
        BY <1>4, <4>1
      <4>4. QED
        BY <3>1, <4>2, <4>3 DEF CleanupSlots
    <3>3. QED
      BY <1>1, <3>1, <3>2
  <2>2. QED
    BY <1>1, <1>2, <1>3, <2>1 DEF NoContainer
<1>9. Progress'
  BY <1>1, <1>3, <1>6, <1>7, <1>8 DEF Progress
<1>10. QED
  BY <1>1, <1>3, <1>9, CommandGoesOn

\* A slot that has been cleaned is followed by the next one.
LEMMA CleanedAccounted ==
  ASSUME IInv, Accounted, Awaiting("CleanOne"),
         UNCHANGED <<plan, edited, waiting, pending>>,
         Report(CleanupCompleted(run.machine.cursor)),
         txdir' \subseteq txdir,
         \A t \in Tx \ {run.tx} : stage'[t] = stage[t] /\ container'[t] = container[t],
         \A i \in Ops(plan) :
           /\ StageSlot(i) # run.machine.cursor => stage'[run.tx][i] = stage[run.tx][i]
           /\ StageSlot(i) = run.machine.cursor => stage'[run.tx][i] = "none",
         \A i \in Ops(plan) :
           /\ RollbackSlot(plan, i) # run.machine.cursor
                => container'[run.tx][i] = container[run.tx][i]
           /\ RollbackSlot(plan, i) = run.machine.cursor => container'[run.tx][i] = "none",
         \A i \in Ops(plan) : backup'[run.tx][i] \in {backup[run.tx][i], "none"},
         run.machine.cursor >= JournalSlot(plan) => journal' = NoJournal
  PROVE  Accounted'
<1>1. /\ Locked /\ run \in Runs /\ run.tx \in Tx /\ ~ pending /\ WhileCleaning
      /\ run.machine.state \in {"CleaningForward", "CleaningRollback"}
      /\ run.machine.state = "CleaningRollback" => WhileCleaningContainers
      /\ run.machine.state = "CleaningForward" => \A i \in Ops(plan) : NoContainer(i)
      /\ run.machine.cursor \in Nat
      /\ Successor(CleanupCompleted(run.machine.cursor))
           = CleanAfter(plan, run.machine.state, CleanupPhase(run.machine.state),
                        run.machine.cursor)
  BY AccountedCleaning
<1>2. WellFormed(plan)
  BY <1>1, AccountedRun
<1>3. \A i \in Ops(plan) :
        /\ StageSlot(i) \in Nat /\ RollbackSlot(plan, i) \in Nat
        /\ ~ NeedsStage(plan.kinds[i]) => stage[run.tx][i] = "none"
        /\ ~ NeedsContainer(plan.kinds[i]) => container[run.tx][i] = "none"
  BY <1>1, <1>2, SlotOrder DEF IInv, EvidenceInv
<1>4. \A i \in Ops(plan) :
        /\ StageSlot(i) <= run.machine.cursor
             => StageSlot(i) < run.machine.cursor \/ StageSlot(i) = run.machine.cursor
        /\ StageSlot(i) > run.machine.cursor => StageSlot(i) # run.machine.cursor
        /\ RollbackSlot(plan, i) <= run.machine.cursor
             => RollbackSlot(plan, i) < run.machine.cursor \/ RollbackSlot(plan, i) = run.machine.cursor
        /\ RollbackSlot(plan, i) > run.machine.cursor => RollbackSlot(plan, i) # run.machine.cursor
  BY <1>1, <1>3
<1>5. \A i \in Ops(plan) :
        /\ StageSlot(i) <= run.machine.cursor \/ ~ NeedsStage(plan.kinds[i])
             => stage'[run.tx][i] = "none"
        /\ StageSlot(i) > run.machine.cursor /\ NeedsStage(plan.kinds[i])
             => stage'[run.tx][i] = "marked"
        /\ backup'[run.tx][i] # "partial"
  BY <1>1, <1>3, <1>4 DEF WhileCleaning, Ahead, Staged, NoStage
<1>6. \A i \in Ops(plan) :
        /\ \/ RollbackSlot(plan, i) <= run.machine.cursor
           \/ run.machine.state = "CleaningForward"
           \/ ~ NeedsContainer(plan.kinds[i])
           => container'[run.tx][i] = "none"
        /\ run.machine.state = "CleaningRollback" /\ NeedsContainer(plan.kinds[i]) =>
             /\ RollbackSlot(plan, i) > run.machine.cursor
                  => container'[run.tx][i] = Emptied(plan.kinds[i])
             /\ run.alloc /\ i \in run.mine
  <2>1. CASE run.machine.state = "CleaningForward"
    BY <1>1, <1>3, <1>4, <2>1 DEF NoContainer
  <2>2. CASE run.machine.state = "CleaningRollback"
    <3>1. \A i \in Ops(plan) : Mine(i)
      BY <1>1, <2>2 DEF WhileCleaningContainers
    <3>2. \A i \in Ops(plan) :
            /\ RollbackSlot(plan, i) <= run.machine.cursor \/ ~ NeedsContainer(plan.kinds[i])
                 => container'[run.tx][i] = "none"
            /\ RollbackSlot(plan, i) > run.machine.cursor /\ NeedsContainer(plan.kinds[i])
                 => container'[run.tx][i] = Emptied(plan.kinds[i])
      BY <1>1, <1>3, <1>4, <2>2 DEF WhileCleaningContainers, Ahead, NoContainer, Restored
    <3>3. QED
      BY <2>2, <3>1, <3>2 DEF Mine
  <2>3. QED
    BY <1>1, <2>1, <2>2
<1>7. QED
  BY <1>1, <1>5, <1>6, CleanupAccounted

\* What the cleanup visits is there for a reason.
LEMMA VisitedSlots ==
  ASSUME NEW p, WellFormed(p), NEW phase, NEW i \in Ops(p)
  PROVE  /\ StageSlot(i) \in CleanupSlots(p, phase) => NeedsStage(p.kinds[i])
         /\ RollbackSlot(p, i) \in CleanupSlots(p, phase) =>
              phase = "restored" /\ NeedsContainer(p.kinds[i])
<1>1. \A j \in Ops(p) :
        /\ StageSlot(i) # RollbackSlot(p, j)
        /\ StageSlot(j) # RollbackSlot(p, i) /\ BackupSlot(j) # RollbackSlot(p, i)
        /\ DirectorySlot(p) \notin {StageSlot(i), RollbackSlot(p, i)}
        /\ JournalSlot(p) \notin {StageSlot(i), RollbackSlot(p, i)}
  <2>1. \A j \in Ops(p) :
          /\ StageSlot(i) # RollbackSlot(p, j)
          /\ StageSlot(j) # RollbackSlot(p, i) /\ BackupSlot(j) # RollbackSlot(p, i)
    BY SlotsDiffer
  <2>2. /\ StageSlot(i) \in Nat /\ RollbackSlot(p, i) \in Nat /\ BackupSlot(i) \in Nat
        /\ DirectorySlot(p) \in Nat /\ JournalSlot(p) \in Nat
        /\ StageSlot(i) < BackupSlot(i) /\ BackupSlot(i) < RollbackSlot(p, i)
        /\ RollbackSlot(p, i) < DirectorySlot(p) /\ DirectorySlot(p) < JournalSlot(p)
    BY SlotOrder
  <2>3. QED
    BY <2>1, <2>2
<1>2. /\ NeedsStage(p.kinds[i]) <=> StageSlot(i) \in PreparationSlots(p)
      /\ NeedsContainer(p.kinds[i]) <=> RollbackSlot(p, i) \in RollbackSlots(p)
  BY SlotOrder
<1>3. StageSlot(i) \notin RollbackSlots(p)
  BY <1>1 DEF RollbackSlots
<1>4. RollbackSlot(p, i) \notin PreparationSlots(p)
  BY <1>1 DEF PreparationSlots
<1>5. QED
  BY <1>1, <1>2, <1>3, <1>4 DEF CleanupSlots

\* A removal goes on from what is verified.
LEMMA RemoveGoesOn ==
  ASSUME NEW level, NEW next, NEW i, NEW slot, Remove(level, next, i, slot),
         run.busy \/ Verified(level, i)
  PROVE  IF next = "none" THEN Report(CleanupCompleted(slot)) ELSE KeepBusy
<1>1. Verified(level, i) => ~ Unowned(level)
  BY DEF Verified, Unowned
<1>2. QED
  BY <1>1 DEF Remove

\* Cleaning a stage.
LEMMA CleanStageAccounted ==
  ASSUME IInv, Accounted, CleanStage
  PROVE  Accounted'
<1>1. PICK i \in Ops(plan), next \in Levels :
        /\ run.machine.cursor = StageSlot(i)
        /\ Remove(stage[run.tx][i], next, i, StageSlot(i))
        /\ stage' = [stage EXCEPT ![run.tx][i] = next]
  BY DEF CleanStage
<1>2. /\ Awaiting("CleanOne")
      /\ UNCHANGED <<plan, edited, container, backup, txdir, pending, waiting>>
  BY DEF CleanStage
<1>3. /\ Locked /\ run.tx \in Tx /\ WhileCleaning
      /\ run.machine.cursor \in CleanupSlots(plan, CleanupPhase(run.machine.state))
  BY <1>2, AccountedCleaning
<1>4. WellFormed(plan)
  BY <1>3, AccountedRun
<1>5. stage \in [Tx -> [Ops(plan) -> Levels]]
  BY DEF IInv, TypeOK
<1>6. /\ \A t \in Tx \ {run.tx} : stage'[t] = stage[t]
      /\ stage'[run.tx][i] = next
      /\ \A j \in Ops(plan) \ {i} : stage'[run.tx][j] = stage[run.tx][j]
  BY <1>1, <1>3, <1>5
<1>7. NeedsStage(plan.kinds[i])
  BY <1>1, <1>3, <1>4, VisitedSlots
<1>8. run.busy \/ Verified(stage[run.tx][i], i)
  BY <1>1, <1>3, <1>7 DEF WhileCleaning, Ahead, Staged, Verified
<1>9. IF next = "none" THEN Report(CleanupCompleted(StageSlot(i))) ELSE KeepBusy
  BY <1>1, <1>8, RemoveGoesOn
<1>10. /\ \A j \in Ops(plan) : StageSlot(j) = StageSlot(i) => j = i
       /\ \A j \in Ops(plan) : RollbackSlot(plan, j) # StageSlot(i)
       /\ ~ (StageSlot(i) >= JournalSlot(plan))
  BY <1>4, SlotOrder, SlotsDiffer
<1>11. \A j \in Ops(plan) :
         StageSlot(j) # run.machine.cursor => stage'[run.tx][j] = stage[run.tx][j]
  BY <1>1, <1>6
<1>12. CASE next = "none"
  <2>1. \A j \in Ops(plan) : StageSlot(j) = run.machine.cursor => stage'[run.tx][j] = "none"
    BY <1>1, <1>6, <1>10, <1>12
  <2>2. \A j \in Ops(plan) : RollbackSlot(plan, j) # run.machine.cursor
    BY <1>1, <1>10
  <2>3. QED
    BY <1>1, <1>2, <1>6, <1>9, <1>10, <1>11, <1>12, <2>1, <2>2, CleanedAccounted
<1>13. CASE next # "none"
  BY <1>2, <1>6, <1>9, <1>11, <1>13, RemovalAccounted
<1>14. QED
  BY <1>12, <1>13

\* Cleaning a rollback container.
LEMMA CleanContainerAccounted ==
  ASSUME IInv, Accounted, CleanContainer
  PROVE  Accounted'
<1>1. PICK i \in Ops(plan), next \in Levels :
        /\ run.machine.cursor = RollbackSlot(plan, i)
        /\ IF run.alloc /\ (Unowned(container[run.tx][i]) \/ i \in run.mine)
             THEN Remove(container[run.tx][i], next, i, RollbackSlot(plan, i))
             ELSE next = container[run.tx][i] /\ Fail
        /\ container' = [container EXCEPT ![run.tx][i] = next]
  BY DEF CleanContainer
<1>2. /\ Awaiting("CleanOne")
      /\ UNCHANGED <<plan, edited, stage, backup, txdir, pending, waiting>>
  BY DEF CleanContainer
<1>3. /\ Locked /\ run.tx \in Tx /\ WhileCleaning
      /\ run.machine.state \in {"CleaningForward", "CleaningRollback"}
      /\ run.machine.state = "CleaningRollback" => WhileCleaningContainers
      /\ run.machine.cursor \in CleanupSlots(plan, CleanupPhase(run.machine.state))
  BY <1>2, AccountedCleaning
<1>4. WellFormed(plan)
  BY <1>3, AccountedRun
<1>5. container \in [Tx -> [Ops(plan) -> Levels]]
  BY DEF IInv, TypeOK
<1>6. /\ \A t \in Tx \ {run.tx} : container'[t] = container[t]
      /\ container'[run.tx][i] = next
      /\ \A j \in Ops(plan) \ {i} : container'[run.tx][j] = container[run.tx][j]
  BY <1>1, <1>3, <1>5
<1>7. NeedsContainer(plan.kinds[i]) /\ CleanupPhase(run.machine.state) = "restored"
  BY <1>1, <1>3, <1>4, VisitedSlots
<1>8. WhileCleaningContainers
  BY <1>3, <1>7 DEF CleanupPhase
<1>9. run.alloc /\ i \in run.mine
  BY <1>7, <1>8 DEF WhileCleaningContainers, Mine
<1>10. run.busy \/ Verified(container[run.tx][i], i)
  BY <1>1, <1>7, <1>8 DEF WhileCleaningContainers, Ahead, Restored, Emptied, Verified
<1>11. IF next = "none" THEN Report(CleanupCompleted(RollbackSlot(plan, i))) ELSE KeepBusy
  BY <1>1, <1>9, <1>10, RemoveGoesOn
<1>12. /\ \A j \in Ops(plan) : RollbackSlot(plan, j) = RollbackSlot(plan, i) => j = i
       /\ \A j \in Ops(plan) : StageSlot(j) # RollbackSlot(plan, i)
       /\ ~ (RollbackSlot(plan, i) >= JournalSlot(plan))
  BY <1>4, SlotOrder, SlotsDiffer
<1>13. \A j \in Ops(plan) :
         RollbackSlot(plan, j) # run.machine.cursor
           => container'[run.tx][j] = container[run.tx][j]
  BY <1>1, <1>6
<1>14. CASE next = "none"
  <2>1. \A j \in Ops(plan) :
          RollbackSlot(plan, j) = run.machine.cursor => container'[run.tx][j] = "none"
    BY <1>1, <1>6, <1>12, <1>14
  <2>2. \A j \in Ops(plan) : StageSlot(j) # run.machine.cursor
    BY <1>1, <1>12
  <2>3. QED
    BY <1>1, <1>2, <1>6, <1>11, <1>12, <1>13, <1>14, <2>1, <2>2, CleanedAccounted
<1>15. CASE next # "none"
  BY <1>2, <1>6, <1>11, <1>13, <1>15, RemovalAccounted
<1>16. QED
  BY <1>14, <1>15

\* Removing a backup: it is there as a whole, or not at all.
LEMMA CleanBackupAccounted ==
  ASSUME IInv, Accounted, CleanBackup
  PROVE  Accounted'
<1>1. PICK i \in Ops(plan) :
        /\ run.machine.cursor = BackupSlot(i)
        /\ IF backup[run.tx][i] = "partial"
             THEN Fail /\ UNCHANGED backup
             ELSE /\ backup' = [backup EXCEPT ![run.tx][i] = "none"]
                  /\ Report(CleanupCompleted(BackupSlot(i)))
  BY DEF CleanBackup
<1>2. /\ Awaiting("CleanOne")
      /\ UNCHANGED <<plan, edited, stage, container, txdir, pending, waiting>>
  BY DEF CleanBackup
<1>3. Locked /\ run.tx \in Tx /\ WhileCleaning
  BY <1>2, AccountedCleaning
<1>4. WellFormed(plan)
  BY <1>3, AccountedRun
<1>5. backup \in [Tx -> [Ops(plan) -> {"none", "partial", "full"}]]
  BY DEF IInv, TypeOK
<1>6. /\ backup' = [backup EXCEPT ![run.tx][i] = "none"]
      /\ Report(CleanupCompleted(run.machine.cursor))
  BY <1>1, <1>3 DEF WhileCleaning
<1>7. \A j \in Ops(plan) : backup'[run.tx][j] \in {backup[run.tx][j], "none"}
  BY <1>3, <1>5, <1>6
<1>8. /\ \A j \in Ops(plan) :
           StageSlot(j) # run.machine.cursor /\ RollbackSlot(plan, j) # run.machine.cursor
      /\ ~ (run.machine.cursor >= JournalSlot(plan))
  <2>1. /\ \A j \in Ops(plan) : StageSlot(j) # BackupSlot(i)
        /\ \A j \in Ops(plan) : RollbackSlot(plan, j) # BackupSlot(i)
    BY <1>4, SlotsDiffer
  <2>2. ~ (BackupSlot(i) >= JournalSlot(plan))
    BY <1>4, SlotOrder
  <2>3. QED
    BY <1>1, <2>1, <2>2
<1>9. QED
  BY <1>2, <1>6, <1>7, <1>8, CleanedAccounted

\* Pruning the directory of the transaction.
LEMMA CleanDirectoryAccounted ==
  ASSUME IInv, Accounted, CleanDirectory
  PROVE  Accounted'
<1>1. /\ Awaiting("CleanOne") /\ run.machine.cursor = DirectorySlot(plan)
      /\ txdir' \subseteq txdir
      /\ Report(CleanupCompleted(run.machine.cursor))
      /\ UNCHANGED <<plan, edited, stage, container, backup, pending, waiting>>
  BY DEF CleanDirectory
<1>2. Locked
  BY <1>1 DEF Awaiting
<1>3. WellFormed(plan)
  BY <1>2, AccountedRun
<1>4. \A j \in Ops(plan) :
        StageSlot(j) # run.machine.cursor /\ RollbackSlot(plan, j) # run.machine.cursor
  BY <1>1, <1>3, SlotsDiffer
<1>5. ~ (run.machine.cursor >= JournalSlot(plan))
  BY <1>1, <1>3, OpsAreNatural DEF DirectorySlot, JournalSlot
<1>6. QED
  BY <1>1, <1>4, <1>5, CleanedAccounted

\* Removing journal.json, which ends the cleanup.
LEMMA CleanJournalAccounted ==
  ASSUME IInv, Accounted, CleanJournal
  PROVE  Accounted'
<1>1. /\ Awaiting("CleanOne") /\ run.machine.cursor = JournalSlot(plan)
      /\ UNCHANGED <<plan, edited, evidence, pending, waiting>>
  BY DEF CleanJournal
<1>2. UNCHANGED <<stage, container, backup, txdir>>
  BY <1>1 DEF evidence
<1>3. Locked /\ run.machine.state # "Discarding"
  BY <1>1, AccountedCleaning
<1>4. journal' = NoJournal /\ Report(CleanupCompleted(run.machine.cursor))
  BY <1>1, <1>3 DEF CleanJournal
<1>5. WellFormed(plan)
  BY <1>3, AccountedRun
<1>6. \A j \in Ops(plan) :
        StageSlot(j) # run.machine.cursor /\ RollbackSlot(plan, j) # run.machine.cursor
  BY <1>1, <1>5, SlotOrder
<1>7. QED
  BY <1>1, <1>2, <1>4, <1>6, CleanedAccounted

\* There is no stale write an apply could be asked to discard.
LEMMA NothingStale ==
  ASSUME IInv, Accounted
  PROVE  ~ DiscardPending
<1> SUFFICES ASSUME DiscardPending PROVE FALSE
  OBVIOUS
<1>1. Awaiting("DiscardPending") /\ Locked
  BY DEF DiscardPending, Awaiting
<1>2. run.cmd = "apply"
  BY <1>1, AccountedRun
<1>3. QED
  BY <1>1, <1>2, StatesOfEffects DEF IInv, RunInv

\* Giving up the lock ends the command.
LEMMA ReleaseLockAccounted ==
  ASSUME IInv, Accounted, ReleaseLock
  PROVE  Accounted'
<1>1. /\ Awaiting("ReleaseLock") /\ Locked
      /\ UNCHANGED <<plan, edited, evidence, journal, pending, waiting>>
  BY DEF ReleaseLock, Awaiting
<1>2. UNCHANGED <<stage, container, txdir>>
  BY <1>1 DEF evidence
<1>3. run.machine.state = "Releasing"
  BY <1>1, StatesOfEffects DEF IInv, RunInv
<1>4. ~ pending /\ journal = NoJournal /\ UntouchedYet
  BY <1>1, <1>3 DEF Accounted, Awaiting, Progress
<1>5. run' = NoRun
  BY ReleaseEndsRun
<1>6. QED
  BY <1>1, <1>2, <1>4, <1>5, CommandEnds

\* Where nothing happens, everything stays accounted for.
LEMMA StutterAccounted ==
  ASSUME Accounted, UNCHANGED vars
  PROVE  Accounted'
<1>1. UNCHANGED <<plan, target, edited, stage, container, backup, txdir, journal, pending,
                  waiting, run, nextTx, crashes, edits>>
  BY DEF vars, evidence
<1>2. Progress => Progress'
  BY <1>1 DEF Progress, UntouchedYet, WhilePreparing, WhileInstalling, OnceInstalled,
     WhileRollingBack, OnceRestored, WhileCleaning, WhileCleaningContainers, Staged, Mine,
     Restored, Ahead, NoStage, NoContainer, Ops
<1>3. Locked' = Locked /\ Awaiting("PersistJournal")' = Awaiting("PersistJournal")
  BY <1>1 DEF Locked, Awaiting
<1>4. QED
  BY <1>1, <1>2, <1>3 DEF Accounted, Ops

\* The steps of the command that holds the lock.
LEMMA ExecuteAccounted ==
  ASSUME IInv, Accounted, Execute
  PROVE  Accounted'
BY ObserveAgainAccounted, WritePendingAccounted, RenamePendingAccounted, PrepareStageAccounted,
   PrepareBackupAccounted, ApplyOneAccounted, ObservePostStateAccounted,
   AttemptRollbackOneAccounted, BuildContainerAccounted, CleanStageAccounted,
   CleanContainerAccounted, CleanBackupAccounted, CleanDirectoryAccounted,
   CleanJournalAccounted, NothingStale, ReleaseLockAccounted
DEF Execute

\* A crash, and a change somebody else makes, are counted.
LEMMA DisturbanceCounts ==
  ASSUME IInv, Disturb
  PROVE  ~ Calm'
<1>1. crashes \in Nat /\ edits \in Nat
  BY DEF IInv
<1>2. crashes' = crashes + 1 \/ edits' = edits + 1
  BY DEF Disturb, Crash, Edit, GitClean
<1>3. QED
  BY <1>1, <1>2 DEF Calm

\* Nothing else is.
LEMMA CommandsDisturbNothing ==
  ASSUME Observe \/ Lock \/ Execute
  PROVE  UNCHANGED <<crashes, edits>>
BY DEF Observe, Lock, Execute, ApplyObserve, RecoverObserve, TakeLock, RefuseLock,
   ObserveAgain, WritePending, RenamePending, PrepareStage, PrepareBackup, ApplyOne,
   ObservePostState, AttemptRollbackOne, BuildContainer, CleanStage, CleanContainer,
   CleanBackup, CleanDirectory, CleanJournal, DiscardPending, ReleaseLock

\* A transaction nobody interrupts leaves nothing behind: as long as nobody
\* crashes and nobody else changes anything, the evidence of the one run
\* stands where the run does, and when its command is over nothing is left.
THEOREM NothingIsLeftBehind ==
  ASSUME ~ Overlap
  PROVE  Spec => []UninterruptedLeavesNothing
<1>1. Init => QuietInv
  BY InitAccounted DEF QuietInv
<1>2. IInv /\ QuietInv /\ [Next]_vars => QuietInv'
  <2> SUFFICES ASSUME IInv, QuietInv, [Next]_vars, Calm' PROVE Accounted'
    BY DEF QuietInv
  <2>1. ~ Disturb
    BY DisturbanceCounts
  <2>2. CASE UNCHANGED vars
    <3>1. Calm
      BY <2>2 DEF vars, Calm
    <3>2. QED
      BY <2>2, <3>1, StutterAccounted DEF QuietInv
  <2>3. CASE Observe \/ Lock \/ Execute
    <3>1. Calm
      BY <2>3, CommandsDisturbNothing DEF Calm
    <3>2. Accounted
      BY <3>1 DEF QuietInv
    <3>3. CASE Observe
      BY <3>2, <3>3, ApplyObserveAccounted, NobodyRecovers DEF Observe
    <3>4. CASE Lock
      BY <3>2, <3>4, TakeLockAccounted, RefuseLockAccounted DEF Lock
    <3>5. CASE Execute
      BY <3>2, <3>5, ExecuteAccounted
    <3>6. QED
      BY <2>3, <3>3, <3>4, <3>5
  <2>4. QED
    BY <2>1, <2>2, <2>3 DEF Next
<1>3. IInv /\ QuietInv => UninterruptedLeavesNothing
  <2> SUFFICES ASSUME IInv, Accounted, ~ Locked
               PROVE  /\ journal = NoJournal /\ ~ pending /\ txdir = {}
                      /\ \A t \in Tx, i \in Ops(plan) :
                           stage[t][i] = "none" /\ container[t][i] = "none"
    BY DEF QuietInv, Calm, UninterruptedLeavesNothing
  <2>1. run = NoRun /\ journal = NoJournal /\ ~ pending
    BY DEF Accounted, Awaiting
  <2>2. txdir \subseteq Tx /\ \A t \in Tx : t # run.tx
    BY <2>1 DEF IInv, TypeOK, Tx, NoRun
  <2>3. QED
    BY <2>1, <2>2 DEF Accounted
<1>4. QED
  BY <1>1, <1>2, <1>3, Invariance, PTL DEF Spec
=============================================================================
