------------------------ MODULE BootstrapTransaction ------------------------
(***************************************************************************)
(* The bootstrap shell: commands that apply a plan or recover from an      *)
(* interrupted one, on the disk they share.  A command observes the state  *)
(* root, takes the lock without blocking, and executes one effect after    *)
(* another, each in the steps a crash can separate.                        *)
(*                                                                         *)
(* The disk is the planned paths (target), the adjacent stages, the        *)
(* rollback containers and the administrative backups of each transaction, *)
(* journal.json and journal.pending.  A crash, or an I/O error of any      *)
(* effect, ends the command that holds the lock and leaves the disk as it  *)
(* is; the lock is a flock and goes with the process.                      *)
(***************************************************************************)
EXTENDS RecoveryStep

CONSTANTS
  Plans,       \* the plans a command may have compiled
  Procs,       \* the processes that run commands
  MaxTx,       \* bound on transactions begun
  MaxCrashes,  \* bound on crashes and I/O errors
  MaxEdits,    \* bound on changes made by others (an editor, git)
  Overlap      \* whether a recover may be started while another command runs

ASSUME PlansAssumption == \A p \in Plans : WellFormed(p)
ASSUME BoundsAssumption ==
  /\ MaxTx \in Nat /\ MaxCrashes \in Nat /\ MaxEdits \in Nat
  /\ Overlap \in BOOLEAN

VARIABLES
  plan,       \* the plan every apply compiles
  target,     \* the state of each planned path
  edited,     \* the paths somebody else has changed
  stage,      \* each transaction's adjacent stages
  container,  \* each transaction's rollback containers
  backup,     \* each transaction's administrative backups
  txdir,      \* the transactions whose administrative directory exists
  journal,    \* journal.json
  pending,    \* whether journal.pending exists
  waiting,    \* what each process has observed and decided before the lock
  run,        \* the command that holds the lock
  nextTx,     \* the next transaction id
  crashes,    \* crashes so far
  edits       \* changes by others so far

evidence == <<stage, container, backup, txdir>>
vars == <<plan, target, edited, evidence, journal, pending, waiting, run,
          nextTx, crashes, edits>>

Tx == 1 .. MaxTx

(***************************************************************************)
(* How much of a stage or container exists: a directory without marker     *)
(* (which is crash evidence of nobody, whatever it holds), a torn marker,  *)
(* a marked directory without payload, a partial payload, the payload.     *)
(***************************************************************************)
Levels == {"none", "bare", "torn", "marked", "partial", "full"}
More == [none |-> "bare", bare |-> "torn", torn |-> "marked",
         marked |-> "partial", partial |-> "full"]

NoJournal == [phase |-> "none", tx |-> 0, extra |-> FALSE]
Idle == [cmd |-> "none", tx |-> 0, decision |-> "none", extra |-> FALSE]
NoRun == [cmd |-> "none", tx |-> 0, machine |-> InitialMachine, busy |-> FALSE,
          alloc |-> FALSE, extra |-> FALSE, mine |-> {}]

Init ==
  /\ plan \in Plans
  /\ target = [i \in Ops(plan) |-> "old"]
  /\ edited = {}
  /\ stage = [t \in Tx |-> [i \in Ops(plan) |-> "none"]]
  /\ container = [t \in Tx |-> [i \in Ops(plan) |-> "none"]]
  /\ backup = [t \in Tx |-> [i \in Ops(plan) |-> "none"]]
  /\ txdir = {}
  /\ journal = NoJournal
  /\ pending = FALSE
  /\ waiting = [p \in Procs |-> Idle]
  /\ run = NoRun
  /\ nextTx = 1
  /\ crashes = 0
  /\ edits = 0

-----------------------------------------------------------------------------
(* Observing and taking the lock.                                           *)

Locked == run.cmd # "none"

\* classify_state_root.
Classification ==
  CASE journal # NoJournal -> "ValidatedJournal"
    [] journal = NoJournal /\ txdir # {} -> "OrphanTransactionState"
    [] journal = NoJournal /\ txdir = {} /\ pending -> "StaleJournalWrite"
    [] OTHER -> "NoJournal"

RecoveryDecision ==
  CASE Classification = "ValidatedJournal"  -> PhaseDecision[journal.phase]
    [] Classification = "StaleJournalWrite" -> "DiscardStalePending"
    [] OTHER                                -> "NoRecoveryNeeded"

\* Unless commands overlap, a recover runs alone from its observation on.
MayStart(cmd) ==
  Overlap \/ \A q \in Procs :
               IF cmd = "recover" THEN waiting[q] = Idle /\ ~ Locked
                                  ELSE waiting[q].cmd # "recover"

\* An apply observes a clean state root and a target at the plan's old state.
\* It allocates its transaction id before it takes the lock.
ApplyObserve(p) ==
  /\ waiting[p] = Idle
  /\ MayStart("apply")
  /\ nextTx \in Tx
  /\ Classification = "NoJournal"
  /\ MatchesPreconditions(plan, target)
  /\ waiting' = [waiting EXCEPT ![p] = [Idle EXCEPT !.cmd = "apply", !.tx = nextTx]]
  /\ nextTx' = nextTx + 1
  /\ UNCHANGED <<plan, target, edited, evidence, journal, pending, run, crashes, edits>>

\* A recover decides from the state root it observes; the decision, the
\* transaction id and the identities it acts on are those of that journal.
RecoverObserve(p) ==
  /\ waiting[p] = Idle
  /\ MayStart("recover")
  /\ RecoveryDecision # "NoRecoveryNeeded"
  /\ waiting' = [waiting EXCEPT ![p] =
       [cmd |-> "recover", tx |-> journal.tx, decision |-> RecoveryDecision,
        extra |-> journal.extra]]
  /\ UNCHANGED <<plan, target, edited, evidence, journal, pending, run, nextTx,
                 crashes, edits>>

\* The apply machine once the lock is acquired: it asks to observe again.
LockedMachine ==
  StepTransaction(plan, "pass",
    StepTransaction(plan, "pass", InitialMachine, Start), LockAcquired)

TakeLock(p) ==
  /\ waiting[p] # Idle
  /\ ~ Locked
  /\ run' = [NoRun EXCEPT
       !.cmd = waiting[p].cmd, !.tx = waiting[p].tx, !.extra = waiting[p].extra,
       !.machine = IF waiting[p].cmd = "apply" THEN LockedMachine
                   ELSE StartRecovery(plan, waiting[p].decision),
       !.alloc = waiting[p].decision = "RollBack" /\ RollbackSlots(plan) # {}]
  /\ waiting' = [waiting EXCEPT ![p] = Idle]
  /\ UNCHANGED <<plan, target, edited, evidence, journal, pending, nextTx, crashes, edits>>

\* LOCK_HELD: the command gives up.
RefuseLock(p) ==
  /\ waiting[p] # Idle
  /\ Locked
  /\ waiting' = [waiting EXCEPT ![p] = Idle]
  /\ UNCHANGED <<plan, target, edited, evidence, journal, pending, run, nextTx,
                 crashes, edits>>

-----------------------------------------------------------------------------
(* Executing effects.                                                       *)

Awaiting(effect) == Locked /\ run.machine.awaiting = effect

Successor(event) ==
  IF run.cmd = "apply" THEN StepTransaction(plan, "pass", run.machine, event)
                       ELSE StepRecovery(plan, run.machine, event)

\* Mutant: the end of the command does not give up the lock.
ReportKeepingLock(event) ==
  run' = [run EXCEPT !.machine = Successor(event), !.busy = FALSE]

\* The observation is fed back; a terminal machine ends the command, and the
\* lock with it.
Report(event) ==
  LET m == Successor(event)
  IN  run' = IF m.state \in Terminals THEN NoRun
             ELSE [run EXCEPT !.machine = m, !.busy = FALSE]

Fail == Report(EffectFailed(run.machine.awaiting))

KeepBusy == run' = [run EXCEPT !.busy = TRUE]

\* The fresh observation under the lock: an apply recompiles its plan and
\* requires the same one, a recovery verifies what its phase requires.  A
\* RESTORED journal that lists rollback containers is not a preparation list
\* CompiledTransaction accepts.
Observation ==
  CASE run.cmd = "apply" ->
         IF Classification = "NoJournal" /\ MatchesPreconditions(plan, target)
           THEN Reobserved(TRUE) ELSE EffectFailed("ObserveAgain")
    [] run.machine.state = "ConfirmingSealed" -> Reobserved(SealedVerified(plan, target))
    [] run.machine.state = "ConfirmingRestored" /\ run.extra -> EffectFailed("ObserveAgain")
    [] OTHER -> Reobserved(RestoredVerified(plan, target))

ObserveAgain ==
  /\ Awaiting("ObserveAgain")
  /\ Report(Observation)
  /\ UNCHANGED <<plan, target, edited, evidence, journal, pending, waiting, nextTx,
                 crashes, edits>>

PersistedPhase ==
  [NeedPlannedJournal |-> "planned", NeedMutatingJournal |-> "mutating",
   NeedSealedJournal |-> "sealed", NeedRestoredJournal |-> "restored"][run.machine.state]

\* persist_journal creates journal.pending exclusively: a leftover one blocks it.
WritePending ==
  /\ Awaiting("PersistJournal") /\ ~ run.busy
  /\ IF pending THEN Fail /\ UNCHANGED pending
                ELSE pending' = TRUE /\ KeepBusy
  /\ UNCHANGED <<plan, target, edited, evidence, journal, waiting, nextTx, crashes, edits>>

\* The rename over journal.json.  A RESTORED envelope also lists the rollback
\* containers of the run.
RenamePending ==
  /\ Awaiting("PersistJournal") /\ run.busy
  /\ pending' = FALSE
  /\ journal' = [phase |-> PersistedPhase, tx |-> run.tx,
                 extra |-> PersistedPhase = "restored" /\ run.alloc]
  /\ Report(JournalPersisted(PersistedPhase))
  /\ UNCHANGED <<plan, target, edited, evidence, waiting, nextTx, crashes, edits>>

\* Creating, marking and filling a stage.
PrepareStage ==
  /\ Awaiting("PrepareOne")
  /\ \E i \in Ops(plan) :
       /\ run.machine.cursor = StageSlot(i)
       /\ stage' = [stage EXCEPT ![run.tx][i] = More[@]]
       /\ IF stage'[run.tx][i] = "full" THEN Report(PreparationCompleted(StageSlot(i)))
                                        ELSE KeepBusy
  /\ UNCHANGED <<plan, target, edited, container, backup, txdir, journal, pending,
                 waiting, nextTx, crashes, edits>>

\* A backup is a copy of the verified old file.
PrepareBackup ==
  /\ Awaiting("PrepareOne")
  /\ \E i \in Ops(plan) :
       /\ run.machine.cursor = BackupSlot(i)
       /\ IF ~ run.busy
            THEN IF target[i] = "old"
                   THEN txdir' = txdir \cup {run.tx} /\ KeepBusy /\ UNCHANGED backup
                   ELSE Fail /\ UNCHANGED <<txdir, backup>>
            ELSE /\ backup' = [backup EXCEPT ![run.tx][i] =
                                 IF @ = "none" THEN "partial" ELSE "full"]
                 /\ IF backup'[run.tx][i] = "full"
                      THEN Report(PreparationCompleted(BackupSlot(i))) ELSE KeepBusy
                 /\ UNCHANGED txdir
  /\ UNCHANGED <<plan, target, edited, stage, container, journal, pending, waiting,
                 nextTx, crashes, edits>>

\* Whether a directory the plan removes holds nothing: no child, and no
\* rollback container adjacent to a child.
Childless(d) ==
  \A i \in Children(plan, d) :
    target[i] = "new" /\ \A t \in Tx : container[t][i] = "none"

\* Mutant: the path is replaced without checking its old state.
MayApplyUnverified(i) ==
  /\ plan.kinds[i] = "RemoveEmptyDirectory" => Childless(i)
  /\ NeedsStage(plan.kinds[i]) => stage[run.tx][i] = "full"

MayApply(i) ==
  /\ target[i] = "old"
  /\ plan.kinds[i] = "RemoveEmptyDirectory" => Childless(i)
  /\ NeedsStage(plan.kinds[i]) => stage[run.tx][i] = "full"

\* Verifying the old state and the one rename, unlink or rmdir that follows.
ApplyOne ==
  /\ Awaiting("ApplyOne")
  /\ \E i \in Ops(plan) :
       /\ run.machine.cursor = i
       /\ IF MayApply(i)
            THEN /\ target' = [target EXCEPT ![i] = "new"]
                 /\ stage' = [stage EXCEPT ![run.tx][i] =
                                IF NeedsStage(plan.kinds[i]) THEN "marked" ELSE @]
                 /\ Report(OperationApplied(i))
            ELSE Fail /\ UNCHANGED <<target, stage>>
  /\ UNCHANGED <<plan, edited, container, backup, txdir, journal, pending, waiting,
                 nextTx, crashes, edits>>

\* The final observation; readiness and the contract may fail on any target.
ObservePostState ==
  /\ Awaiting("ObservePostState")
  /\ \E valid \in BOOLEAN :
       Report(PostStateObserved(valid, MatchesCandidate(plan, target)))
  /\ UNCHANGED <<plan, target, edited, evidence, journal, pending, waiting, nextTx,
                 crashes, edits>>

-----------------------------------------------------------------------------
(* Rollback.                                                                *)

\* Mutant: whatever the path holds is restored over.
DecisionWithoutThirdState(i) ==
  IF target[i] = "old" THEN "AlreadyRestored" ELSE "Restore"

Decision(i) == RollbackDecision(plan.kinds[i], target[i], Childless(i))

\* Restoring operation i needs a container that does not exist yet, and a
\* replaced or deleted file also its backup.
MayBuild(i) ==
  /\ container[run.tx][i] = "none"
  /\ NeedsBackup(plan.kinds[i]) => backup[run.tx][i] = "full"

\* The rollback decision; a created file is unlinked at once, everything else
\* is restored through a container.
AttemptRollbackOne ==
  /\ Awaiting("AttemptRollbackOne") /\ ~ run.busy
  /\ \E i \in Ops(plan) :
       /\ run.machine.cursor = i
       /\ \/ /\ Decision(i) = "AlreadyRestored"
             /\ Report(RollbackStepCompleted(i))
             /\ UNCHANGED <<target, container>>
          \/ /\ Decision(i) = "Restore" /\ ~ NeedsContainer(plan.kinds[i])
             /\ target' = [target EXCEPT ![i] = "old"]
             /\ Report(RollbackStepCompleted(i))
             /\ UNCHANGED container
          \/ /\ Decision(i) = "Restore" /\ NeedsContainer(plan.kinds[i]) /\ MayBuild(i)
             /\ container' = [container EXCEPT ![run.tx][i] = "bare"]
             /\ run' = [run EXCEPT !.busy = TRUE, !.alloc = TRUE, !.mine = @ \cup {i}]
             /\ UNCHANGED target
          \/ /\ \/ Decision(i) = "ThirdState"
                \/ Decision(i) = "Restore" /\ NeedsContainer(plan.kinds[i]) /\ ~ MayBuild(i)
             /\ Fail
             /\ UNCHANGED <<target, container>>
  /\ UNCHANGED <<plan, edited, stage, backup, txdir, journal, pending, waiting, nextTx,
                 crashes, edits>>

\* The rename that restores operation i through its container, and what it
\* leaves there: the whole created tree, or nothing but the marker.
RestoreRename(i) ==
  /\ target' = [target EXCEPT ![i] = "old"]
  /\ container' = [container EXCEPT ![run.tx][i] =
                     IF plan.kinds[i] = "CreateTree" THEN "full" ELSE "marked"]
  /\ Report(RollbackStepCompleted(i))

\* The level a container has to reach before its rename.
RenameLevel(kind) == IF kind = "CreateTree" THEN "marked" ELSE "full"

BuildContainer ==
  /\ Awaiting("AttemptRollbackOne") /\ run.busy
  /\ \E i \in Ops(plan) :
       /\ run.machine.cursor = i
       /\ IF container[run.tx][i] = RenameLevel(plan.kinds[i])
            THEN RestoreRename(i)
            ELSE /\ container' = [container EXCEPT ![run.tx][i] = More[@]]
                 /\ KeepBusy
                 /\ UNCHANGED target
  /\ UNCHANGED <<plan, edited, stage, backup, txdir, journal, pending, waiting, nextTx,
                 crashes, edits>>

-----------------------------------------------------------------------------
(* Cleanup.                                                                 *)

\* Without a marker there is nothing the cleanup owns.  A torn marker, a
\* marker of another run, and a file payload that is not the recorded one
\* are evidence the cleanup preserves.
Unowned(level) == level \in {"none", "bare"}
Verified(level, i) ==
  \/ level \in {"marked", "full"}
  \/ level = "partial" /\ plan.kinds[i] = "CreateTree"

\* Removing a marked directory: its payload, its marker, the directory.  Only
\* the discard of a preparation removes them in the order rmtree finds them.
Less(level) ==
  CASE level \in {"full", "partial"} ->
         IF run.machine.state = "Discarding" THEN {"marked", "bare"} ELSE {"marked"}
    [] level = "marked" -> {"bare"}
    [] OTHER -> {"none"}

\* One step of the removal of a stage or container at this level.
Remove(level, next, i, slot) ==
  \/ /\ ~ run.busy /\ Unowned(level)
     /\ next = level
     /\ Report(CleanupCompleted(slot))
  \/ /\ ~ run.busy /\ ~ Unowned(level) /\ ~ Verified(level, i)
     /\ next = level
     /\ Fail
  \/ /\ run.busy \/ Verified(level, i)
     /\ next \in Less(level)
     /\ IF next = "none" THEN Report(CleanupCompleted(slot)) ELSE KeepBusy

CleanStage ==
  /\ Awaiting("CleanOne")
  /\ \E i \in Ops(plan), next \in Levels :
       /\ run.machine.cursor = StageSlot(i)
       /\ Remove(stage[run.tx][i], next, i, StageSlot(i))
       /\ stage' = [stage EXCEPT ![run.tx][i] = next]
  /\ UNCHANGED <<plan, target, edited, container, backup, txdir, journal, pending,
                 waiting, nextTx, crashes, edits>>

CleanContainer ==
  /\ Awaiting("CleanOne")
  /\ \E i \in Ops(plan), next \in Levels :
       LET level == container[run.tx][i]
           slot == RollbackSlot(plan, i)
       IN  /\ run.machine.cursor = slot
           /\ IF run.alloc /\ (Unowned(level) \/ i \in run.mine)
                THEN Remove(level, next, i, slot)
                ELSE next = level /\ Fail
           /\ container' = [container EXCEPT ![run.tx][i] = next]
  /\ UNCHANGED <<plan, target, edited, stage, backup, txdir, journal, pending, waiting,
                 nextTx, crashes, edits>>

CleanBackup ==
  /\ Awaiting("CleanOne")
  /\ \E i \in Ops(plan) :
       /\ run.machine.cursor = BackupSlot(i)
       /\ IF backup[run.tx][i] = "partial"
            THEN Fail /\ UNCHANGED backup
            ELSE /\ backup' = [backup EXCEPT ![run.tx][i] = "none"]
                 /\ Report(CleanupCompleted(BackupSlot(i)))
  /\ UNCHANGED <<plan, target, edited, stage, container, txdir, journal, pending,
                 waiting, nextTx, crashes, edits>>

\* Only empty directories are pruned.
CleanDirectory ==
  /\ Awaiting("CleanOne")
  /\ run.machine.cursor = DirectorySlot(plan)
  /\ txdir' = IF \A i \in Ops(plan) : backup[run.tx][i] = "none"
                THEN txdir \ {run.tx} ELSE txdir
  /\ Report(CleanupCompleted(DirectorySlot(plan)))
  /\ UNCHANGED <<plan, target, edited, stage, container, backup, journal, pending,
                 waiting, nextTx, crashes, edits>>

\* journal.json goes last.  Only the discard of a preparation insists on it.
CleanJournal ==
  /\ Awaiting("CleanOne")
  /\ run.machine.cursor = JournalSlot(plan)
  /\ IF journal = NoJournal /\ run.machine.state = "Discarding"
       THEN Fail /\ UNCHANGED journal
       ELSE journal' = NoJournal /\ Report(CleanupCompleted(JournalSlot(plan)))
  /\ UNCHANGED <<plan, target, edited, evidence, pending, waiting, nextTx, crashes, edits>>

DiscardPending ==
  /\ Awaiting("DiscardPending")
  /\ pending' = FALSE
  /\ IF pending THEN Report(CleanupCompleted(0)) ELSE Fail
  /\ UNCHANGED <<plan, target, edited, evidence, journal, waiting, nextTx, crashes, edits>>

ReleaseLock ==
  /\ Awaiting("ReleaseLock")
  /\ Report(LockReleased)
  /\ UNCHANGED <<plan, target, edited, evidence, journal, pending, waiting, nextTx,
                 crashes, edits>>

-----------------------------------------------------------------------------
(* What else happens.                                                       *)

\* The process that holds the lock dies, or an effect of it fails.
Crash ==
  /\ Locked /\ crashes < MaxCrashes
  /\ run' = NoRun
  /\ crashes' = crashes + 1
  /\ UNCHANGED <<plan, target, edited, evidence, journal, pending, waiting, nextTx, edits>>

\* Others change the target between effects, never between the check and the
\* mutation of one effect: the design does not defend against that.
MayEdit == edits < MaxEdits /\ ~ run.busy

\* Whether the directory that holds path i, if the plan removes it, is there.
ParentExists(i) ==
  \A d \in Ops(plan) : i \in Children(plan, d) => target[d] # "new"

Edit ==
  /\ MayEdit
  /\ \E i \in Ops(plan), s \in PathStates :
       /\ s # target[i] /\ ParentExists(i)
       /\ (plan.kinds[i] = "RemoveEmptyDirectory" /\ s = "new") => Childless(i)
       /\ target' = [target EXCEPT ![i] = s]
       /\ edited' = edited \cup {i}
  /\ edits' = edits + 1
  /\ UNCHANGED <<plan, evidence, journal, pending, waiting, run, nextTx, crashes>>

\* git clean removes the disposable adjacent evidence, not the state root.
GitClean ==
  /\ MayEdit
  /\ stage' = [t \in Tx |-> [i \in Ops(plan) |-> "none"]]
  /\ container' = [t \in Tx |-> [i \in Ops(plan) |-> "none"]]
  /\ edits' = edits + 1
  /\ UNCHANGED <<plan, target, edited, backup, txdir, journal, pending, waiting, run,
                 nextTx, crashes>>

Observe == \E p \in Procs : ApplyObserve(p) \/ RecoverObserve(p)
Lock == \E p \in Procs : TakeLock(p) \/ RefuseLock(p)

Execute ==
  \/ ObserveAgain
  \/ WritePending
  \/ RenamePending
  \/ PrepareStage
  \/ PrepareBackup
  \/ ApplyOne
  \/ ObservePostState
  \/ AttemptRollbackOne
  \/ BuildContainer
  \/ CleanStage
  \/ CleanContainer
  \/ CleanBackup
  \/ CleanDirectory
  \/ CleanJournal
  \/ DiscardPending
  \/ ReleaseLock

Disturb == Crash \/ Edit \/ GitClean

Next == Observe \/ Lock \/ Execute \/ Disturb

Spec == Init /\ [][Next]_vars

(***************************************************************************)
(* The command that holds the lock keeps running, a command that waits     *)
(* tries the lock, and as long as there is something to recover somebody   *)
(* runs recover.                                                           *)
(***************************************************************************)
FairSpec ==
  /\ Spec
  /\ WF_vars(Execute)
  /\ WF_vars(Lock)
  /\ WF_vars(\E p \in Procs : RecoverObserve(p))

-----------------------------------------------------------------------------
(* Properties.                                                              *)

\* Type correctness: the disk, the waiting commands and the run stay in the
\* vocabulary of the engine, and the run in the grammar of its command.
TypeOK ==
  /\ plan \in Plans
  /\ target \in [Ops(plan) -> PathStates]
  /\ edited \subseteq Ops(plan)
  /\ stage \in [Tx -> [Ops(plan) -> Levels]]
  /\ container \in [Tx -> [Ops(plan) -> Levels]]
  /\ backup \in [Tx -> [Ops(plan) -> {"none", "partial", "full"}]]
  /\ txdir \subseteq Tx
  /\ journal \in [phase : Phases \cup {"none"}, tx : 0 .. MaxTx, extra : BOOLEAN]
  /\ pending \in BOOLEAN
  /\ waiting \in [Procs -> [cmd : {"none", "apply", "recover"}, tx : 0 .. MaxTx,
                           decision : RecoveryDecisions \cup {"none"}, extra : BOOLEAN]]
  /\ run.machine.state \in States \cup RecoveryStates
  /\ run.tx \in 0 .. MaxTx
  /\ run.mine \subseteq Ops(plan)

Untouched(i) == i \notin edited

\* PLANNED has touched nothing: while the journal says PLANNED, every path
\* nobody else changed is at its old state.
PlannedMeansUntouched ==
  journal.phase = "planned" => \A i \in Ops(plan) : Untouched(i) => target[i] = "old"

\* SEALED is the commit point: while the journal says SEALED, every path
\* nobody else changed is at its planned new state.
SealedMeansCandidate ==
  journal.phase = "sealed" => \A i \in Ops(plan) : Untouched(i) => target[i] = "new"

\* RESTORED is the abort point: while the journal says RESTORED, every path
\* nobody else changed is back at its old state.
RestoredMeansPreState ==
  journal.phase = "restored" => \A i \in Ops(plan) : Untouched(i) => target[i] = "old"

\* Atomicity: without a journal, the paths nobody else changed are all at
\* their old state or all at their new one, through any crash and recovery.
NoJournalMeansSettled ==
  journal = NoJournal =>
    \/ \A i \in Ops(plan) : Untouched(i) => target[i] = "old"
    \/ \A i \in Ops(plan) : Untouched(i) => target[i] = "new"

\* The way back is kept open: while MUTATING is authoritative, a complete
\* backup of every replaced or deleted file exists.
BackupUntilSettled ==
  journal.phase = "mutating" =>
    \A i \in Ops(plan) : NeedsBackup(plan.kinds[i]) => backup[journal.tx][i] = "full"

\* Nothing is orphaned: evidence that carries a marker, every backup and every
\* transaction directory belong to the transaction the journal names.
EvidenceIsJournaled ==
  \A t \in Tx : t # journal.tx =>
    /\ t \notin txdir
    /\ \A i \in Ops(plan) :
         Unowned(stage[t][i]) /\ Unowned(container[t][i]) /\ backup[t][i] = "none"

(***************************************************************************)
(* A transaction that nobody interrupts leaves nothing behind, installed   *)
(* or rolled back: when its command is over there is no journal, no        *)
(* transaction directory, no stage and no container.                       *)
(***************************************************************************)
UninterruptedLeavesNothing ==
  crashes = 0 /\ edits = 0 /\ ~ Locked =>
    /\ journal = NoJournal /\ ~ pending /\ txdir = {}
    /\ \A t \in Tx, i \in Ops(plan) : stage[t][i] = "none" /\ container[t][i] = "none"

\* A third state is preserved: no step of the engine changes a path that is
\* neither at its old nor at its planned new state.
ThirdStatePreserved ==
  [][\A i \in Ops(plan) :
       target[i] = "other" /\ edits' = edits => target'[i] = "other"]_vars

\* The journal only goes forward: no journal, PLANNED, MUTATING, then one of
\* RESTORED and SEALED, then none; PLANNED may also be discarded.
JournalPhaseOrder ==
  [][journal'.phase # journal.phase =>
       <<journal.phase, journal'.phase>> \in
         {<<"none", "planned">>, <<"planned", "mutating">>, <<"planned", "none">>,
          <<"mutating", "restored">>, <<"mutating", "sealed">>,
          <<"restored", "none">>, <<"sealed", "none">>}]_vars

(***************************************************************************)
(* Recovery writes to the target only to roll back: a recover changes a    *)
(* planned path only while MUTATING is authoritative, so that no sealed    *)
(* installation is taken back.                                             *)
(***************************************************************************)
RecoverRollsBackMutatingOnly ==
  [][run.cmd = "recover" /\ target' # target /\ edits' = edits
       => journal.phase = "mutating"]_vars

(***************************************************************************)
(* The contract of an installation: through every crash and recovery, the  *)
(* disk is a behaviour of InstallContract as long as nobody else changes   *)
(* the planned paths.                                                      *)
(***************************************************************************)
Contract == INSTANCE InstallContract WITH phase <- journal.phase
ContractSpec == Contract!Spec

\* A sealed transaction is finished: if nobody changes its paths, recover
\* removes its evidence and its journal however often it is interrupted.
SealedIsFinished == journal.phase = "sealed" ~> journal = NoJournal

\* Every command returns and gives up the lock.
CommandsReturn == Locked ~> ~ Locked

-----------------------------------------------------------------------------
(* What the bootstrap design says of the shell, and the shell does not do.  *)

\* The run is over, and neither a crash nor success ended it.
Failed == Locked /\ run' = NoRun /\ crashes' = crashes
            /\ run.machine.state # "Releasing"

\* A RESTORED transaction is finished by recover ("Reverify pre-state and
\* finish rollback cleanup").
RestoredIsFinished == journal.phase = "restored" ~> journal = NoJournal

\* A path at its old state is already restored: its rollback never fails.
OldIsAlreadyRestored ==
  [][\A i \in Ops(plan) :
       Awaiting("AttemptRollbackOne") /\ run.machine.cursor = i /\ target[i] = "old"
       => ~ Failed]_vars

(***************************************************************************)
(* The adopter hook runs only after an installation: an apply that         *)
(* completes goes on to run the hook and to report its plan as installed,  *)
(* so every planned path is at its new state then.                         *)
(***************************************************************************)
HookFollowsInstallation ==
  [][run.cmd = "apply" /\ run.machine.state = "Releasing"
       /\ run' = NoRun /\ crashes' = crashes
       => MatchesCandidate(plan, target)]_vars
=============================================================================
