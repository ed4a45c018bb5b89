------------------------- MODULE TransactionMachine -------------------------
(***************************************************************************)
(* The transaction machine of transaction.py under every sequence of       *)
(* events: the properties below hold of the pure machine whatever its      *)
(* shell does, because the machine stops on an event it does not expect.   *)
(***************************************************************************)
EXTENDS TransactionStep

CONSTANTS
  Plans   \* the plans a transaction may be compiled from

ASSUME PlansAssumption == \A plan \in Plans : WellFormed(plan)

VARIABLES
  plan,     \* the compiled plan
  gate,     \* the expected validation the plan was compiled with
  machine,  \* the transaction machine
  history   \* what the accepted observations have established so far

vars == <<plan, gate, machine, history>>

-----------------------------------------------------------------------------
(* The machine under arbitrary events.                                      *)

NoHistory ==
  [phases |-> {}, prepared |-> {}, applied |-> {}, verified |-> FALSE,
   restored |-> {}, cleaned |-> {}]

\* What an accepted observation adds to the history.
Record(h, e) ==
  CASE e.type = "JournalPersisted" -> [h EXCEPT !.phases = @ \cup {e.phase}]
    [] e.type = "PreparationCompleted" -> [h EXCEPT !.prepared = @ \cup {e.index}]
    [] e.type = "OperationApplied" -> [h EXCEPT !.applied = @ \cup {e.index}]
    [] e.type = "PostStateObserved" -> [h EXCEPT !.verified = e.valid /\ e.matches]
    [] e.type = "RollbackStepCompleted" -> [h EXCEPT !.restored = @ \cup {e.index}]
    [] e.type = "CleanupCompleted" -> [h EXCEPT !.cleaned = @ \cup {e.index}]
    [] OTHER -> h

Deliver(e) ==
  /\ machine.state \notin Terminals
  /\ machine' = StepTransaction(plan, gate, machine, e)
  /\ history' = IF machine'.state \in {"Stopped", "Impossible"}
                  THEN history ELSE Record(history, e)
  /\ UNCHANGED <<plan, gate>>

DeliverLockEvent ==
  \E e \in {Start, LockAcquired, LockRefused, LockReleased} : Deliver(e)

DeliverObservation ==
  \E valid, matches \in BOOLEAN :
    \/ Deliver(Reobserved(matches))
    \/ Deliver(PostStateObserved(valid, matches))

DeliverPersisted == \E phase \in Phases : Deliver(JournalPersisted(phase))

DeliverProgress ==
  \E k \in 0 .. JournalSlot(plan) :
    \/ Deliver(PreparationCompleted(k))
    \/ Deliver(OperationApplied(k))
    \/ Deliver(RollbackStepCompleted(k))
    \/ Deliver(CleanupCompleted(k))

DeliverFailure == \E effect \in Effects : Deliver(EffectFailed(effect))

Init ==
  /\ plan \in Plans
  /\ gate \in {"pass", "refusal"}
  /\ machine = InitialMachine
  /\ history = NoHistory

Next ==
  \/ DeliverLockEvent
  \/ DeliverObservation
  \/ DeliverPersisted
  \/ DeliverProgress
  \/ DeliverFailure

Spec == Init /\ [][Next]_vars

(***************************************************************************)
(* run_transaction_machine feeds every observation back until the machine  *)
(* is terminal: each request is answered.                                  *)
(***************************************************************************)
FairSpec == Spec /\ WF_vars(Next)

-----------------------------------------------------------------------------
(* Properties.                                                              *)

\* The cursor a continuation state may carry.
CursorOK(p, m) ==
  CASE m.state = "Preparing"        -> m.cursor \in PreparationSlots(p)
    [] m.state = "Installing"       -> m.cursor \in Ops(p)
    [] m.state = "RollingBack"      -> m.cursor \in Ops(p)
    [] m.state = "CleaningForward"  -> m.cursor \in CleanupSlots(p, "sealed")
    [] m.state = "CleaningRollback" -> m.cursor \in CleanupSlots(p, "restored")
    [] OTHER                        -> m.cursor \in Nat

(***************************************************************************)
(* Type correctness: whatever the shell answers, the machine stays in its  *)
(* closed grammar of states and effects and its cursor inside the          *)
(* inventory the state is working through.                                 *)
(***************************************************************************)
TypeOK ==
  /\ plan \in Plans
  /\ gate \in {"pass", "refusal"}
  /\ machine \in [state : States \cup Terminals, cursor : Nat,
                  awaiting : Effects \cup {"none"}]
  /\ CursorOK(plan, machine)
  /\ history \in [phases : SUBSET Phases, prepared : SUBSET Nat,
                  applied : SUBSET Nat, verified : BOOLEAN,
                  restored : SUBSET Nat, cleaned : SUBSET Nat]

(***************************************************************************)
(* No target path is touched before the evidence to undo it exists: an     *)
(* operation is applied only once MUTATING is durable, and MUTATING is     *)
(* persisted only once every reserved stage and backup was prepared.       *)
(***************************************************************************)
MutationIsPrepared ==
  /\ history.applied # {} => "mutating" \in history.phases
  /\ "mutating" \in history.phases =>
        /\ "planned" \in history.phases
        /\ \A i \in Ops(plan) :
              /\ NeedsStage(plan.kinds[i]) => StageSlot(i) \in history.prepared
              /\ NeedsBackup(plan.kinds[i]) => BackupSlot(i) \in history.prepared

(***************************************************************************)
(* SEALED is earned: it is persisted only after every operation was        *)
(* applied, the complete post-state was observed and valid, and the        *)
(* compiled gate passes; a sealed transaction has rolled back nothing.     *)
(***************************************************************************)
SealIsEarned ==
  "sealed" \in history.phases =>
    /\ gate = "pass"
    /\ history.verified
    /\ history.applied = Ops(plan)
    /\ history.restored = {}

(***************************************************************************)
(* RESTORED is complete: it is persisted only after the rollback step of   *)
(* every operation of the plan has completed, and never after SEALED.      *)
(***************************************************************************)
RestoreIsComplete ==
  "restored" \in history.phases =>
    /\ history.restored = Ops(plan)
    /\ "sealed" \notin history.phases

(***************************************************************************)
(* The journal outlives the evidence: cleanup removes nothing before       *)
(* SEALED or RESTORED is durable, and journal.json only after every        *)
(* preparation, every rollback container and the transaction directory.    *)
(***************************************************************************)
JournalRemovedLast ==
  /\ history.cleaned # {} => history.phases \cap {"sealed", "restored"} # {}
  /\ JournalSlot(plan) \in history.cleaned =>
        /\ history.prepared \cup {DirectorySlot(plan)} \subseteq history.cleaned
        /\ "restored" \in history.phases => RollbackSlots(plan) \subseteq history.cleaned

(***************************************************************************)
(* A completed machine has settled: the journal went through exactly one   *)
(* of SEALED and RESTORED and was removed.                                 *)
(***************************************************************************)
CompletionIsSettled ==
  machine.state = "Completed" =>
    /\ JournalSlot(plan) \in history.cleaned
    /\ ("sealed" \in history.phases) # ("restored" \in history.phases)

\* The answers a correct shell may give to the pending request.
Answers(m) ==
  CASE m.awaiting = "AcquireLock"        -> {LockAcquired, LockRefused}
    [] m.awaiting = "ObserveAgain"       -> {Reobserved(b) : b \in BOOLEAN}
    [] m.awaiting = "PersistJournal"     ->
         {JournalPersisted(CASE m.state = "NeedPlannedJournal"  -> "planned"
                             [] m.state = "NeedMutatingJournal" -> "mutating"
                             [] m.state = "NeedSealedJournal"   -> "sealed"
                             [] OTHER                           -> "restored")}
    [] m.awaiting = "PrepareOne"         -> {PreparationCompleted(m.cursor)}
    [] m.awaiting = "ApplyOne"           -> {OperationApplied(m.cursor)}
    [] m.awaiting = "ObservePostState"   ->
         {PostStateObserved(v, b) : v, b \in BOOLEAN}
    [] m.awaiting = "AttemptRollbackOne" -> {RollbackStepCompleted(m.cursor)}
    [] m.awaiting = "CleanOne"           -> {CleanupCompleted(m.cursor)}
    [] m.awaiting = "ReleaseLock"        -> {LockReleased}
    [] OTHER                             -> {Start}

(***************************************************************************)
(* The machine and its shell agree: in every state the machine can reach,  *)
(* no answer the shell may give to the pending request, success or         *)
(* failure, is the IMPOSSIBLE_STATE internal failure.                      *)
(***************************************************************************)
ShellAnswersAccepted ==
  machine.state \in States =>
    \A e \in Answers(machine) \cup {EffectFailed(machine.awaiting)} :
      e.type # "EffectFailed" \/ machine.awaiting # "none" =>
        StepTransaction(plan, gate, machine, e).state # "Impossible"

(***************************************************************************)
(* The machine terminates: as long as the shell answers, whatever it       *)
(* answers, the machine reaches an outcome.                                *)
(***************************************************************************)
EventuallyTerminal == <>(machine.state \in Terminals)
=============================================================================
