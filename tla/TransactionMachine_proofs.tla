---------------------- MODULE TransactionMachine_proofs ----------------------
(***************************************************************************)
(* What the transaction machine guarantees for every plan and whatever the *)
(* shell answers.  The safety properties of TransactionMachine speak of    *)
(* the history; the inductive invariant ties the history to the            *)
(* continuation state and its cursor.                                      *)
(***************************************************************************)
EXTENDS TransactionMachine, OperationPlan_proofs

HistoryIs(h, phases, prepared, applied, restored, cleaned) ==
  /\ h.phases = phases
  /\ h.prepared = prepared
  /\ h.applied = applied
  /\ h.restored = restored
  /\ h.cleaned = cleaned

Before(slots, k) == {j \in slots : j < k}

Early == {"NeedLock", "NeedRevalidation", "NeedPlannedJournal"}

SealedSoFar(p, g, h, cleaned) ==
  /\ HistoryIs(h, {"planned", "mutating", "sealed"}, PreparationSlots(p), Ops(p), {}, cleaned)
  /\ g = "pass" /\ h.verified

RestoredSoFar(p, h, cleaned) ==
  HistoryIs(h, {"planned", "mutating", "restored"}, PreparationSlots(p), Ops(p), Ops(p), cleaned)

\* The request that may be pending in each continuation state.
Requests(state) ==
  CASE state = "NeedLock"         -> {"none"}
    [] state = "NeedRevalidation" -> {"AcquireLock", "ObserveAgain"}
    [] state = "Preparing"        -> {"PrepareOne"}
    [] state = "Installing"       -> {"ApplyOne"}
    [] state = "Verifying"        -> {"ObservePostState"}
    [] state = "RollingBack"      -> {"AttemptRollbackOne"}
    [] state \in {"CleaningForward", "CleaningRollback"} -> {"CleanOne"}
    [] state = "Releasing"        -> {"ReleaseLock"}
    [] OTHER                      -> {"PersistJournal"}

\* The history h of a machine m in each continuation state.
HistoryFits(p, g, m, h) ==
  /\ m.state \in Early => HistoryIs(h, {}, {}, {}, {}, {})
  /\ m.state = "Preparing" =>
       HistoryIs(h, {"planned"}, Before(PreparationSlots(p), m.cursor), {}, {}, {})
  /\ m.state = "NeedMutatingJournal" =>
       HistoryIs(h, {"planned"}, PreparationSlots(p), {}, {}, {})
  /\ m.state = "Installing" =>
       HistoryIs(h, {"planned", "mutating"}, PreparationSlots(p), 1 .. m.cursor - 1, {}, {})
  /\ m.state = "Verifying" =>
       HistoryIs(h, {"planned", "mutating"}, PreparationSlots(p), Ops(p), {}, {})
  /\ m.state = "RollingBack" =>
       HistoryIs(h, {"planned", "mutating"}, PreparationSlots(p), Ops(p),
                 {i \in Ops(p) : i > m.cursor}, {})
  /\ m.state = "NeedRestoredJournal" =>
       HistoryIs(h, {"planned", "mutating"}, PreparationSlots(p), Ops(p), Ops(p), {})
  /\ m.state = "NeedSealedJournal" =>
       /\ HistoryIs(h, {"planned", "mutating"}, PreparationSlots(p), Ops(p), {}, {})
       /\ g = "pass" /\ h.verified
  /\ m.state = "CleaningForward" =>
       SealedSoFar(p, g, h, Before(CleanupSlots(p, "sealed"), m.cursor))
  /\ m.state = "CleaningRollback" =>
       RestoredSoFar(p, h, Before(CleanupSlots(p, "restored"), m.cursor))
  /\ m.state \in {"Releasing", "Completed"} =>
       \/ SealedSoFar(p, g, h, CleanupSlots(p, "sealed"))
       \/ RestoredSoFar(p, h, CleanupSlots(p, "restored"))

StateInv ==
  /\ machine.state \in States => machine.awaiting \in Requests(machine.state)
  /\ HistoryFits(plan, gate, machine, history)

Evidence ==
  /\ MutationIsPrepared
  /\ SealIsEarned
  /\ RestoreIsComplete
  /\ JournalRemovedLast

Failed == machine.state \in {"Stopped", "Impossible"}

\* A stopped machine keeps the history it stopped with, whatever state it
\* stopped in: there the properties themselves are the invariant.
IInv == TypeOK /\ StateInv /\ (Failed => Evidence)

-----------------------------------------------------------------------------

\* In a state that has not stopped, the history StateInv names is evidence
\* enough for every safety property.
LEMMA HistoryIsEvidence == TypeOK /\ StateInv /\ ~ Failed => Evidence
<1> SUFFICES ASSUME TypeOK, StateInv, ~ Failed PROVE Evidence
  OBVIOUS
<1>1. WellFormed(plan)
  BY PlansAssumption DEF TypeOK
<1>2. /\ PreparationSlots(plan) \in SUBSET (Nat \ {0})
      /\ \A phase \in Phases : CleanupSlots(plan, phase) \in SUBSET (Nat \ {0})
      /\ \A phase \in Phases : \A k \in CleanupSlots(plan, phase) : k <= JournalSlot(plan)
      /\ \A phase \in Phases : JournalSlot(plan) \in CleanupSlots(plan, phase)
  BY <1>1, SlotsAreNatural
<1>3. /\ \A i \in Ops(plan) : NeedsStage(plan.kinds[i]) => StageSlot(i) \in PreparationSlots(plan)
      /\ \A i \in Ops(plan) : NeedsBackup(plan.kinds[i]) => BackupSlot(i) \in PreparationSlots(plan)
  BY DEF PreparationSlots
<1>4. \A phase \in {"sealed", "restored"} :
        /\ PreparationSlots(plan) \cup {DirectorySlot(plan)} \subseteq CleanupSlots(plan, phase)
        /\ phase = "restored" => RollbackSlots(plan) \subseteq CleanupSlots(plan, phase)
  BY DEF CleanupSlots
<1>5. ASSUME NEW phase \in {"sealed", "restored"}, NEW k \in CleanupSlots(plan, phase)
      PROVE  JournalSlot(plan) \notin Before(CleanupSlots(plan, phase), k)
  <2>1. k \in Nat /\ JournalSlot(plan) \in Nat /\ k <= JournalSlot(plan)
    BY <1>2, <1>5 DEF Phases
  <2>2. ~ (JournalSlot(plan) < k)
    BY <2>1
  <2>3. QED
    BY <2>2 DEF Before
<1>6. /\ machine.state = "CleaningForward" =>
           JournalSlot(plan) \notin Before(CleanupSlots(plan, "sealed"), machine.cursor)
      /\ machine.state = "CleaningRollback" =>
           JournalSlot(plan) \notin Before(CleanupSlots(plan, "restored"), machine.cursor)
  BY <1>5 DEF TypeOK, CursorOK
<1>7. machine.state \in States \cup {"Completed"}
  BY DEF TypeOK, Terminals, Failed
<1>8. MutationIsPrepared
  BY <1>3, <1>7 DEF MutationIsPrepared, StateInv, HistoryFits, HistoryIs, SealedSoFar,
     RestoredSoFar, States, Early
<1>9. SealIsEarned
  BY <1>7 DEF SealIsEarned, StateInv, HistoryFits, HistoryIs, SealedSoFar, RestoredSoFar, States, Early
<1>10. RestoreIsComplete
  BY <1>7 DEF RestoreIsComplete, StateInv, HistoryFits, HistoryIs, SealedSoFar, RestoredSoFar, States, Early
<1>11. JournalRemovedLast
  BY <1>4, <1>6, <1>7 DEF JournalRemovedLast, StateInv, HistoryFits, HistoryIs,
     SealedSoFar, RestoredSoFar, States, Early
<1>12. QED
  BY <1>8, <1>9, <1>10, <1>11 DEF Evidence

\* Moving the cursor from k to the next slot adds exactly slot k, if it is
\* one, to the slots already behind the cursor.
LEMMA CursorAdvances ==
  ASSUME NEW slots \in SUBSET (Nat \ {0}), NEW k \in Nat
  PROVE  \/ /\ NextSlot(slots, k) = 0
            /\ Before(slots, k) \cup ({k} \cap slots) = slots
         \/ /\ NextSlot(slots, k) # 0
            /\ NextSlot(slots, k) \in slots
            /\ Before(slots, NextSlot(slots, k)) = Before(slots, k) \cup ({k} \cap slots)
<1>1. \A j \in slots : j \in Nat /\ j # 0
  OBVIOUS
<1>2. CASE NextSlot(slots, k) = 0 /\ \A j \in slots : j <= k
  <2>1. \A j \in slots : j < k \/ j = k
    BY <1>1, <1>2
  <2>2. Before(slots, k) \cup ({k} \cap slots) = slots
    BY <2>1 DEF Before
  <2>3. QED
    BY <1>2, <2>2
<1>3. CASE /\ NextSlot(slots, k) \in slots
           /\ NextSlot(slots, k) > k
           /\ \A l \in slots : l > k => NextSlot(slots, k) <= l
  <2>1. PICK n \in slots : n = NextSlot(slots, k)
    BY <1>3
  <2>2. n \in Nat /\ n # 0 /\ n > k /\ \A l \in slots : l > k => n <= l
    BY <1>1, <1>3, <2>1
  <2>3. \A j \in slots : j < n <=> j < k \/ j = k
    BY <1>1, <2>2
  <2>4. Before(slots, n) = Before(slots, k) \cup ({k} \cap slots)
    BY <2>3 DEF Before
  <2>5. QED
    BY <2>1, <2>2, <2>4
<1>4. QED
  BY <1>2, <1>3, NextSlotIsLeast

\* No slot lies before the first.
LEMMA NothingBeforeTheFirst ==
  ASSUME NEW slots \in SUBSET (Nat \ {0})
  PROVE  Before(slots, 0) = {} /\ {0} \cap slots = {}
<1>1. \A j \in slots : j \in Nat /\ j # 0
  OBVIOUS
<1>2. \A j \in slots : ~ (j < 0)
  BY <1>1
<1>3. QED
  BY <1>1, <1>2 DEF Before

\* PrepareAfter either asks for the next preparation, everything up to k being
\* behind the cursor, or for the MUTATING journal, nothing being left.
LEMMA PrepareAfterResult ==
  ASSUME NEW p, WellFormed(p), NEW k \in Nat
  PROVE  LET slots == PreparationSlots(p)
             behind == Before(slots, k) \cup ({k} \cap slots)
         IN  \/ /\ PrepareAfter(p, k) = Continue("NeedMutatingJournal", 0, "PersistJournal")
                /\ behind = slots
             \/ \E n \in slots :
                  /\ PrepareAfter(p, k) = Continue("Preparing", n, "PrepareOne")
                  /\ Before(slots, n) = behind
<1>1. PreparationSlots(p) \in SUBSET (Nat \ {0})
  BY SlotsAreNatural
<1>2. QED
  BY <1>1, CursorAdvances DEF PrepareAfter, PersistThen

\* CleanAfter either asks for the next item, everything up to k being behind
\* the cursor, or for the release of the lock, nothing being left.
LEMMA CleanAfterResult ==
  ASSUME NEW p, WellFormed(p), NEW k \in Nat, NEW state, NEW phase \in Phases
  PROVE  LET slots == CleanupSlots(p, phase)
             behind == Before(slots, k) \cup ({k} \cap slots)
         IN  \/ /\ CleanAfter(p, state, phase, k) = Continue("Releasing", 0, "ReleaseLock")
                /\ behind = slots
             \/ \E n \in slots :
                  /\ CleanAfter(p, state, phase, k) = Continue(state, n, "CleanOne")
                  /\ Before(slots, n) = behind
<1>1. CleanupSlots(p, phase) \in SUBSET (Nat \ {0})
  BY SlotsAreNatural
<1>2. QED
  BY <1>1, CursorAdvances DEF CleanAfter

-----------------------------------------------------------------------------

\* The machine starts with an empty history.
LEMMA InitEstablishesInv == Init => IInv
<1> SUFFICES ASSUME Init PROVE IInv
  OBVIOUS
<1>1. /\ machine = [state |-> "NeedLock", cursor |-> 0, awaiting |-> "none"]
      /\ history = NoHistory
      /\ plan \in Plans /\ gate \in {"pass", "refusal"}
  BY DEF Init, InitialMachine, Continue
<1>2. TypeOK
  BY <1>1 DEF TypeOK, CursorOK, NoHistory, States, Effects
<1>3. StateInv
  BY <1>1 DEF StateInv, HistoryFits, NoHistory, HistoryIs, Requests, Early, States
<1>4. QED
  BY <1>1, <1>2, <1>3 DEF IInv, Failed

\* A machine that stops keeps its history, and the evidence in it.
LEMMA StoppingKeepsInv ==
  ASSUME IInv, machine.state \in States, NEW outcome \in {"Stopped", "Impossible"},
         machine' = Stop(machine, outcome), UNCHANGED <<plan, gate, history>>
  PROVE  IInv'
<1>1. Evidence
  BY HistoryIsEvidence DEF IInv, Failed
<1>2. Evidence'
  BY <1>1 DEF Evidence, MutationIsPrepared, SealIsEarned, RestoreIsComplete, JournalRemovedLast
<1>3. /\ machine' \in [state : States \cup Terminals, cursor : Nat,
                       awaiting : Effects \cup {"none"}]
      /\ machine'.state = outcome
  BY DEF IInv, TypeOK, Stop, Terminals
<1>4. TypeOK'
  BY <1>3 DEF IInv, TypeOK, CursorOK
<1>5. StateInv'
  BY <1>3 DEF StateInv, HistoryFits, Early, States
<1>6. QED
  BY <1>2, <1>4, <1>5 DEF IInv

\* Every event DeliverXxx can deliver carries fields of the right type.
WellTyped(e) ==
  /\ e.type = "PostStateObserved" => e.valid \in BOOLEAN /\ e.matches \in BOOLEAN
  /\ e.type = "Reobserved" => e.matches \in BOOLEAN

\* The invariant of a machine that did not fail, in terms of its parts.
Running == TypeOK /\ StateInv /\ ~ Failed

\* The events step_transaction accepts in a state: the guards of its branches.
Accepted(e) ==
  \/ machine.state = "NeedLock" /\ e.type = "Start"
  \/ /\ machine.state = "NeedRevalidation"
     /\ \/ machine.awaiting = "AcquireLock" /\ e.type = "LockAcquired"
        \/ machine.awaiting = "ObserveAgain" /\ e.type = "Reobserved" /\ e.matches
  \/ machine.state = "NeedPlannedJournal" /\ e.type = "JournalPersisted" /\ e.phase = "planned"
  \/ /\ machine.state = "Preparing" /\ e.type = "PreparationCompleted"
     /\ e.index = machine.cursor
  \/ machine.state = "NeedMutatingJournal" /\ e.type = "JournalPersisted" /\ e.phase = "mutating"
  \/ /\ machine.state = "Installing" /\ e.type = "OperationApplied"
     /\ e.index = machine.cursor
  \/ machine.state = "Verifying" /\ e.type = "PostStateObserved"
  \/ /\ machine.state = "RollingBack" /\ e.type = "RollbackStepCompleted"
     /\ e.index = machine.cursor
  \/ machine.state = "NeedRestoredJournal" /\ e.type = "JournalPersisted" /\ e.phase = "restored"
  \/ machine.state = "NeedSealedJournal" /\ e.type = "JournalPersisted" /\ e.phase = "sealed"
  \/ /\ machine.state \in {"CleaningForward", "CleaningRollback"}
     /\ e.type = "CleanupCompleted" /\ e.index = machine.cursor
  \/ machine.state = "Releasing" /\ e.type = "LockReleased"

Unchanging == UNCHANGED <<plan, gate>>

\* Every other event is a failure, a refusal or an impossible state, and the
\* machine stops.
LEMMA OthersStop ==
  ASSUME TypeOK, NEW e, WellTyped(e), Deliver(e), ~ Accepted(e)
  PROVE  \/ machine' = Stop(machine, "Stopped")
         \/ machine' = Stop(machine, "Impossible")
<1>1. machine' = StepTransaction(plan, gate, machine, e)
  BY DEF Deliver
<1>2. QED
  BY <1>1 DEF StepTransaction, AfterRevalidation, Accepted, WellTyped

MachineType ==
  [state : States \cup Terminals, cursor : Nat, awaiting : Effects \cup {"none"}]

HistoryType ==
  [phases : SUBSET Phases, prepared : SUBSET Nat, applied : SUBSET Nat,
   verified : BOOLEAN, restored : SUBSET Nat, cleaned : SUBSET Nat]

\* A step that persists, prepares, applies, rolls back or cleans does not stop.
LEMMA SuccessorsGoOn ==
  ASSUME NEW p, NEW g, NEW valid, NEW matches, NEW state, NEW cursor, NEW effect,
         state \notin {"Stopped", "Impossible"}, NEW phase, NEW k
  PROVE  /\ Continue(state, cursor, effect).state \notin {"Stopped", "Impossible"}
         /\ PersistThen(state).state \notin {"Stopped", "Impossible"}
         /\ PrepareAfter(p, k).state \notin {"Stopped", "Impossible"}
         /\ InstallAfter(p, k).state \notin {"Stopped", "Impossible"}
         /\ RollbackBefore(p, k).state \notin {"Stopped", "Impossible"}
         /\ AfterVerification(p, g, valid, matches).state \notin {"Stopped", "Impossible"}
         /\ CleanAfter(p, state, phase, k).state \notin {"Stopped", "Impossible"}
<1>1. \A s, c, f : Continue(s, c, f).state = s
  BY DEF Continue
<1>2. QED
  BY <1>1 DEF PersistThen, PrepareAfter, InstallAfter, RollbackBefore, EnterRollback,
     AfterVerification, CleanAfter

\* An accepted event does not stop the machine.
LEMMA AcceptedGoesOn ==
  ASSUME TypeOK, NEW e, Accepted(e)
  PROVE  StepTransaction(plan, gate, machine, e).state \notin {"Stopped", "Impossible"}
<1> DEFINE next == StepTransaction(plan, gate, machine, e)
<1>1. Len(plan.kinds) \in Nat /\ Ops(plan) = 1 .. Len(plan.kinds)
  BY PlansAssumption, OpsAreNatural DEF TypeOK
<1>2. machine.state = "RollingBack" => machine.cursor >= 1
  BY <1>1 DEF TypeOK, CursorOK
<1>3. CASE machine.state \in {"NeedLock", "NeedRevalidation", "Releasing"}
  BY <1>3 DEF StepTransaction, Accepted, AfterRevalidation, PersistThen, Continue, Stop, TypeOK
<1>4. CASE machine.state \notin {"NeedLock", "NeedRevalidation", "Releasing"}
  <2>1. \E p, g, valid, matches, phase, k : \E state \in States :
           \/ next = PrepareAfter(p, k) \/ next = InstallAfter(p, k)
           \/ next = AfterVerification(p, g, valid, matches)
           \/ next = RollbackBefore(p, k)
           \/ next = CleanAfter(p, state, phase, k)
    BY <1>2, <1>4 DEF StepTransaction, Accepted, TypeOK, CursorOK, States
  <2>2. \A state \in States : state \notin {"Stopped", "Impossible"}
    BY DEF States
  <2>3. QED
    BY <2>1, <2>2, SuccessorsGoOn
<1>5. QED
  BY <1>3, <1>4

\* An accepted event is recorded in the history, in the one field it is about.
LEMMA AcceptedIsRecorded ==
  ASSUME TypeOK, NEW e, WellTyped(e), Accepted(e), Deliver(e), ~ Failed'
  PROVE  /\ machine' = StepTransaction(plan, gate, machine, e)
         /\ UNCHANGED <<plan, gate>>
         /\ history' \in HistoryType
         /\ e.type \in {"Start", "LockAcquired", "Reobserved", "LockReleased"} =>
              history' = history
         /\ e.type = "JournalPersisted" =>
              history' = [history EXCEPT !.phases = @ \cup {e.phase}]
         /\ e.type = "PreparationCompleted" =>
              history' = [history EXCEPT !.prepared = @ \cup {e.index}]
         /\ e.type = "OperationApplied" =>
              history' = [history EXCEPT !.applied = @ \cup {e.index}]
         /\ e.type = "PostStateObserved" =>
              history' = [history EXCEPT !.verified = e.valid /\ e.matches]
         /\ e.type = "RollbackStepCompleted" =>
              history' = [history EXCEPT !.restored = @ \cup {e.index}]
         /\ e.type = "CleanupCompleted" =>
              history' = [history EXCEPT !.cleaned = @ \cup {e.index}]
<1>1. /\ machine' = StepTransaction(plan, gate, machine, e)
      /\ UNCHANGED <<plan, gate>>
      /\ history' = Record(history, e)
  BY DEF Deliver, Failed
<1>2. history \in HistoryType /\ machine.cursor \in Nat
  BY DEF TypeOK, HistoryType
<1>3. history' \in HistoryType
  BY <1>1, <1>2 DEF Accepted, WellTyped, Record, HistoryType, Phases
<1>4. QED
  BY <1>1, <1>3 DEF Record

\* What has to hold of a machine m and the new history for the next state to
\* satisfy the invariant.
LEMMA Entering ==
  ASSUME TypeOK, NEW m \in MachineType, machine' = m, UNCHANGED <<plan, gate>>,
         m.state \in States \cup {"Completed"},
         m.state \in States => m.awaiting \in Requests(m.state),
         CursorOK(plan, m), history' \in HistoryType,
         HistoryFits(plan, gate, m, history')
  PROVE  Running'
<1>1. TypeOK'
  BY DEF TypeOK, MachineType, HistoryType
<1>2. StateInv' /\ ~ Failed'
  BY DEF StateInv, States, Failed
<1>3. QED
  BY <1>1, <1>2 DEF Running

\* The lock and revalidation events leave the history empty.
LEMMA EarlySteps ==
  ASSUME Running, NEW e, WellTyped(e), Accepted(e), Deliver(e), ~ Failed',
         machine.state \in {"NeedLock", "NeedRevalidation"}
  PROVE  Running'
<1>1. /\ machine' = StepTransaction(plan, gate, machine, e)
      /\ UNCHANGED <<plan, gate>>
      /\ history' = history /\ history' \in HistoryType
  BY AcceptedIsRecorded DEF Running, Accepted
<1>2. HistoryIs(history, {}, {}, {}, {}, {})
  BY DEF Running, StateInv, HistoryFits, Early
<1>3. \/ machine' = Continue("NeedRevalidation", 0, "AcquireLock")
      \/ machine' = Continue("NeedRevalidation", 0, "ObserveAgain")
      \/ machine' = Continue("NeedPlannedJournal", 0, "PersistJournal")
  BY <1>1 DEF StepTransaction, AfterRevalidation, PersistThen, Accepted
<1>4. /\ machine' \in MachineType
      /\ machine'.state \in {"NeedRevalidation", "NeedPlannedJournal"}
      /\ machine'.awaiting \in Requests(machine'.state)
      /\ CursorOK(plan, machine')
  BY <1>3 DEF Continue, MachineType, States, Effects, Requests, CursorOK
<1>5. HistoryFits(plan, gate, machine', history')
  BY <1>1, <1>2, <1>4 DEF HistoryFits, Early
<1>6. QED
  BY <1>1, <1>4, <1>5, Entering DEF Running, States

\* Persisting PLANNED and every preparation: the prepared slots are those
\* behind the cursor.
LEMMA PreparingSteps ==
  ASSUME Running, NEW e, WellTyped(e), Accepted(e), Deliver(e), ~ Failed',
         machine.state \in {"NeedPlannedJournal", "Preparing"}
  PROVE  Running'
<1> DEFINE slots == PreparationSlots(plan)
           k == IF machine.state = "Preparing" THEN machine.cursor ELSE 0
           behind == Before(slots, k) \cup ({k} \cap slots)
<1>1. /\ machine' = StepTransaction(plan, gate, machine, e)
      /\ UNCHANGED <<plan, gate>>
      /\ history' \in HistoryType
      /\ e.type = "JournalPersisted" => history' = [history EXCEPT !.phases = @ \cup {e.phase}]
      /\ e.type = "PreparationCompleted" =>
           history' = [history EXCEPT !.prepared = @ \cup {e.index}]
  BY AcceptedIsRecorded DEF Running
<1>2. WellFormed(plan) /\ slots \in SUBSET (Nat \ {0})
  BY PlansAssumption, SlotsAreNatural DEF Running, TypeOK
<1>3. history \in HistoryType
  BY DEF Running, TypeOK, HistoryType
<1>4. /\ k \in Nat
      /\ machine' = PrepareAfter(plan, k)
      /\ HistoryIs(history', {"planned"}, behind, {}, {}, {})
  <2>1. CASE machine.state = "NeedPlannedJournal"
    <3>1. machine' = PrepareAfter(plan, 0) /\ e.phase = "planned" /\ e.type = "JournalPersisted"
      BY <1>1, <2>1 DEF StepTransaction, Accepted
    <3>2. HistoryIs(history, {}, {}, {}, {}, {})
      BY <2>1 DEF Running, StateInv, HistoryFits, Early
    <3>3. behind = {}
      BY <1>2, <2>1, NothingBeforeTheFirst
    <3>4. QED
      BY <1>1, <1>3, <2>1, <3>1, <3>2, <3>3 DEF HistoryIs, HistoryType
  <2>2. CASE machine.state = "Preparing"
    <3>1. machine.cursor \in slots
      BY <2>2 DEF Running, TypeOK, CursorOK
    <3>2. /\ machine' = PrepareAfter(plan, machine.cursor)
          /\ e.type = "PreparationCompleted" /\ e.index = machine.cursor
      BY <1>1, <2>2, <3>1 DEF StepTransaction, Accepted
    <3>3. HistoryIs(history, {"planned"}, Before(slots, machine.cursor), {}, {}, {})
      BY <2>2 DEF Running, StateInv, HistoryFits
    <3>4. k \in Nat /\ behind = Before(slots, machine.cursor) \cup {machine.cursor}
      BY <1>2, <2>2, <3>1
    <3>5. QED
      BY <1>1, <1>3, <2>2, <3>2, <3>3, <3>4 DEF HistoryIs, HistoryType
  <2>3. QED
    BY <2>1, <2>2
<1>5. CASE /\ machine' = Continue("NeedMutatingJournal", 0, "PersistJournal")
           /\ behind = slots
  <2>1. /\ machine' \in MachineType
        /\ machine'.state = "NeedMutatingJournal"
        /\ machine'.awaiting \in Requests(machine'.state)
        /\ CursorOK(plan, machine')
    BY <1>5 DEF Continue, MachineType, States, Effects, Requests, CursorOK
  <2>2. HistoryFits(plan, gate, machine', history')
    BY <1>4, <1>5, <2>1 DEF HistoryFits, Early
  <2>3. QED
    BY <1>1, <2>1, <2>2, Entering DEF Running, States
<1>6. ASSUME NEW n \in slots,
             machine' = Continue("Preparing", n, "PrepareOne"),
             Before(slots, n) = behind
      PROVE  Running'
  <2>1. /\ machine' \in MachineType
        /\ machine'.state = "Preparing" /\ machine'.cursor = n
        /\ machine'.awaiting \in Requests(machine'.state)
        /\ CursorOK(plan, machine')
    BY <1>2, <1>6 DEF Continue, MachineType, States, Effects, Requests, CursorOK
  <2>2. HistoryFits(plan, gate, machine', history')
    BY <1>4, <1>6, <2>1 DEF HistoryFits, Early
  <2>3. QED
    BY <1>1, <2>1, <2>2, Entering DEF Running, States
<1>7. QED
  <2> HIDE DEF k
  <2>1. QED
    BY <1>2, <1>4, <1>5, <1>6, PrepareAfterResult

\* Persisting MUTATING and every application: the applied operations are
\* those before the cursor.
LEMMA InstallingSteps ==
  ASSUME Running, NEW e, WellTyped(e), Accepted(e), Deliver(e), ~ Failed',
         machine.state \in {"NeedMutatingJournal", "Installing"}
  PROVE  Running'
<1> DEFINE i == IF machine.state = "Installing" THEN machine.cursor ELSE 0
<1>1. /\ machine' = StepTransaction(plan, gate, machine, e)
      /\ UNCHANGED <<plan, gate>>
      /\ history' \in HistoryType
      /\ e.type = "JournalPersisted" => history' = [history EXCEPT !.phases = @ \cup {e.phase}]
      /\ e.type = "OperationApplied" => history' = [history EXCEPT !.applied = @ \cup {e.index}]
  BY AcceptedIsRecorded DEF Running
<1>2. Len(plan.kinds) \in Nat /\ Ops(plan) = 1 .. Len(plan.kinds)
  BY PlansAssumption, OpsAreNatural DEF Running, TypeOK
<1>3. history \in HistoryType
  BY DEF Running, TypeOK, HistoryType
<1>4. /\ i \in 0 .. Len(plan.kinds)
      /\ machine' = InstallAfter(plan, i)
      /\ HistoryIs(history', {"planned", "mutating"}, PreparationSlots(plan), 1 .. i, {}, {})
  <2>1. CASE machine.state = "NeedMutatingJournal"
    <3>1. machine' = InstallAfter(plan, 0) /\ e.phase = "mutating" /\ e.type = "JournalPersisted"
      BY <1>1, <2>1 DEF StepTransaction, Accepted
    <3>2. HistoryIs(history, {"planned"}, PreparationSlots(plan), {}, {}, {})
      BY <2>1 DEF Running, StateInv, HistoryFits
    <3>3. i = 0 /\ 1 .. i = {} /\ i \in 0 .. Len(plan.kinds)
      BY <1>2, <2>1
    <3>4. QED
      BY <1>1, <1>3, <3>1, <3>2, <3>3 DEF HistoryIs, HistoryType
  <2>2. CASE machine.state = "Installing"
    <3>1. machine.cursor \in Ops(plan)
      BY <2>2 DEF Running, TypeOK, CursorOK
    <3>2. /\ machine' = InstallAfter(plan, machine.cursor)
          /\ e.type = "OperationApplied" /\ e.index = machine.cursor
      BY <1>1, <2>2, <3>1 DEF StepTransaction, Accepted
    <3>3. HistoryIs(history, {"planned", "mutating"}, PreparationSlots(plan),
                    1 .. machine.cursor - 1, {}, {})
      BY <2>2 DEF Running, StateInv, HistoryFits
    <3>4. /\ i = machine.cursor /\ i \in 0 .. Len(plan.kinds)
          /\ 1 .. i = (1 .. machine.cursor - 1) \cup {machine.cursor}
      BY <1>2, <2>2, <3>1
    <3>5. QED
      BY <1>1, <1>3, <3>2, <3>3, <3>4 DEF HistoryIs, HistoryType
  <2>3. QED
    BY <2>1, <2>2
<1>5. CASE i < Len(plan.kinds)
  <2>1. machine' = Continue("Installing", i + 1, "ApplyOne") /\ i + 1 \in Ops(plan)
    BY <1>2, <1>4, <1>5 DEF InstallAfter
  <2>2. /\ machine' \in MachineType
        /\ machine'.state = "Installing" /\ machine'.cursor = i + 1
        /\ machine'.awaiting \in Requests(machine'.state)
        /\ CursorOK(plan, machine')
    BY <1>2, <1>4, <2>1 DEF Continue, MachineType, States, Effects, Requests, CursorOK
  <2>3. 1 .. machine'.cursor - 1 = 1 .. i
    BY <1>4, <2>2
  <2>4. HistoryFits(plan, gate, machine', history')
    BY <1>4, <2>2, <2>3 DEF HistoryFits, Early
  <2>5. QED
    BY <1>1, <2>2, <2>4, Entering DEF Running, States
<1>6. CASE ~ (i < Len(plan.kinds))
  <2>1. machine' = Continue("Verifying", 0, "ObservePostState") /\ 1 .. i = Ops(plan)
    BY <1>2, <1>4, <1>6 DEF InstallAfter
  <2>2. /\ machine' \in MachineType
        /\ machine'.state = "Verifying"
        /\ machine'.awaiting \in Requests(machine'.state)
        /\ CursorOK(plan, machine')
    BY <2>1 DEF Continue, MachineType, States, Effects, Requests, CursorOK
  <2>3. HistoryFits(plan, gate, machine', history')
    BY <1>4, <2>1, <2>2 DEF HistoryFits, Early
  <2>4. QED
    BY <1>1, <2>2, <2>3, Entering DEF Running, States
<1>7. QED
  BY <1>5, <1>6

\* The final observation, every rollback step and what follows the last one:
\* the operations after the cursor are restored.
LEMMA RollbackSteps ==
  ASSUME Running, NEW e, WellTyped(e), Accepted(e), Deliver(e), ~ Failed',
         machine.state \in {"Verifying", "RollingBack"}
  PROVE  Running'
<1> DEFINE i == IF machine.state = "RollingBack" THEN machine.cursor ELSE Len(plan.kinds) + 1
<1>1. /\ machine' = StepTransaction(plan, gate, machine, e)
      /\ UNCHANGED <<plan, gate>>
      /\ history' \in HistoryType
      /\ e.type = "PostStateObserved" =>
           history' = [history EXCEPT !.verified = e.valid /\ e.matches]
      /\ e.type = "RollbackStepCompleted" =>
           history' = [history EXCEPT !.restored = @ \cup {e.index}]
  BY AcceptedIsRecorded DEF Running
<1>2. Len(plan.kinds) \in Nat /\ Ops(plan) = 1 .. Len(plan.kinds)
  BY PlansAssumption, OpsAreNatural DEF Running, TypeOK
<1>3. history \in HistoryType
  BY DEF Running, TypeOK, HistoryType
<1>4. CASE machine' = PersistThen("NeedSealedJournal") /\ machine.state = "Verifying"
  <2>1. e.type = "PostStateObserved" /\ gate = "pass" /\ e.valid /\ e.matches
    BY <1>1, <1>4 DEF StepTransaction, AfterVerification, EnterRollback, RollbackBefore,
       PersistThen, Continue, Accepted
  <2>2. HistoryIs(history, {"planned", "mutating"}, PreparationSlots(plan), Ops(plan), {}, {})
    BY <1>4 DEF Running, StateInv, HistoryFits
  <2>3. /\ HistoryIs(history', {"planned", "mutating"}, PreparationSlots(plan), Ops(plan), {}, {})
        /\ history'.verified
    BY <1>1, <1>3, <2>1, <2>2 DEF HistoryIs, HistoryType
  <2>4. /\ machine' \in MachineType
        /\ machine'.state = "NeedSealedJournal"
        /\ machine'.awaiting \in Requests(machine'.state)
        /\ CursorOK(plan, machine')
    BY <1>4 DEF PersistThen, Continue, MachineType, States, Effects, Requests, CursorOK
  <2>5. HistoryFits(plan, gate, machine', history')
    BY <2>1, <2>3, <2>4 DEF HistoryFits, Early
  <2>6. QED
    BY <1>1, <2>4, <2>5, Entering DEF Running, States
<1>5. CASE ~ (machine' = PersistThen("NeedSealedJournal") /\ machine.state = "Verifying")
  <2>1. /\ i \in 1 .. Len(plan.kinds) + 1
        /\ machine' = RollbackBefore(plan, i)
        /\ HistoryIs(history', {"planned", "mutating"}, PreparationSlots(plan), Ops(plan),
                     {j \in Ops(plan) : j >= i}, {})
    <3>1. CASE machine.state = "Verifying"
      <4>1. e.type = "PostStateObserved" /\ machine' = RollbackBefore(plan, Len(plan.kinds) + 1)
        BY <1>1, <1>5, <3>1 DEF StepTransaction, AfterVerification, EnterRollback, Accepted
      <4>2. HistoryIs(history, {"planned", "mutating"}, PreparationSlots(plan), Ops(plan), {}, {})
        BY <3>1 DEF Running, StateInv, HistoryFits
      <4>3. /\ i = Len(plan.kinds) + 1 /\ i \in 1 .. Len(plan.kinds) + 1
            /\ {j \in Ops(plan) : j >= i} = {}
        BY <1>2, <3>1
      <4>4. QED
        BY <1>1, <1>3, <4>1, <4>2, <4>3 DEF HistoryIs, HistoryType
    <3>2. CASE machine.state = "RollingBack"
      <4>1. machine.cursor \in Ops(plan)
        BY <3>2 DEF Running, TypeOK, CursorOK
      <4>2. /\ e.type = "RollbackStepCompleted" /\ e.index = machine.cursor
            /\ machine' = RollbackBefore(plan, machine.cursor)
        BY <1>1, <1>2, <3>2, <4>1 DEF StepTransaction, Accepted
      <4>3. HistoryIs(history, {"planned", "mutating"}, PreparationSlots(plan), Ops(plan),
                      {j \in Ops(plan) : j > machine.cursor}, {})
        BY <3>2 DEF Running, StateInv, HistoryFits
      <4>4. /\ i = machine.cursor /\ i \in 1 .. Len(plan.kinds) + 1
            /\ {j \in Ops(plan) : j >= i}
                 = {j \in Ops(plan) : j > machine.cursor} \cup {machine.cursor}
        BY <1>2, <3>2, <4>1
      <4>5. QED
        BY <1>1, <1>3, <4>2, <4>3, <4>4 DEF HistoryIs, HistoryType
    <3>3. QED
      BY <3>1, <3>2
  <2>2. CASE i > 1
    <3>1. /\ machine' = Continue("RollingBack", i - 1, "AttemptRollbackOne")
          /\ i - 1 \in Ops(plan)
          /\ {j \in Ops(plan) : j >= i} = {j \in Ops(plan) : j > i - 1}
      BY <1>2, <2>1, <2>2 DEF RollbackBefore
    <3>2. /\ machine' \in MachineType
          /\ machine'.state = "RollingBack" /\ machine'.cursor = i - 1
          /\ machine'.awaiting \in Requests(machine'.state)
          /\ CursorOK(plan, machine')
      BY <1>2, <3>1 DEF Continue, MachineType, States, Effects, Requests, CursorOK
    <3>3. HistoryFits(plan, gate, machine', history')
      BY <2>1, <3>1, <3>2 DEF HistoryFits, Early
    <3>4. QED
      BY <1>1, <3>2, <3>3, Entering DEF Running, States
  <2>3. CASE ~ (i > 1)
    <3>1. /\ machine' = Continue("NeedRestoredJournal", 0, "PersistJournal")
          /\ {j \in Ops(plan) : j >= i} = Ops(plan)
      BY <1>2, <2>1, <2>3 DEF RollbackBefore, PersistThen
    <3>2. /\ machine' \in MachineType
          /\ machine'.state = "NeedRestoredJournal"
          /\ machine'.awaiting \in Requests(machine'.state)
          /\ CursorOK(plan, machine')
      BY <3>1 DEF Continue, MachineType, States, Effects, Requests, CursorOK
    <3>3. HistoryFits(plan, gate, machine', history')
      BY <2>1, <3>1, <3>2 DEF HistoryFits, Early
    <3>4. QED
      BY <1>1, <3>2, <3>3, Entering DEF Running, States
  <2>4. QED
    BY <2>2, <2>3
<1>6. QED
  BY <1>4, <1>5

\* What SEALED or RESTORED made durable, with the items cleaned so far.
SettledSoFar(phase, p, g, h, cleaned) ==
  \/ phase = "sealed" /\ SealedSoFar(p, g, h, cleaned)
  \/ phase = "restored" /\ RestoredSoFar(p, h, cleaned)

\* Entering the next cleanup item, or the release of the lock.
LEMMA CleaningContinues ==
  ASSUME Running, UNCHANGED <<plan, gate>>, history' \in HistoryType, NEW k \in Nat,
         NEW state, NEW phase,
         \/ state = "CleaningForward" /\ phase = "sealed"
         \/ state = "CleaningRollback" /\ phase = "restored",
         machine' = CleanAfter(plan, state, phase, k),
         SettledSoFar(phase, plan, gate, history',
                      Before(CleanupSlots(plan, phase), k) \cup ({k} \cap CleanupSlots(plan, phase)))
  PROVE  Running'
<1> DEFINE slots == CleanupSlots(plan, phase)
           behind == Before(slots, k) \cup ({k} \cap slots)
<1>1. WellFormed(plan) /\ phase \in Phases
  BY PlansAssumption DEF Running, TypeOK, Phases
<1>2. slots \in SUBSET (Nat \ {0})
  BY <1>1, SlotsAreNatural
<1>3. CASE /\ machine' = Continue("Releasing", 0, "ReleaseLock")
           /\ behind = slots
  <2>1. /\ machine' \in MachineType
        /\ machine'.state = "Releasing"
        /\ machine'.awaiting \in Requests(machine'.state)
        /\ CursorOK(plan, machine')
    BY <1>3 DEF Continue, MachineType, States, Effects, Requests, CursorOK
  <2>2. HistoryFits(plan, gate, machine', history')
    BY <1>3, <2>1 DEF HistoryFits, SettledSoFar, Early
  <2>3. QED
    BY <2>1, <2>2, Entering DEF Running, States
<1>4. ASSUME NEW n \in slots,
             machine' = Continue(state, n, "CleanOne"),
             Before(slots, n) = behind
      PROVE  Running'
  <2>1. /\ machine' \in MachineType
        /\ machine'.state = state /\ machine'.cursor = n
        /\ machine'.awaiting \in Requests(machine'.state)
        /\ CursorOK(plan, machine')
    BY <1>2, <1>4 DEF Continue, MachineType, States, Effects, Requests, CursorOK
  <2>2. HistoryFits(plan, gate, machine', history')
    BY <1>4, <2>1 DEF HistoryFits, SettledSoFar, Early
  <2>3. QED
    BY <2>1, <2>2, Entering DEF Running, States
<1>5. QED
  BY <1>1, <1>3, <1>4, CleanAfterResult

\* Persisting SEALED or RESTORED and every cleanup item: the cleaned items
\* are those behind the cursor.
LEMMA CleaningSteps ==
  ASSUME Running, NEW e, WellTyped(e), Accepted(e), Deliver(e), ~ Failed',
         machine.state \in {"NeedSealedJournal", "NeedRestoredJournal",
                            "CleaningForward", "CleaningRollback"}
  PROVE  Running'
<1>1. /\ machine' = StepTransaction(plan, gate, machine, e)
      /\ UNCHANGED <<plan, gate>>
      /\ history' \in HistoryType
      /\ e.type = "JournalPersisted" => history' = [history EXCEPT !.phases = @ \cup {e.phase}]
      /\ e.type = "CleanupCompleted" => history' = [history EXCEPT !.cleaned = @ \cup {e.index}]
  BY AcceptedIsRecorded DEF Running
<1>2. \A phase \in {"sealed", "restored"} : CleanupSlots(plan, phase) \in SUBSET (Nat \ {0})
  BY PlansAssumption, SlotsAreNatural DEF Running, TypeOK, Phases
<1>3. history \in HistoryType
  BY DEF Running, TypeOK, HistoryType
<1>4. CASE machine.state \in {"NeedSealedJournal", "NeedRestoredJournal"}
  <2> DEFINE phase == IF machine.state = "NeedSealedJournal" THEN "sealed" ELSE "restored"
             state == IF phase = "sealed" THEN "CleaningForward" ELSE "CleaningRollback"
  <2>1. machine' = CleanAfter(plan, state, phase, 0) /\ e.phase = phase /\ e.type = "JournalPersisted"
    BY <1>1, <1>4 DEF StepTransaction, Accepted
  <2>2. SettledSoFar(phase, plan, gate, history', {})
    BY <1>1, <1>3, <1>4, <2>1 DEF Running, StateInv, HistoryFits, HistoryIs, HistoryType,
       SettledSoFar, SealedSoFar, RestoredSoFar
  <2>3. Before(CleanupSlots(plan, phase), 0) \cup ({0} \cap CleanupSlots(plan, phase)) = {}
    BY <1>2, NothingBeforeTheFirst
  <2>4. \/ state = "CleaningForward" /\ phase = "sealed"
        \/ state = "CleaningRollback" /\ phase = "restored"
    OBVIOUS
  <2> HIDE DEF state, phase
  <2>5. QED
    BY <1>1, <2>1, <2>2, <2>3, <2>4, CleaningContinues
<1>5. CASE machine.state \in {"CleaningForward", "CleaningRollback"}
  <2> DEFINE phase == IF machine.state = "CleaningForward" THEN "sealed" ELSE "restored"
             slots == CleanupSlots(plan, phase)
  <2>1. machine.cursor \in slots /\ machine.cursor \in Nat /\ slots \in SUBSET (Nat \ {0})
    BY <1>2, <1>5 DEF Running, TypeOK, CursorOK
  <2>2. /\ machine' = CleanAfter(plan, machine.state, phase, machine.cursor)
        /\ e.type = "CleanupCompleted" /\ e.index = machine.cursor
    BY <1>1, <1>5, <2>1 DEF StepTransaction, Accepted
  <2>3. SettledSoFar(phase, plan, gate, history, Before(slots, machine.cursor))
    BY <1>5 DEF Running, StateInv, HistoryFits, SettledSoFar
  <2>4. Before(slots, machine.cursor) \cup {machine.cursor}
          = Before(slots, machine.cursor) \cup ({machine.cursor} \cap slots)
    BY <2>1
  <2>5. SettledSoFar(phase, plan, gate, history',
                     Before(slots, machine.cursor) \cup {machine.cursor})
    <3> HIDE DEF phase, slots
    <3>1. QED
      BY <1>1, <1>3, <2>2, <2>3 DEF HistoryIs, HistoryType, SettledSoFar, SealedSoFar,
         RestoredSoFar
  <2>6. \/ machine.state = "CleaningForward" /\ phase = "sealed"
        \/ machine.state = "CleaningRollback" /\ phase = "restored"
    BY <1>5
  <2> HIDE DEF phase
  <2>7. QED
    BY <1>1, <2>1, <2>2, <2>4, <2>5, <2>6, CleaningContinues
<1>6. QED
  BY <1>4, <1>5

\* The release of the lock completes the machine.
LEMMA ReleasingStep ==
  ASSUME Running, NEW e, WellTyped(e), Accepted(e), Deliver(e), ~ Failed',
         machine.state = "Releasing"
  PROVE  Running'
<1>1. /\ machine' = StepTransaction(plan, gate, machine, e)
      /\ UNCHANGED <<plan, gate>>
      /\ history' = history /\ history' \in HistoryType
  BY AcceptedIsRecorded DEF Running, Accepted
<1>2. machine' = [machine EXCEPT !.state = "Completed"] /\ machine \in MachineType
  BY <1>1 DEF StepTransaction, Stop, Accepted, Running, TypeOK, MachineType
<1>3. /\ machine' \in MachineType
      /\ machine'.state = "Completed"
      /\ CursorOK(plan, machine')
  BY <1>2 DEF MachineType, Terminals, CursorOK
<1>4. HistoryFits(plan, gate, machine', history')
  BY <1>1, <1>3 DEF Running, StateInv, HistoryFits, Early
<1>5. QED
  BY <1>1, <1>3, <1>4, Entering DEF Running, States

-----------------------------------------------------------------------------

\* One delivered event keeps the invariant.
LEMMA DeliverKeepsInv ==
  ASSUME IInv, NEW e, WellTyped(e), Deliver(e)
  PROVE  IInv'
<1>1. TypeOK /\ StateInv /\ machine.state \in States
  BY DEF IInv, TypeOK, Deliver
<1>2. Running
  BY <1>1 DEF Running, Failed, States
<1>3. CASE ~ Failed'
  <2>1. Accepted(e)
    <3>1. SUFFICES ASSUME ~ Accepted(e) PROVE Failed'
      BY <1>3
    <3>2. QED
      BY <1>1, <3>1, OthersStop DEF Failed, Stop, TypeOK
  <2>2. Running'
    BY <1>1, <1>2, <1>3, <2>1, EarlySteps, PreparingSteps, InstallingSteps, RollbackSteps,
       CleaningSteps, ReleasingStep DEF States
  <2>3. QED
    BY <2>2 DEF Running, IInv
<1>4. CASE Failed'
  <2>1. UNCHANGED <<plan, gate, history>> /\ machine'.state \in {"Stopped", "Impossible"}
    BY <1>4 DEF Deliver, Failed
  <2>2. PICK outcome \in {"Stopped", "Impossible"} : machine' = Stop(machine, outcome)
    <3>1. CASE ~ Accepted(e)
      BY <1>1, <3>1, OthersStop
    <3>2. CASE Accepted(e)
      <4>1. machine'.state \notin {"Stopped", "Impossible"}
        BY <1>1, <3>2, AcceptedGoesOn DEF Deliver
      <4>2. QED
        BY <2>1, <4>1
    <3>3. QED
      BY <3>1, <3>2
  <2>3. QED
    BY <1>1, <2>1, <2>2, StoppingKeepsInv
<1>5. QED
  BY <1>3, <1>4

\* Every action of Next delivers one event.
LEMMA NextDelivers ==
  ASSUME Next
  PROVE  \E e : WellTyped(e) /\ Deliver(e)
<1>1. CASE DeliverLockEvent
  BY <1>1 DEF DeliverLockEvent, WellTyped, Start, LockAcquired, LockRefused, LockReleased
<1>2. CASE DeliverObservation
  <2>1. PICK valid, matches \in BOOLEAN :
          Deliver(Reobserved(matches)) \/ Deliver(PostStateObserved(valid, matches))
    BY <1>2 DEF DeliverObservation
  <2>2. WellTyped(Reobserved(matches)) /\ WellTyped(PostStateObserved(valid, matches))
    BY DEF WellTyped, Reobserved, PostStateObserved
  <2>3. QED
    BY <2>1, <2>2
<1>3. CASE DeliverPersisted
  BY <1>3 DEF DeliverPersisted, WellTyped, JournalPersisted
<1>4. CASE DeliverProgress
  BY <1>4 DEF DeliverProgress, WellTyped, PreparationCompleted, OperationApplied,
     RollbackStepCompleted, CleanupCompleted
<1>5. CASE DeliverFailure
  BY <1>5 DEF DeliverFailure, WellTyped, EffectFailed
<1>6. QED
  BY <1>1, <1>2, <1>3, <1>4, <1>5 DEF Next

\* A stuttering step keeps the invariant.
LEMMA StutteringKeepsInv ==
  ASSUME IInv, UNCHANGED vars
  PROVE  IInv'
BY DEF vars, IInv, TypeOK, StateInv, Failed, Evidence, MutationIsPrepared, SealIsEarned,
   RestoreIsComplete, JournalRemovedLast

\* The inductive invariant holds of the machine under every order of events.
THEOREM Invariance == Spec => []IInv
<1>1. IInv /\ [Next]_vars => IInv'
  <2> SUFFICES ASSUME IInv, [Next]_vars PROVE IInv'
    OBVIOUS
  <2>1. CASE Next
    BY <2>1, NextDelivers, DeliverKeepsInv
  <2>2. CASE UNCHANGED vars
    BY <2>2, StutteringKeepsInv
  <2>3. QED
    BY <2>1, <2>2
<1>2. QED
  BY <1>1, InitEstablishesInv, PTL DEF Spec

\* Type correctness: for every plan, the machine stays in its closed grammar
\* and its cursor inside the inventory it is working through.
THEOREM TypeCorrect == Spec => []TypeOK
<1>1. IInv => TypeOK
  BY DEF IInv
<1>2. QED
  BY <1>1, Invariance, PTL

\* The invariant implies what is promised of the history.
LEMMA InvGivesEvidence == IInv => Evidence
BY HistoryIsEvidence DEF IInv

\* For every plan: no operation is applied before MUTATING is durable and all
\* its evidence is prepared.
THEOREM MutationPrepared == Spec => []MutationIsPrepared
<1>1. IInv => MutationIsPrepared
  BY InvGivesEvidence DEF Evidence
<1>2. QED
  BY <1>1, Invariance, PTL

\* For every plan: SEALED is persisted only after a complete, valid, gated
\* installation, of which nothing was rolled back.
THEOREM SealEarned == Spec => []SealIsEarned
<1>1. IInv => SealIsEarned
  BY InvGivesEvidence DEF Evidence
<1>2. QED
  BY <1>1, Invariance, PTL

\* For every plan: RESTORED is persisted only after every operation was rolled
\* back, and never after SEALED.
THEOREM RestoreComplete == Spec => []RestoreIsComplete
<1>1. IInv => RestoreIsComplete
  BY InvGivesEvidence DEF Evidence
<1>2. QED
  BY <1>1, Invariance, PTL

\* For every plan: journal.json is removed only after all the evidence.
THEOREM JournalLast == Spec => []JournalRemovedLast
<1>1. IInv => JournalRemovedLast
  BY InvGivesEvidence DEF Evidence
<1>2. QED
  BY <1>1, Invariance, PTL

\* For every plan: a completed machine went through exactly one of SEALED and
\* RESTORED, and its journal is gone.
THEOREM CompletionSettled == Spec => []CompletionIsSettled
<1>1. IInv => CompletionIsSettled
  <2> SUFFICES ASSUME IInv, machine.state = "Completed" PROVE CompletionIsSettled
    BY DEF CompletionIsSettled
  <2>1. WellFormed(plan)
    BY PlansAssumption DEF IInv, TypeOK
  <2>2. /\ JournalSlot(plan) \in CleanupSlots(plan, "sealed")
        /\ JournalSlot(plan) \in CleanupSlots(plan, "restored")
    BY <2>1, SlotsAreNatural DEF Phases
  <2>3. QED
    BY <2>2 DEF IInv, StateInv, HistoryFits, SealedSoFar, RestoredSoFar, HistoryIs,
       CompletionIsSettled
<1>2. QED
  BY <1>1, Invariance, PTL

\* For every plan: the machine and its shell agree on the answers to every
\* request, so IMPOSSIBLE_STATE is unreachable from a correct shell.
THEOREM AnswersAccepted == Spec => []ShellAnswersAccepted
<1>1. IInv => ShellAnswersAccepted
  <2> SUFFICES ASSUME IInv, machine.state \in States,
                      NEW e \in Answers(machine) \cup {EffectFailed(machine.awaiting)},
                      e.type # "EffectFailed" \/ machine.awaiting # "none"
               PROVE  StepTransaction(plan, gate, machine, e).state # "Impossible"
    BY DEF ShellAnswersAccepted
  <2>1. TypeOK /\ machine.awaiting \in Requests(machine.state)
    BY DEF IInv, StateInv
  <2>2. CASE Accepted(e)
    BY <2>1, <2>2, AcceptedGoesOn
  <2>3. CASE e = EffectFailed(machine.awaiting)
    BY <2>1, <2>3 DEF EffectFailed, StepTransaction, Stop, TypeOK
  <2>4. CASE e = LockRefused \/ e = Reobserved(FALSE)
    <3>1. machine.state = "NeedRevalidation"
      BY <2>1, <2>4 DEF Answers, Requests, States, LockRefused, Reobserved, EffectFailed,
         JournalPersisted, PreparationCompleted, OperationApplied, PostStateObserved,
         RollbackStepCompleted, CleanupCompleted, LockReleased, LockAcquired, Start
    <3>2. \/ e.type = "LockRefused" /\ machine.awaiting = "AcquireLock"
          \/ e.type = "Reobserved" /\ ~ e.matches /\ machine.awaiting = "ObserveAgain"
      <4>1. machine.awaiting \in {"AcquireLock", "ObserveAgain"}
        BY <2>1, <3>1 DEF Requests
      <4>2. CASE machine.awaiting = "AcquireLock"
        <5>1. e \in {LockAcquired, LockRefused, EffectFailed("AcquireLock")}
          BY <4>2 DEF Answers
        <5>2. QED
          BY <2>4, <4>2, <5>1 DEF LockAcquired, LockRefused, EffectFailed, Reobserved
      <4>3. CASE machine.awaiting = "ObserveAgain"
        <5>1. e \in {Reobserved(b) : b \in BOOLEAN} \/ e.type = "EffectFailed"
          BY <4>3 DEF Answers, EffectFailed
        <5>2. e.type \in {"Reobserved", "EffectFailed"}
          BY <5>1 DEF Reobserved
        <5>3. LockRefused.type \notin {"Reobserved", "EffectFailed"}
          BY DEF LockRefused
        <5>4. e = Reobserved(FALSE)
          BY <2>4, <5>2, <5>3
        <5>5. QED
          BY <4>3, <5>4 DEF Reobserved
      <4>4. QED
        BY <4>1, <4>2, <4>3
    <3>3. QED
      BY <2>1, <3>1, <3>2 DEF StepTransaction, AfterRevalidation, Stop, TypeOK
  <2>5. CASE /\ e \in Answers(machine)
             /\ ~ (e = LockRefused \/ e = Reobserved(FALSE))
    <3>1. Accepted(e)
      BY <2>1, <2>5 DEF Answers, Requests, States, Accepted, LockRefused, Reobserved,
         JournalPersisted, PreparationCompleted, OperationApplied, PostStateObserved,
         RollbackStepCompleted, CleanupCompleted, LockReleased, LockAcquired, Start
    <3>2. QED
      BY <2>2, <3>1
  <2>6. QED
    BY <2>2, <2>3, <2>4, <2>5
<1>2. QED
  BY <1>1, Invariance, PTL
=============================================================================
