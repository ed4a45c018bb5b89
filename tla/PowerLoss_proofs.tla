--------------------------- MODULE PowerLoss_proofs ---------------------------
(***************************************************************************)
(* What a power failure leaves, for every set of plans and any number of   *)
(* crashes and power failures.                                             *)
(***************************************************************************)
EXTENDS PowerLoss, TLAPS

\* The phase a step works in.
Control ==
  /\ step \in {"begin", "end"} => journal = "none"
  /\ step = "prepare" => journal = "planned"
  /\ step \in {"apply", "rollback"} => journal = "mutating"
  /\ step = "clean" => journal # "mutating"
  /\ step \in {"begin", "prepare"} => at >= 1
  /\ slipped => step \notin {"begin", "prepare", "apply"}

\* How far the durable journal may lag behind.
Lag ==
  /\ ~ slipped /\ JournalEntry \notin unsynced => durable.journal = journal
  /\ journal = "planned" => durable.journal \in {"none", "planned"}
  /\ journal = "mutating" => durable.journal \in {"planned", "mutating"}
  /\ step = "begin" => durable.journal = "none"
  /\ step = "apply" => JournalEntry \in unsynced \/ durable.journal = "mutating"

\* Until MUTATING is durable no path has changed, durably or not.
Untouched ==
  step = "begin" \/ journal = "planned" \/ durable.journal = "planned" =>
    AllAre(target, "old") /\ AllAre(durable.target, "old")

\* Once SEALED is written everything but the created trees is durable.
Installed ==
  /\ step = "apply" => \A i \in Ops(plan) : i < at =>
       /\ target[i] = "new"
       /\ plan.kinds[i] # "CreateTree" => durable.target[i] = "new" \/ i \in unsynced
  /\ journal = "sealed" \/ durable.journal = "sealed" =>
       \A i \in Ops(plan) : plan.kinds[i] # "CreateTree" =>
         target[i] = "new" /\ durable.target[i] = "new"

\* The backups there will be when MUTATING is durable.
BackedUp ==
  /\ step = "prepare" => \A i \in Needed : i < at =>
       i \in backups /\ (i \in durable.backups \/ - i \in unsynced)
  /\ /\ journal = "mutating" \/ durable.journal = "mutating"
     /\ ~ slipped
     /\ durable.directories \/ backups # {}
     => Needed \subseteq backups /\ Needed \subseteq durable.backups

IInv == TypeOK /\ Control /\ Lag /\ Untouched /\ Installed /\ BackedUp
-----------------------------------------------------------------------------

\* The places are integers, and the path of every operation is one.
LEMMA Shape ==
  ASSUME TypeOK
  PROVE  /\ Size \in Nat /\ Ops(plan) = 1 .. Size
         /\ Needed \subseteq Ops(plan)
         /\ Places = - Size .. Size
         /\ Ops(plan) \subseteq Places
PROOF
<1>1. plan.kinds \in Seq(Kinds)
  BY PlansAssumption DEF TypeOK, WellFormed
<1>2. Size \in Nat  BY <1>1 DEF Size
<1> QED BY <1>2 DEF Size, Ops, Needed, Places

\* The durable disks of the plan.
Disks == [journal : Phases \cup {"none"}, target : [Ops(plan) -> {"old", "new"}],
          backups : SUBSET Needed, directories : BOOLEAN]

\* Writing an entry back leaves a durable disk, with its directories.
LEMMA WrittenIsADisk ==
  ASSUME TypeOK, NEW place \in Places
  PROVE  /\ Written(place) \in Disks
         /\ Written(place).directories = durable.directories
PROOF
<1>1. durable \in Disks  BY DEF TypeOK, Disks
<1>2. CASE place = JournalEntry
  BY <1>1 DEF Written, TypeOK, Disks
<1>3. CASE place # JournalEntry /\ place > 0
  <2>1. place \in Ops(plan)  BY <1>3, Shape
  <2>2. Written(place) = [durable EXCEPT !.target[place] = target[place]]
    BY <1>3 DEF Written
  <2> QED BY <1>1, <2>1, <2>2 DEF TypeOK, Disks
<1>4. CASE place # JournalEntry /\ ~ (place > 0)
  BY <1>1, <1>4 DEF Written, TypeOK, Disks
<1> QED BY <1>2, <1>3, <1>4

\* The first journal is renamed into place: only its entry may lag.
LEMMA BeginStep ==
  ASSUME IInv, Begin
  PROVE  IInv'
PROOF
<1>1. UNCHANGED <<plan, Ops(plan), Needed, Size, Places>>
  BY DEF Begin, Persist, Go, Needed, Size, Places
<1>2. /\ Size \in Nat /\ Ops(plan) = 1 .. Size /\ Needed \subseteq Ops(plan)
      /\ Places = - Size .. Size /\ Ops(plan) \subseteq Places
  BY Shape DEF IInv
<1>3. TypeOK'
  BY <1>1, <1>2 DEF IInv, Begin, Persist, Go, TypeOK, Phases, JournalEntry
<1>4. Control'
  BY <1>1 DEF IInv, Begin, Persist, Go, Control
<1>5. Lag'
  BY <1>1, <1>2 DEF IInv, Begin, Persist, Lag
<1>6. Untouched'
  BY <1>1 DEF IInv, Begin, Persist, Untouched, AllAre
<1>7. Installed'
  BY <1>1 DEF IInv, Begin, Persist, Go, Installed
<1>8. BackedUp'
  BY <1>1, <1>2 DEF IInv, Begin, Persist, Go, BackedUp
<1> QED BY <1>3, <1>4, <1>5, <1>6, <1>7, <1>8 DEF IInv

\* A backup is made, and lags behind until the next fsync.
LEMMA PrepareStep ==
  ASSUME IInv, Prepare
  PROVE  IInv'
PROOF
<1>1. UNCHANGED <<plan, Ops(plan), Needed, Size, Places>>
  BY DEF Prepare, Go, Needed, Size, Places
<1>2. /\ Size \in Nat /\ Ops(plan) = 1 .. Size /\ Needed \subseteq Ops(plan)
      /\ Places = - Size .. Size /\ Ops(plan) \subseteq Places
  BY Shape DEF IInv
<1>3. TypeOK'
  BY <1>1, <1>2 DEF IInv, Prepare, Go, TypeOK
<1>4. Control'
  BY <1>2 DEF IInv, Prepare, Go, Control
<1>5. Lag'
  BY <1>1 DEF IInv, Prepare, Go, Lag, Ready
<1>6. Untouched'
  BY <1>1 DEF IInv, Prepare, Go, Untouched, AllAre
<1>7. Installed'
  BY <1>1 DEF IInv, Prepare, Go, Installed
<1>8. BackedUp'
  BY <1>1, <1>2 DEF IInv, Prepare, Go, BackedUp, Lag, Control, Ready
<1> QED BY <1>3, <1>4, <1>5, <1>6, <1>7, <1>8 DEF IInv

\* MUTATING is written once every backup is synced.
LEMMA BecomeMutatingStep ==
  ASSUME IInv, BecomeMutating
  PROVE  IInv'
PROOF
<1>1. UNCHANGED <<plan, Ops(plan), Needed, Size, Places>>
  BY DEF BecomeMutating, Persist, Go, Needed, Size, Places
<1>2. /\ Size \in Nat /\ Ops(plan) = 1 .. Size /\ Needed \subseteq Ops(plan)
      /\ Places = - Size .. Size /\ Ops(plan) \subseteq Places
  BY Shape DEF IInv
<1>3. TypeOK'
  BY <1>1, <1>2 DEF IInv, BecomeMutating, Persist, Go, TypeOK, Phases, JournalEntry
<1>4. Control'
  BY <1>1 DEF IInv, BecomeMutating, Persist, Go, Control
<1>5. Lag'
  BY <1>1 DEF IInv, BecomeMutating, Persist, Go, Lag, Control, Ready
<1>6. Untouched'
  BY <1>1, <1>2 DEF IInv, BecomeMutating, Persist, Go, Untouched, AllAre
<1>7. Installed'
  BY <1>1, <1>2 DEF IInv, BecomeMutating, Persist, Go, Installed
<1>8. BackedUp'
  BY <1>1, <1>2 DEF IInv, BecomeMutating, Persist, BackedUp, Ready
<1> QED BY <1>3, <1>4, <1>5, <1>6, <1>7, <1>8 DEF IInv

\* A path changes: only a created tree is left out of the next fsync.
LEMMA ApplyStep ==
  ASSUME IInv, Apply
  PROVE  IInv'
PROOF
<1>1. UNCHANGED <<plan, Ops(plan), Needed, Size, Places>>
  BY DEF Apply, Go, Needed, Size, Places
<1>2. /\ Size \in Nat /\ Ops(plan) = 1 .. Size /\ Needed \subseteq Ops(plan)
      /\ Places = - Size .. Size /\ Ops(plan) \subseteq Places
  BY Shape DEF IInv
<1>3. TypeOK'
  BY <1>1, <1>2 DEF IInv, Apply, Go, TypeOK
<1>4. Control'
  BY <1>1 DEF IInv, Apply, Go, Control
<1>5. Lag'
  BY <1>1 DEF IInv, Apply, Go, Lag, Ready
<1>6. Untouched'
  BY <1>1 DEF IInv, Apply, Go, Untouched, Lag, Ready
<1>7. Installed'
  BY <1>1 DEF IInv, Apply, Go, Installed, TypeOK, Ready
<1>8. BackedUp'
  BY <1>1, <1>2 DEF IInv, Apply, Go, BackedUp
<1> QED BY <1>3, <1>4, <1>5, <1>6, <1>7, <1>8 DEF IInv

\* SEALED is written once every path but the created trees is synced.
LEMMA SealStep ==
  ASSUME IInv, Seal
  PROVE  IInv'
PROOF
<1>1. UNCHANGED <<plan, Ops(plan), Needed, Size, Places>>
  BY DEF Seal, Persist, Go, Needed, Size, Places
<1>2. /\ Size \in Nat /\ Ops(plan) = 1 .. Size /\ Needed \subseteq Ops(plan)
      /\ Places = - Size .. Size /\ Ops(plan) \subseteq Places
  BY Shape DEF IInv
<1>3. TypeOK'
  BY <1>1, <1>2 DEF IInv, Seal, Persist, Go, TypeOK, Phases, JournalEntry
<1>4. Control'
  BY <1>1 DEF Seal, Persist, Go, Control
<1>5. Lag'
  BY <1>1 DEF Seal, Persist, Go, Lag
<1>6. Untouched'
  BY <1>1, <1>2 DEF IInv, Seal, Persist, Go, Untouched, AllAre
<1>7. Installed'
  BY <1>1, <1>2 DEF IInv, Seal, Persist, Installed, Ready
<1>8. BackedUp'
  BY <1>1 DEF IInv, Seal, Persist, Go, BackedUp
<1> QED BY <1>3, <1>4, <1>5, <1>6, <1>7, <1>8 DEF IInv

\* Turning back changes nothing on disk.
LEMMA TurnBackStep ==
  ASSUME IInv, TurnBack
  PROVE  IInv'
PROOF
<1>1. UNCHANGED <<plan, Ops(plan), Needed, Size, Places>>
  BY DEF TurnBack, Go, disk, Needed, Size, Places
<1>2. /\ Size \in Nat /\ Ops(plan) = 1 .. Size /\ Needed \subseteq Ops(plan)
      /\ Places = - Size .. Size /\ Ops(plan) \subseteq Places
  BY Shape DEF IInv
<1>3. TypeOK'
  BY <1>1, <1>2 DEF IInv, TurnBack, Go, disk, TypeOK
<1>4. Control'
  BY <1>1 DEF IInv, TurnBack, Go, disk, Control
<1>5. Lag'
  BY <1>1 DEF IInv, TurnBack, Go, disk, Lag
<1>6. Untouched'
  BY <1>1, <1>2 DEF IInv, TurnBack, Go, disk, Untouched, AllAre
<1>7. Installed'
  BY <1>1, <1>2 DEF IInv, TurnBack, Go, disk, Installed
<1>8. BackedUp'
  BY <1>1 DEF IInv, TurnBack, Go, disk, BackedUp
<1> QED BY <1>3, <1>4, <1>5, <1>6, <1>7, <1>8 DEF IInv

\* A path is put back, not durably: MUTATING is still the journal.
LEMMA RollBackStep ==
  ASSUME IInv, RollBack
  PROVE  IInv'
PROOF
<1>1. UNCHANGED <<plan, Ops(plan), Needed, Size, Places>>
  BY DEF RollBack, Go, Needed, Size, Places
<1>2. /\ Size \in Nat /\ Ops(plan) = 1 .. Size /\ Needed \subseteq Ops(plan)
      /\ Places = - Size .. Size /\ Ops(plan) \subseteq Places
  BY Shape DEF IInv
<1>3. TypeOK'
  BY <1>1, <1>2 DEF IInv, RollBack, Go, TypeOK
<1>4. Control'
  BY <1>1 DEF IInv, RollBack, Go, Control
<1>5. Lag'
  BY <1>1 DEF IInv, RollBack, Go, Lag
<1>6. Untouched'
  BY <1>1 DEF IInv, RollBack, Go, Untouched, AllAre
<1>7. Installed'
  BY <1>1 DEF IInv, RollBack, Go, Installed, Lag, Control
<1>8. BackedUp'
  BY <1>1 DEF IInv, RollBack, Go, BackedUp
<1> QED BY <1>3, <1>4, <1>5, <1>6, <1>7, <1>8 DEF IInv

\* RESTORED is written, and the durable journal lags behind.
LEMMA RestoreStep ==
  ASSUME IInv, Restore
  PROVE  IInv'
PROOF
<1>1. UNCHANGED <<plan, Ops(plan), Needed, Size, Places>>
  BY DEF Restore, Persist, Go, Needed, Size, Places
<1>2. /\ Size \in Nat /\ Ops(plan) = 1 .. Size /\ Needed \subseteq Ops(plan)
      /\ Places = - Size .. Size /\ Ops(plan) \subseteq Places
  BY Shape DEF IInv
<1>3. TypeOK'
  BY <1>1, <1>2 DEF IInv, Restore, Persist, Go, TypeOK, Phases, JournalEntry
<1>4. Control'
  BY <1>1 DEF Restore, Persist, Go, Control
<1>5. Lag'
  BY <1>1, <1>2 DEF Restore, Persist, Go, Lag
<1>6. Untouched'
  BY <1>1 DEF IInv, Restore, Persist, Go, Untouched, AllAre
<1>7. Installed'
  BY <1>1 DEF IInv, Restore, Persist, Go, Installed
<1>8. BackedUp'
  BY <1>1 DEF IInv, Restore, Persist, Go, BackedUp
<1> QED BY <1>3, <1>4, <1>5, <1>6, <1>7, <1>8 DEF IInv

\* A backup is removed only under a journal that is synced and past MUTATING.
LEMMA CleanStep ==
  ASSUME IInv, Clean
  PROVE  IInv'
PROOF
<1>1. UNCHANGED <<plan, Ops(plan), Needed, Size, Places>>
  BY DEF Clean, run, Needed, Size, Places
<1>2. /\ Size \in Nat /\ Ops(plan) = 1 .. Size /\ Needed \subseteq Ops(plan)
      /\ Places = - Size .. Size /\ Ops(plan) \subseteq Places
  BY Shape DEF IInv
<1>3. TypeOK'
  BY <1>1 DEF IInv, Clean, run, TypeOK
<1>4. Control'
  BY <1>1 DEF IInv, Clean, run, Control
<1>5. Lag'
  BY <1>1, <1>2 DEF IInv, Clean, run, Lag
<1>6. Untouched'
  BY <1>1 DEF IInv, Clean, run, Untouched, AllAre
<1>7. Installed'
  BY <1>1 DEF IInv, Clean, run, Installed
<1>8. BackedUp'
  BY <1>1 DEF IInv, Clean, run, BackedUp, Lag, Control, Ready
<1> QED BY <1>3, <1>4, <1>5, <1>6, <1>7, <1>8 DEF IInv

\* The journal is removed when no backup is left.
LEMMA RemoveJournalStep ==
  ASSUME IInv, RemoveJournal
  PROVE  IInv'
PROOF
<1>1. UNCHANGED <<plan, Ops(plan), Needed, Size, Places>>
  BY DEF RemoveJournal, Persist, Go, Needed, Size, Places
<1>2. /\ Size \in Nat /\ Ops(plan) = 1 .. Size /\ Needed \subseteq Ops(plan)
      /\ Places = - Size .. Size /\ Ops(plan) \subseteq Places
  BY Shape DEF IInv
<1>3. TypeOK'
  BY <1>1, <1>2 DEF IInv, RemoveJournal, Persist, Go, TypeOK, JournalEntry
<1>4. Control'
  BY <1>1 DEF RemoveJournal, Persist, Go, Control
<1>5. Lag'
  BY <1>1 DEF RemoveJournal, Persist, Go, Lag
<1>6. Untouched'
  BY <1>1, <1>2 DEF IInv, RemoveJournal, Persist, Go, Untouched, AllAre
<1>7. Installed'
  BY <1>1, <1>2 DEF IInv, RemoveJournal, Persist, Go, Installed
<1>8. BackedUp'
  BY <1>1 DEF IInv, RemoveJournal, Persist, Go, BackedUp
<1> QED BY <1>3, <1>4, <1>5, <1>6, <1>7, <1>8 DEF IInv

\* Recovery goes on from the journal as it finds it.
LEMMA RecoverStep ==
  ASSUME IInv, Recover
  PROVE  IInv'
PROOF
<1>1. UNCHANGED <<plan, Ops(plan), Needed, Size, Places>>
  BY DEF Recover, Go, disk, Needed, Size, Places
<1>2. /\ Size \in Nat /\ Ops(plan) = 1 .. Size /\ Needed \subseteq Ops(plan)
      /\ Places = - Size .. Size /\ Ops(plan) \subseteq Places
  BY Shape DEF IInv
<1>3. TypeOK'
  BY <1>1, <1>2 DEF IInv, Recover, Go, disk, TypeOK
<1>4. Control'
  BY <1>1 DEF Recover, Go, disk, Control
<1>5. Lag'
  BY <1>1 DEF IInv, Recover, Go, disk, Lag
<1>6. Untouched'
  BY <1>1 DEF IInv, Recover, Go, disk, Untouched, AllAre
<1>7. Installed'
  BY <1>1 DEF IInv, Recover, Go, disk, Installed
<1>8. BackedUp'
  BY <1>1 DEF IInv, Recover, Go, disk, BackedUp
<1> QED BY <1>3, <1>4, <1>5, <1>6, <1>7, <1>8 DEF IInv

\* An fsync writes one entry of the directory back.
LEMMA SyncStep ==
  ASSUME IInv, Sync
  PROVE  IInv'
PROOF
<1>1. UNCHANGED <<plan, Ops(plan), Needed, Size, Places>>
  BY DEF Sync, Written, disk, run, Needed, Size, Places
<1>2. /\ Size \in Nat /\ Ops(plan) = 1 .. Size /\ Needed \subseteq Ops(plan)
      /\ Places = - Size .. Size /\ Ops(plan) \subseteq Places
  BY Shape DEF IInv
<1>3. TypeOK'
  <2>1. TypeOK  BY DEF IInv
  <2>2. durable' \in Disks
    BY <2>1, WrittenIsADisk DEF Sync, TypeOK
  <2> QED BY <1>1, <2>1, <2>2 DEF Sync, disk, run, TypeOK, Disks
<1>4. Control'
  BY <1>1 DEF IInv, Sync, disk, run, Control
<1>5. Lag'
  BY <1>1 DEF IInv, Sync, Written, disk, run, Lag, Control
<1>6. Untouched'
  BY <1>1, <1>2 DEF IInv, Sync, Written, disk, run, Untouched, AllAre
<1>7. Installed'
  BY <1>1, <1>2 DEF IInv, Sync, Written, disk, run, Installed, TypeOK, JournalEntry
<1>8. BackedUp'
  BY <1>1, <1>2 DEF IInv, Sync, Written, disk, run, BackedUp, JournalEntry
<1> QED BY <1>3, <1>4, <1>5, <1>6, <1>7, <1>8 DEF IInv

\* The system may write any entry back at any time.
LEMMA WriteBackStep ==
  ASSUME IInv, WriteBack
  PROVE  IInv'
PROOF
<1>1. UNCHANGED <<plan, Ops(plan), Needed, Size, Places>>
  BY DEF WriteBack, Written, disk, run, Needed, Size, Places
<1>2. /\ Size \in Nat /\ Ops(plan) = 1 .. Size /\ Needed \subseteq Ops(plan)
      /\ Places = - Size .. Size /\ Ops(plan) \subseteq Places
  BY Shape DEF IInv
<1>3. TypeOK'
  <2>1. TypeOK  BY DEF IInv
  <2>2. durable \in Disks => [durable EXCEPT !.directories = TRUE] \in Disks  BY DEF Disks
  <2>3. durable' \in Disks
    BY <2>1, <2>2, WrittenIsADisk DEF WriteBack, TypeOK, Disks
  <2> QED BY <1>1, <2>1, <2>3 DEF WriteBack, disk, run, TypeOK, Disks
<1>4. Control'
  BY <1>1 DEF IInv, WriteBack, disk, run, Control
<1>5. Lag'
  BY <1>1 DEF IInv, WriteBack, Written, disk, run, Lag, Control, TypeOK
<1>6. Untouched'
  BY <1>1, <1>2 DEF IInv, WriteBack, Written, disk, run, Untouched, TypeOK, AllAre
<1>7. Installed'
  BY <1>1, <1>2 DEF IInv, WriteBack, Written, disk, run, Installed, TypeOK
<1>8. BackedUp'
  BY <1>1 DEF IInv, WriteBack, Written, disk, run, BackedUp, Lag, TypeOK, JournalEntry
<1> QED BY <1>3, <1>4, <1>5, <1>6, <1>7, <1>8 DEF IInv

\* A killed process leaves the disk as it is, the journal perhaps unsynced.
LEMMA CrashStep ==
  ASSUME IInv, Crash
  PROVE  IInv'
PROOF
<1>1. UNCHANGED <<plan, Ops(plan), Needed, Size, Places>>
  BY DEF Crash, disk, Needed, Size, Places
<1>2. /\ Size \in Nat /\ Ops(plan) = 1 .. Size /\ Needed \subseteq Ops(plan)
      /\ Places = - Size .. Size /\ Ops(plan) \subseteq Places
  BY Shape DEF IInv
<1>3. TypeOK'
  BY <1>1, FailuresAssumption DEF IInv, Crash, disk, TypeOK
<1>4. Control'
  BY <1>1 DEF Crash, Control
<1>5. Lag'
  BY <1>1 DEF IInv, Crash, disk, Lag
<1>6. Untouched'
  BY <1>1 DEF IInv, Crash, disk, Untouched, AllAre
<1>7. Installed'
  BY <1>1 DEF IInv, Crash, disk, Installed
<1>8. BackedUp'
  BY <1>1 DEF IInv, Crash, disk, BackedUp
<1> QED BY <1>3, <1>4, <1>5, <1>6, <1>7, <1>8 DEF IInv

\* What is left is the durable disk, which is then the disk.
LEMMA PowerFailureStep ==
  ASSUME IInv, PowerFailure
  PROVE  IInv'
PROOF
<1>1. UNCHANGED <<plan, Ops(plan), Needed, Size, Places>>
  BY DEF PowerFailure, Needed, Size, Places
<1>2. /\ Size \in Nat /\ Ops(plan) = 1 .. Size /\ Needed \subseteq Ops(plan)
      /\ Places = - Size .. Size /\ Ops(plan) \subseteq Places
  BY Shape DEF IInv
<1>3. TypeOK'
  <2>1. TypeOK  BY DEF IInv
  <2>2. backups' \subseteq Needed  BY <2>1 DEF PowerFailure, TypeOK
  <2>3. durable' \in Disks  BY <2>1, <2>2 DEF PowerFailure, TypeOK, Disks
  <2> QED BY <1>1, <2>1, <2>2, <2>3, FailuresAssumption DEF PowerFailure, TypeOK, Disks
<1>4. Control'
  BY <1>1 DEF PowerFailure, Control
<1>5. Lag'
  BY <1>1 DEF PowerFailure, Lag
<1>6. Untouched'
  BY <1>1, <1>2 DEF IInv, PowerFailure, Untouched, AllAre
<1>7. Installed'
  BY <1>1, <1>2 DEF IInv, PowerFailure, Installed
<1>8. BackedUp'
  BY <1>1 DEF IInv, PowerFailure, BackedUp
<1> QED BY <1>3, <1>4, <1>5, <1>6, <1>7, <1>8 DEF IInv

\* Nothing is on disk yet, durably or not.
LEMMA InitHolds == Init => IInv
PROOF
<1> SUFFICES ASSUME Init  PROVE IInv
  OBVIOUS
<1>1. plan.kinds \in Seq(Kinds)
  BY PlansAssumption DEF Init, WellFormed
<1>2. Size \in Nat  BY <1>1 DEF Size
<1>3. TypeOK
  BY <1>2, FailuresAssumption DEF Init, TypeOK, Places, Phases
<1>4. Control  BY DEF Init, Control
<1>5. Lag  BY DEF Init, Lag, Phases
<1>6. Untouched  BY DEF Init, Untouched, AllAre
<1>7. Installed  BY DEF Init, Installed
<1>8. BackedUp  BY DEF Init, BackedUp
<1> QED BY <1>3, <1>4, <1>5, <1>6, <1>7, <1>8 DEF IInv

\* A step that changes nothing keeps the invariant.
LEMMA StutterStep ==
  ASSUME IInv, UNCHANGED vars
  PROVE  IInv'
PROOF
<1>1. UNCHANGED <<plan, journal, target, backups, durable, unsynced, step, at, failures, slipped>>
  BY DEF vars, disk, run
<1>2. UNCHANGED <<Ops(plan), Needed, Size, Places>>
  BY <1>1 DEF Needed, Size, Places
<1>3. TypeOK'  BY <1>1, <1>2 DEF IInv, TypeOK
<1>4. Control'  BY <1>1, <1>2 DEF IInv, Control
<1>5. Lag'  BY <1>1, <1>2 DEF IInv, Lag
<1>6. Untouched'  BY <1>1, <1>2 DEF IInv, Untouched, AllAre
<1>7. Installed'  BY <1>1, <1>2 DEF IInv, Installed
<1>8. BackedUp'  BY <1>1, <1>2 DEF IInv, BackedUp
<1> QED BY <1>3, <1>4, <1>5, <1>6, <1>7, <1>8 DEF IInv

\* The strengthened invariant holds in every state, whatever the plans and
\* however often the process is killed or power is lost.
THEOREM Invariance == Spec => []IInv
PROOF
<1>1. IInv /\ [Next]_vars => IInv'
  <2> SUFFICES ASSUME IInv, [Next]_vars  PROVE IInv'
    OBVIOUS
  <2>1. CASE Begin  BY <2>1, BeginStep
  <2>2. CASE Prepare  BY <2>2, PrepareStep
  <2>3. CASE BecomeMutating  BY <2>3, BecomeMutatingStep
  <2>4. CASE Apply  BY <2>4, ApplyStep
  <2>5. CASE Seal  BY <2>5, SealStep
  <2>6. CASE TurnBack  BY <2>6, TurnBackStep
  <2>7. CASE RollBack  BY <2>7, RollBackStep
  <2>8. CASE Restore  BY <2>8, RestoreStep
  <2>9. CASE Clean  BY <2>9, CleanStep
  <2>10. CASE RemoveJournal  BY <2>10, RemoveJournalStep
  <2>11. CASE Recover  BY <2>11, RecoverStep
  <2>12. CASE Sync  BY <2>12, SyncStep
  <2>13. CASE WriteBack  BY <2>13, WriteBackStep
  <2>14. CASE Crash  BY <2>14, CrashStep
  <2>15. CASE PowerFailure  BY <2>15, PowerFailureStep
  <2>16. CASE UNCHANGED vars  BY <2>16, StutterStep
  <2> QED BY <2>1, <2>2, <2>3, <2>4, <2>5, <2>6, <2>7, <2>8, <2>9, <2>10, <2>11, <2>12, <2>13, <2>14, <2>15, <2>16 DEF Next, Run
<1> QED BY InitHolds, <1>1, PTL DEF Spec

\* Every variable keeps its type.
THEOREM TypeCorrect == Spec => []TypeOK
PROOF
<1>1. IInv => TypeOK  BY DEF IInv
<1> QED BY <1>1, Invariance, PTL DEF Spec

\* Power lost before MUTATING is durable finds every path as it was: recovery,
\* which restores nothing under PLANNED, has nothing to restore.
THEOREM UntouchedUntilMutating == Spec => []PlannedIsUntouched
PROOF
<1>1. IInv => PlannedIsUntouched
  BY DEF IInv, Untouched, PlannedIsUntouched
<1> QED BY <1>1, Invariance, PTL DEF Spec

\* Power lost while MUTATING is durable finds the backup of every path it finds
\* changed, under the two conditions the property names.
THEOREM Undoable == Spec => []ChangesCanBeUndone
PROOF
<1>1. IInv => ChangesCanBeUndone
  BY DEF IInv, BackedUp, ChangesCanBeUndone
<1> QED BY <1>1, Invariance, PTL DEF Spec

\* Power lost after SEALED is durable finds everything installed but the
\* created trees.
THEOREM SealedSurvives == Spec => []SealedIsInstalled
PROOF
<1>1. IInv => SealedIsInstalled
  BY DEF IInv, Installed, SealedIsInstalled
<1> QED BY <1>1, Invariance, PTL DEF Spec
=============================================================================
