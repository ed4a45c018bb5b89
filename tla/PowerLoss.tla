------------------------------- MODULE PowerLoss -------------------------------
(***************************************************************************)
(* What a power failure leaves of a transaction.  The other modules take   *)
(* every step to be durable; here the directory entries a step changes are *)
(* durable when the directory that holds them is fsynced, or whenever the  *)
(* system writes them back on its own.  Every planned path lies in a       *)
(* directory of its own, so that no fsync but its own makes it durable.    *)
(*                                                                         *)
(* The control is that of the transaction machine and of recovery, without *)
(* the stages, which nothing is restored from.  A run may stop anywhere,   *)
(* which stands for every refusal.                                         *)
(***************************************************************************)
EXTENDS OperationPlan

CONSTANTS
  Plans,        \* the plans a transaction may have
  MaxFailures   \* bound on crashes and power failures

ASSUME PlansAssumption == \A p \in Plans : WellFormed(p)
ASSUME FailuresAssumption == MaxFailures \in Nat

VARIABLES
  plan,
  journal,      \* the phase of journal.json, "none" without one
  target,       \* the state of each planned path
  backups,      \* the operations whose backup exists
  durable,      \* journal, target and backups as a power failure leaves them, and
                \* whether the new directories that hold the backups would be there
  unsynced,     \* the places the next fsync makes durable before the run goes on
  step,         \* what the run does
  at,           \* the operation it does it for
  failures,     \* crashes and power failures so far
  slipped       \* whether a process was killed between the rename of the journal
                \* and its fsync; nothing the code keeps

disk == <<journal, target, backups>>
run == <<step, at>>
vars == <<plan, disk, durable, unsynced, run, failures, slipped>>

Size == Len(plan.kinds)
Needed == {i \in Ops(plan) : NeedsBackup(plan.kinds[i])}

AllAre(paths, s) == \A i \in Ops(plan) : paths[i] = s

Init ==
  /\ plan \in Plans
  /\ journal = "none"
  /\ target = [i \in Ops(plan) |-> "old"]
  /\ backups = {}
  /\ durable = [journal |-> "none", target |-> target, backups |-> {}, directories |-> FALSE]
  /\ unsynced = {}
  /\ step = "begin" /\ at = 1
  /\ failures = 0 /\ slipped = FALSE

-----------------------------------------------------------------------------
(* Durability.                                                              *)

\* The places whose entry may differ from the durable one: the journal, the
\* path of each operation i, the backup of each as -i.
JournalEntry == 0
Places == - Size .. Size

\* The durable disk once the entry of a place is written back.
Written(place) ==
  IF place = JournalEntry THEN [durable EXCEPT !.journal = journal]
  ELSE IF place > 0 THEN [durable EXCEPT !.target[place] = target[place]]
  ELSE IF - place \in backups THEN [durable EXCEPT !.backups = @ \cup {- place}]
  ELSE [durable EXCEPT !.backups = @ \ {- place}]

\* fsync of a directory before the run goes on.
Sync ==
  /\ \E place \in unsynced :
       durable' = Written(place) /\ unsynced' = unsynced \ {place}
  /\ UNCHANGED <<plan, disk, run, failures, slipped>>

\* The system writes an entry back when it likes.
WriteBack ==
  /\ \/ \E place \in Places : durable' = Written(place)
     \/ backups # {} /\ durable' = [durable EXCEPT !.directories = TRUE]
  /\ UNCHANGED <<plan, disk, unsynced, run, failures, slipped>>

\* The process is killed: the disk is as it was.
Crash ==
  /\ step \notin {"begin", "recover"} /\ failures < MaxFailures
  /\ failures' = failures + 1
  /\ slipped' = (slipped \/ JournalEntry \in unsynced)
  /\ step' = "recover" /\ unsynced' = {}
  /\ UNCHANGED <<plan, disk, durable, at>>

\* Power is lost: only what is durable is left.
PowerFailure ==
  /\ step # "begin" /\ failures < MaxFailures
  /\ failures' = failures + 1
  /\ journal' = durable.journal /\ target' = durable.target
  /\ backups' = IF durable.directories THEN durable.backups ELSE {}
  /\ durable' = [durable EXCEPT !.backups = backups']
  /\ step' = "recover" /\ unsynced' = {}
  /\ UNCHANGED <<plan, at, slipped>>

-----------------------------------------------------------------------------
(* The run.                                                                 *)

Ready == unsynced = {}

Go(where, i) == step' = where /\ at' = i

\* Mutant of Persist: the state root is not fsynced.
PersistUnsynced(phase) ==
  /\ journal' = phase /\ unsynced' = {}
  /\ UNCHANGED <<plan, target, backups, durable, failures, slipped>>

Persist(phase) ==
  /\ journal' = phase /\ unsynced' = {JournalEntry}
  /\ UNCHANGED <<plan, target, backups, durable, failures, slipped>>

Begin == step = "begin" /\ Persist("planned") /\ Go("prepare", 1)

\* Mutants of Prepare: a backup of what is created too, and one that is not
\* fsynced.
PrepareAll ==
  /\ step = "prepare" /\ at \in Ops(plan) /\ Ready
  /\ backups' = backups \cup {at} /\ unsynced' = {- at}
  /\ Go("prepare", at + 1)
  /\ UNCHANGED <<plan, journal, target, durable, failures, slipped>>

PrepareUnsynced ==
  /\ step = "prepare" /\ at \in Ops(plan) /\ Ready
  /\ backups' = backups \cup ({at} \cap Needed)
  /\ Go("prepare", at + 1)
  /\ UNCHANGED <<plan, journal, target, durable, unsynced, failures, slipped>>

Prepare ==
  /\ step = "prepare" /\ at \in Ops(plan) /\ Ready
  /\ backups' = backups \cup ({at} \cap Needed)
  /\ unsynced' = {- i : i \in {at} \cap Needed}
  /\ Go("prepare", at + 1)
  /\ UNCHANGED <<plan, journal, target, durable, failures, slipped>>

BecomeMutating ==
  /\ step = "prepare" /\ at = Size + 1 /\ Ready
  /\ Persist("mutating") /\ Go("apply", 1)

\* Mutant of Apply: only a written file is fsynced into its directory.
ApplyUnsynced ==
  /\ step = "apply" /\ at \in Ops(plan) /\ Ready
  /\ target' = [target EXCEPT ![at] = "new"]
  /\ unsynced' = {i \in {at} : NeedsStage(plan.kinds[i]) /\ plan.kinds[i] # "CreateTree"}
  /\ Go("apply", at + 1)
  /\ UNCHANGED <<plan, journal, backups, durable, failures, slipped>>

\* The rename of a tree is the one that no fsync follows.
Apply ==
  /\ step = "apply" /\ at \in Ops(plan) /\ Ready
  /\ target' = [target EXCEPT ![at] = "new"]
  /\ unsynced' = {i \in {at} : plan.kinds[i] # "CreateTree"}
  /\ Go("apply", at + 1)
  /\ UNCHANGED <<plan, journal, backups, durable, failures, slipped>>

Seal ==
  /\ step = "apply" /\ at = Size + 1 /\ Ready
  /\ Persist("sealed") /\ Go("clean", 1)

\* An operation or the gate has failed.
TurnBack ==
  /\ step = "apply" /\ Ready
  /\ Go("rollback", Size)
  /\ UNCHANGED <<plan, disk, durable, unsynced, failures, slipped>>

\* Nothing a rollback does to a path is followed by an fsync.
RollBack ==
  /\ step = "rollback" /\ at \in Ops(plan)
  /\ target[at] = "new" /\ at \in Needed => at \in backups
  /\ target' = [target EXCEPT ![at] = "old"]
  /\ Go("rollback", at - 1)
  /\ UNCHANGED <<plan, journal, backups, durable, unsynced, failures, slipped>>

Restore ==
  /\ step = "rollback" /\ at = 0 /\ AllAre(target, "old")
  /\ Persist("restored") /\ Go("clean", 1)

\* The removal of a backup is not followed by an fsync either.
Clean ==
  /\ step = "clean" /\ Ready
  /\ \E i \in backups :
       /\ \A j \in backups : i <= j
       /\ backups' = backups \ {i}
  /\ UNCHANGED <<plan, journal, target, durable, unsynced, run, failures, slipped>>

RemoveJournal ==
  /\ step = "clean" /\ Ready /\ backups = {}
  /\ Persist("none") /\ Go("end", 1)

\* The next command is a recover.
Recover ==
  /\ step = "recover"
  /\ \/ journal = "planned" /\ Go("clean", 1)
     \/ journal = "mutating" /\ Go("rollback", Size)
     \/ journal = "restored" /\ AllAre(target, "old") /\ Go("clean", 1)
     \/ journal = "sealed" /\ AllAre(target, "new") /\ Go("clean", 1)
     \/ journal = "none" /\ Go("end", 1)
  /\ UNCHANGED <<plan, disk, durable, unsynced, failures, slipped>>

Run ==
  \/ Begin
  \/ Prepare
  \/ BecomeMutating
  \/ Apply
  \/ Seal
  \/ TurnBack
  \/ RollBack
  \/ Restore
  \/ Clean
  \/ RemoveJournal
  \/ Recover

Next == Run \/ Sync \/ WriteBack \/ Crash \/ PowerFailure

Spec == Init /\ [][Next]_vars

-----------------------------------------------------------------------------
(* Properties.                                                              *)

TypeOK ==
  /\ plan \in Plans
  /\ journal \in Phases \cup {"none"}
  /\ target \in [Ops(plan) -> {"old", "new"}]
  /\ backups \subseteq Needed
  /\ durable \in [journal : Phases \cup {"none"}, target : [Ops(plan) -> {"old", "new"}],
                  backups : SUBSET Needed, directories : BOOLEAN]
  /\ unsynced \subseteq Places
  /\ step \in {"begin", "prepare", "apply", "rollback", "clean", "recover", "end"}
  /\ at \in 0 .. Size + 1
  /\ failures \in 0 .. MaxFailures

\* Power lost before MUTATING is durable finds every path as it was.
PlannedIsUntouched ==
  durable.journal = "planned" => AllAre(durable.target, "old")

(***************************************************************************)
(* Power lost while MUTATING is durable finds the backup of every path it  *)
(* finds changed, if it finds the directories of the backups at all and no *)
(* recover has followed a journal that was not yet durable.                *)
(***************************************************************************)
ChangesCanBeUndone ==
  durable.journal = "mutating" /\ durable.directories /\ ~ slipped =>
    \A i \in Needed : durable.target[i] = "new" => i \in durable.backups

(***************************************************************************)
(* Power lost after SEALED is durable finds everything installed but the   *)
(* created trees, whose rename may be lost.                                *)
(***************************************************************************)
SealedIsInstalled ==
  durable.journal = "sealed" =>
    \A i \in Ops(plan) : plan.kinds[i] # "CreateTree" => durable.target[i] = "new"
=============================================================================
