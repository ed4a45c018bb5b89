--------------------------- MODULE OperationPlan ---------------------------
(***************************************************************************)
(* The pure vocabulary of a bootstrap plan: the five operation kinds, the  *)
(* evidence each of them reserves before it mutates a path, the cleanup    *)
(* inventory of a finished transaction, and the decisions rollback and     *)
(* forward recovery take from what they observe.                           *)
(*                                                                         *)
(* A plan is a record:                                                     *)
(*   kinds   the operation kinds in plan order (ordered_operations);       *)
(*   inside  the pairs <<i, d>> where operation d removes the directory    *)
(*           that holds the path of operation i.                           *)
(* Contents, modes and paths are abstracted to what the decisions tell     *)
(* apart: a planned path is at its expected old state, at its planned new  *)
(* state, or at some other (third) state.                                  *)
(***************************************************************************)
EXTENDS Integers, Sequences, FiniteSets

Kinds == {"CreateFile", "ReplaceFile", "DeleteFile",
          "CreateTree", "RemoveEmptyDirectory"}

PathStates == {"old", "new", "other"}

Phases == {"planned", "mutating", "restored", "sealed"}

Ops(plan) == 1 .. Len(plan.kinds)

\* The operations whose paths lie in the directory operation d removes.
Children(plan, d) == {i \in Ops(plan) : <<i, d>> \in plan.inside}

(***************************************************************************)
(* The plans the planner emits: a path that lies in a removed directory is *)
(* deleted or removed itself, and before the directory is.                 *)
(***************************************************************************)
WellFormed(plan) ==
  /\ plan.kinds \in Seq(Kinds)
  /\ plan.inside \subseteq Ops(plan) \X Ops(plan)
  /\ \A pair \in plan.inside :
        /\ pair[1] < pair[2]
        /\ plan.kinds[pair[1]] \in {"DeleteFile", "RemoveEmptyDirectory"}
        /\ plan.kinds[pair[2]] = "RemoveEmptyDirectory"

-----------------------------------------------------------------------------
(* Reserved evidence.                                                       *)

NeedsStage(kind) == kind \in {"CreateFile", "ReplaceFile", "CreateTree"}
NeedsBackup(kind) == kind \in {"ReplaceFile", "DeleteFile"}
NeedsContainer(kind) == kind # "CreateFile"

(***************************************************************************)
(* Preparations are visited in plan order, an operation's stage before its *)
(* backup.  The position of a preparation is its slot: 2i-1 for the stage  *)
(* of operation i, 2i for its backup.                                      *)
(***************************************************************************)
StageSlot(i) == 2 * i - 1
BackupSlot(i) == 2 * i

PreparationSlots(plan) ==
  {StageSlot(i) : i \in {j \in Ops(plan) : NeedsStage(plan.kinds[j])}}
    \cup {BackupSlot(i) : i \in {j \in Ops(plan) : NeedsBackup(plan.kinds[j])}}

RollbackSlot(plan, i) == 2 * Len(plan.kinds) + i
DirectorySlot(plan) == 3 * Len(plan.kinds) + 1
JournalSlot(plan) == 3 * Len(plan.kinds) + 2

RollbackSlots(plan) ==
  {RollbackSlot(plan, i) : i \in {j \in Ops(plan) : NeedsContainer(plan.kinds[j])}}

\* Mutant: the rollback containers are not in the inventory.
CleanupSlotsWithoutContainers(plan, phase) ==
  PreparationSlots(plan) \cup {DirectorySlot(plan), JournalSlot(plan)}

\* Stages and backups in plan order, then (after a rollback) the rollback
\* containers, then the transaction directory, and journal.json last.
CleanupSlots(plan, phase) ==
  PreparationSlots(plan)
    \cup (IF phase = "restored" THEN RollbackSlots(plan) ELSE {})
    \cup {DirectorySlot(plan), JournalSlot(plan)}

\* The first slot of an inventory after slot k, 0 when there is none.
NextSlot(slots, k) ==
  IF \E j \in slots : j > k
    THEN CHOOSE j \in slots : j > k /\ \A l \in slots : l > k => j <= l
    ELSE 0

-----------------------------------------------------------------------------
(* Decisions of the reducers.                                               *)

(***************************************************************************)
(* What rollback does with operation i, given the state of its path.  The  *)
(* shell captures a directory with everything in it, so a directory that   *)
(* still holds something never equals the empty directory the plan         *)
(* recorded as its old state: childless says that it holds nothing.        *)
(***************************************************************************)
RollbackDecision(kind, current, childless) ==
  CASE current = "old" /\ (kind = "RemoveEmptyDirectory" => childless)
                         -> "AlreadyRestored"
    [] current = "new"   -> "Restore"
    [] OTHER             -> "ThirdState"

\* Both verifications read a snapshot that records a removed directory by
\* its mode alone, whatever it holds.
RestoredVerified(plan, target) == \A i \in Ops(plan) : target[i] = "old"
SealedVerified(plan, target) == \A i \in Ops(plan) : target[i] = "new"

\* Revalidation under the lock and the final observation read the same snapshot.
MatchesPreconditions(plan, target) == \A i \in Ops(plan) : target[i] = "old"
MatchesCandidate(plan, target) == \A i \in Ops(plan) : target[i] = "new"
=============================================================================
