------------------------- MODULE CoherentObservation -------------------------
(***************************************************************************)
(* The observation of a command (observe_system) beside the transactions   *)
(* of another process and an adopter who edits files of his own.  The      *)
(* transactions are those InstallContract allows, which the shell          *)
(* implements (BootstrapTransaction); this module adds what else of a      *)
(* transaction an observer sees: the pending file, the identity of the     *)
(* transaction, its directory.  The observer is DoubleCollect, on the disk *)
(* they make.                                                              *)
(***************************************************************************)
EXTENDS OperationPlan, ObservedDisk

CONSTANTS
  Plans,        \* the plans a transaction may have, all of one length
  Planned,      \* that length: the planned paths are 1 .. Planned
  MaxBegun,     \* bound on the transactions others begin
  MaxEdits      \* bound on the edits of the adopter

ASSUME PlannedAssumption ==
  /\ Planned \in 0 .. N
  /\ \A p \in Plans : Len(p.kinds) = Planned
ASSUME AbsentAssumption ==
  /\ Absent \notin Nat \cup {"regular", "mode", "old", "new"}
  /\ \A p \in Phases, t \in 1 .. MaxBegun : Absent # <<p, t>>
ASSUME OthersAssumption == MaxBegun \in Nat /\ MaxEdits \in Nat

VARIABLES
  plan,         \* the plan of every transaction
  phase,        \* the phase of journal.json, "none" without one
  target,       \* the state of each planned path
  pending,      \* whether journal.pending exists and no journal does
  directory,    \* whether the transactions directory exists
  tx,           \* the transactions begun so far
  edits,        \* edits so far
  own,          \* the last edit of each path of the adopter
  coherent, status, attempt, pass, at, cap, first,
  takenBack, existed, changes, changed

\* What happened since the attempt began; nothing the code keeps.
VARIABLES
  met,          \* the transactions that left a trace during the attempt
  wasThere      \* whether the tree was what the first pass read when the
                \* second one looked for the journal

writers == <<plan, phase, target, pending, directory, tx, edits, own>>
observer == <<coherent, status, attempt, pass, at, cap, first>>

-----------------------------------------------------------------------------
(* The disk the writers make.                                               *)

OwnPaths == Planned + 1 .. N

\* The kinds whose path is absent before, and after they are applied.
AbsentBefore == {"CreateFile", "CreateTree"}
AbsentAfter == {"DeleteFile", "RemoveEmptyDirectory"}

PlannedPath(i) ==
  IF plan.kinds[i] \in (IF target[i] = "old" THEN AbsentBefore ELSE AbsentAfter)
    THEN Absent ELSE target[i]

PathContent(i) == IF i \in OwnPaths THEN own[i] ELSE PlannedPath(i)

\* An operation may change the mode of its path, the adopter does not.
PathMode(i) == IF i \in OwnPaths THEN "mode" ELSE PlannedPath(i)

disk ==
  [l \in Locations |->
     CASE l = StateRoot ->
            [journal |-> phase # "none", pending |-> pending, directory |-> directory]
       [] l = JournalKind -> IF phase = "none" THEN Absent ELSE "regular"
       [] l = Journal -> IF phase = "none" THEN Absent ELSE <<phase, tx>>
       [] l = PendingKind -> IF pending THEN "regular" ELSE Absent
       [] l = Pending -> IF pending THEN tx ELSE Absent
       [] l = Names -> {i \in Paths : PathContent(i) # Absent}
       [] OTHER -> IF l % 2 = 1 THEN PathMode((l - 5) \div 2)
                                ELSE PathContent((l - 6) \div 2)]

Collector == INSTANCE DoubleCollect
Contract == INSTANCE InstallContract

vars == <<writers, observer, takenBack, existed, changes, changed, met, wasThere>>

\* A transaction left something in the state root.
Trace == phase # "none" \/ pending \/ directory

Init ==
  /\ plan \in Plans
  /\ phase = "none"
  /\ target = [i \in 1 .. Planned |-> "old"]
  /\ pending = FALSE /\ directory = FALSE /\ tx = 0 /\ edits = 0
  /\ own = [i \in OwnPaths |-> 0]
  /\ Collector!Init
  /\ met = 0
  /\ wasThere = FALSE

-----------------------------------------------------------------------------
(* The transactions of others (BootstrapTransaction, seen from outside).    *)

Beside ==
  /\ status = "collecting"
  /\ Collector!Watch
  /\ UNCHANGED <<observer, wasThere>>

\* An apply writes its first journal.pending.
BeginTransaction ==
  /\ ~ Trace /\ Contract!AllOld /\ tx < MaxBegun
  /\ tx' = tx + 1
  /\ pending' = TRUE /\ met' = met + 1
  /\ UNCHANGED <<plan, phase, target, directory, edits, own>>
  /\ Beside

\* Its rename to journal.json.
Announce ==
  /\ pending /\ Contract!Announce
  /\ pending' = FALSE
  /\ UNCHANGED <<plan, directory, tx, edits, own, met>>
  /\ Beside

\* A pending file whose writer died.
DiscardPending ==
  /\ pending /\ pending' = FALSE
  /\ UNCHANGED <<plan, phase, target, directory, tx, edits, own, met>>
  /\ Beside

\* The later phases: a pending file beside a journal decides nothing.
Advance ==
  /\ Contract!Open \/ Contract!Abort \/ Contract!Commit
  /\ UNCHANGED <<plan, pending, directory, tx, edits, own, met>>
  /\ Beside

MakeDirectory ==
  /\ phase = "planned" /\ ~ directory
  /\ directory' = TRUE
  /\ UNCHANGED <<plan, phase, target, pending, tx, edits, own, met>>
  /\ Beside

ChangePath ==
  /\ Contract!Change
  /\ UNCHANGED <<plan, pending, directory, tx, edits, own, met>>
  /\ Beside

PruneDirectory ==
  /\ phase \in {"planned", "restored", "sealed"} /\ directory
  /\ directory' = FALSE
  /\ UNCHANGED <<plan, phase, target, pending, tx, edits, own, met>>
  /\ Beside

\* The journal goes last.
RemoveJournal ==
  /\ ~ directory
  /\ Contract!Discard \/ Contract!Close
  /\ UNCHANGED <<plan, pending, directory, tx, edits, own, met>>
  /\ Beside

\* The adopter writes something new to a file of his own.
Edit ==
  /\ edits < MaxEdits
  /\ edits' = edits + 1
  /\ \E i \in OwnPaths : own' = [own EXCEPT ![i] = edits']
  /\ UNCHANGED <<plan, phase, target, pending, directory, tx, met>>
  /\ Beside

Write ==
  \/ BeginTransaction
  \/ Announce
  \/ DiscardPending
  \/ Advance
  \/ MakeDirectory
  \/ ChangePath
  \/ PruneDirectory
  \/ RemoveJournal
  \/ Edit

-----------------------------------------------------------------------------

SameTree(d, e) == \A l \in Names .. Last : d[l] = e[l]

\* One step of the observer.
Observe ==
  /\ UNCHANGED writers
  /\ Collector!Collect
  /\ met' = IF attempt' = attempt THEN met ELSE IF Trace THEN 1 ELSE 0
  /\ wasThere' = IF at' = 1 THEN FALSE
                 ELSE IF pass = 2 /\ at = JournalKind THEN SameTree(disk, first)
                 ELSE wasThere

Next == Write \/ Observe

Spec == Init /\ [][Next]_vars

-----------------------------------------------------------------------------
(* Properties.                                                              *)

\* Type correctness of the disk and of what has been read of it.
TypeOK ==
  /\ plan \in Plans
  /\ phase \in Phases \cup {"none"}
  /\ target \in [1 .. Planned -> {"old", "new"}]
  /\ tx \in 0 .. MaxBegun /\ (Trace => tx # 0)
  /\ own \in [OwnPaths -> 0 .. MaxEdits] /\ edits \in 0 .. MaxEdits
  /\ IsDisk(disk)
  /\ status \in {"collecting", "ok", "PathMissing", "ConcurrentTargetChange"}
  /\ attempt \in 1 .. MaxAttempts /\ pass \in {1, 2} /\ at \in 1 .. Last + 1
  /\ DOMAIN cap = Locations /\ DOMAIN first = Locations
  /\ changes \in 0 .. attempt

(***************************************************************************)
(* A coherent observation existed: unless a location took back, during the *)
(* second pass, the value the first one had read there (a rollback), what  *)
(* is returned is the disk as it was between the two passes.               *)
(***************************************************************************)
ReturnedExisted == Collector!ReturnedExisted

\* A refusal is never spurious: a third mismatch means that every attempt met
\* a change, a path that vanished that this attempt met one.
RefusalIsReal == Collector!RefusalIsReal

(***************************************************************************)
(* Rollbacks included: if at most one transaction left a trace during the  *)
(* attempt, a project observed without a journal is the one that was there *)
(* when the second pass looked for the journal and found none, neither     *)
(* half installed nor half rolled back; and what one transaction leaves    *)
(* in passing is never taken for orphaned state.                           *)
(***************************************************************************)
ObservedProjectExisted ==
  status = "ok" /\ coherent /\ met <= 1 =>
    /\ Verdict(cap) # "OrphanTransactionState"
    /\ Verdict(cap) = "NoJournal" => wasThere
=============================================================================
