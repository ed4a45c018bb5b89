----------------------------- MODULE ObservedDisk -----------------------------
(***************************************************************************)
(* What an observation reads of a project: the entries of the state root,  *)
(* its journal and its pending file, the names in the tree, and each named *)
(* path.  A file takes two reads, a stat for its kind and mode and an open *)
(* for its content.  A location is its place in the order of a pass.       *)
(***************************************************************************)
EXTENDS Integers

CONSTANTS
  N,            \* the paths the tree may hold are 1 .. N
  Absent,       \* what a read finds when nothing is there
  MaxAttempts   \* pairs of passes before an observation gives up

ASSUME SizeAssumption == N \in Nat
ASSUME AttemptsAssumption == MaxAttempts \in Nat \ {0}

StateRoot == 1
JournalKind == 2
Journal == 3
PendingKind == 4
Pending == 5
Names == 6
Mode(i) == 5 + 2 * i
Content(i) == 6 + 2 * i

Paths == 1 .. N
Last == 6 + 2 * N
Locations == 1 .. Last

\* Reads that may find nothing: the listings, and the stat of a state-root file.
Probes == {StateRoot, JournalKind, PendingKind, Names}

\* Whether a pass that has read c looks at l at all.
Looks(c, l) ==
  /\ l = Journal => c[JournalKind] # Absent
  /\ l = Pending => c[PendingKind] # Absent
  /\ \A i \in Paths : l = Mode(i) => i \in c[Names]
  /\ \A i \in Paths : l = Content(i) => c[Mode(i)] # Absent

\* A disk: at every instant the listings, the stats and the contents agree.
IsDisk(d) ==
  /\ d = [l \in Locations |-> d[l]]
  /\ \A l \in Locations \ Probes : Looks(d, l) <=> d[l] # Absent

Blank == [l \in Locations |-> Absent]

\* classify_state_root, for a state root without foreign entries.  A journal
\* is authoritative whatever else is there.
Verdict(c) ==
  LET unjournaled == c[Journal] = Absent
  IN  CASE ~ unjournaled -> "ValidatedJournal"
        [] unjournaled /\ c[StateRoot].directory -> "OrphanTransactionState"
        [] unjournaled /\ ~ c[StateRoot].directory /\ c[Pending] # Absent ->
             "StaleJournalWrite"
        [] OTHER -> "NoJournal"
=============================================================================
