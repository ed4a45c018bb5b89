---------------------------- MODULE DoubleCollect ----------------------------
(***************************************************************************)
(* Reading a project while others write to it.  A pass reads one location  *)
(* of the disk after the other.  A coherent observation is two passes that *)
(* read the same, in one of three attempts; an advisory one (status) is a  *)
(* single pass.                                                            *)
(*                                                                         *)
(* Nothing is assumed of the writers but that every disk is a disk: what   *)
(* is listed is there and what is not listed is not.                       *)
(***************************************************************************)
EXTENDS ObservedDisk

VARIABLES
  disk,         \* what each location holds
  coherent,     \* whether two passes are required
  status,       \* collecting, or how the observation ended
  attempt,      \* the pair of passes
  pass,         \* the first or the second of the pair
  at,           \* the location read next
  cap,          \* what this pass has read
  first         \* what the first pass of the pair has read

\* What happened since the attempt began; nothing the code keeps.
VARIABLES
  takenBack,    \* whether, since the first pass ended, a location took back
                \* the value that pass had read
  existed,      \* whether the disk was what the first pass read when it ended
  changes,      \* how many attempts met a change
  changed       \* whether this attempt has met one

collector == <<coherent, status, attempt, pass, at, cap, first>>
witness == <<takenBack, existed, changes, changed>>
vars == <<disk, collector, witness>>

Init ==
  /\ IsDisk(disk)
  /\ coherent \in BOOLEAN
  /\ status = "collecting" /\ attempt = 1 /\ pass = 1 /\ at = 1
  /\ cap = Blank /\ first = Blank
  /\ takenBack = FALSE /\ existed = FALSE /\ changes = 0 /\ changed = FALSE

-----------------------------------------------------------------------------
(* One pass (capture_state_root, _capture_tree).                            *)

Collecting == status = "collecting"

\* Something that was there when it was listed or stat'ed is gone.
Vanished == at \notin Probes /\ Looks(cap, at) /\ disk[at] = Absent

Read ==
  /\ Collecting /\ at <= Last /\ ~ Vanished
  /\ cap' = [cap EXCEPT ![at] = IF Looks(cap, at) THEN disk[at] ELSE Absent]
  /\ at' = at + 1
  /\ UNCHANGED <<disk, coherent, status, attempt, pass, first, witness>>

\* The error of a read ends the observation, whatever the attempt.
ReadFails ==
  /\ Collecting /\ at <= Last /\ Vanished
  /\ status' = "PathMissing"
  /\ UNCHANGED <<disk, coherent, attempt, pass, at, cap, first, witness>>

-----------------------------------------------------------------------------
(* The end of a pass (collect_coherent_observation).                        *)

PassEnds == Collecting /\ at = Last + 1

EndAdvisory ==
  /\ PassEnds /\ ~ coherent
  /\ status' = "ok"
  /\ UNCHANGED <<disk, coherent, attempt, pass, at, cap, first, witness>>

EndFirst ==
  /\ PassEnds /\ coherent /\ pass = 1
  /\ first' = cap /\ cap' = Blank /\ pass' = 2 /\ at' = 1
  /\ existed' = (cap = disk)
  /\ UNCHANGED <<disk, coherent, status, attempt, takenBack, changes, changed>>

\* Mutants of EndEqual: only the tree, or only the state root, is compared.
EndEqualTrees ==
  /\ PassEnds /\ coherent /\ pass = 2
  /\ \A l \in Names .. Last : cap[l] = first[l]
  /\ status' = "ok"
  /\ UNCHANGED <<disk, coherent, attempt, pass, at, cap, first, witness>>

EndEqualStateRoots ==
  /\ PassEnds /\ coherent /\ pass = 2
  /\ \A l \in StateRoot .. Pending : cap[l] = first[l]
  /\ status' = "ok"
  /\ UNCHANGED <<disk, coherent, attempt, pass, at, cap, first, witness>>

EndEqual ==
  /\ PassEnds /\ coherent /\ pass = 2 /\ cap = first
  /\ status' = "ok"
  /\ UNCHANGED <<disk, coherent, attempt, pass, at, cap, first, witness>>

Disagree ==
  /\ PassEnds /\ coherent /\ pass = 2 /\ cap # first
  /\ changes' = IF changed THEN changes + 1 ELSE changes

\* Mutants of Retry and GiveUp: one attempt too many, or one too few.
RetryOnceMore ==
  /\ Disagree /\ attempt <= MaxAttempts
  /\ attempt' = attempt + 1 /\ pass' = 1 /\ at' = 1 /\ cap' = Blank /\ first' = Blank
  /\ takenBack' = FALSE /\ existed' = FALSE /\ changed' = FALSE
  /\ UNCHANGED <<disk, coherent, status>>

GiveUpEarly ==
  /\ Disagree /\ attempt >= MaxAttempts - 1
  /\ status' = "ConcurrentTargetChange"
  /\ UNCHANGED <<disk, coherent, attempt, pass, at, cap, first, takenBack, existed, changed>>

Retry ==
  /\ Disagree /\ attempt < MaxAttempts
  /\ attempt' = attempt + 1 /\ pass' = 1 /\ at' = 1 /\ cap' = Blank /\ first' = Blank
  /\ takenBack' = FALSE /\ existed' = FALSE /\ changed' = FALSE
  /\ UNCHANGED <<disk, coherent, status>>

GiveUp ==
  /\ Disagree /\ attempt = MaxAttempts
  /\ status' = "ConcurrentTargetChange"
  /\ UNCHANGED <<disk, coherent, attempt, pass, at, cap, first, takenBack, existed, changed>>

Collect == Read \/ ReadFails \/ EndAdvisory \/ EndFirst \/ EndEqual \/ Retry \/ GiveUp

-----------------------------------------------------------------------------
(* Others write.                                                            *)

\* What a change of the disk means to this attempt.
Watch ==
  /\ LET before == disk
         after == disk'
     IN  /\ takenBack' = \/ takenBack
                          \/ /\ pass = 2
                             /\ \E l \in Locations :
                                  /\ Looks(first, l)
                                  /\ before[l] # first[l] /\ after[l] = first[l]
         /\ changed' = (changed \/ after # before)
  /\ UNCHANGED <<existed, changes>>

Disturb == IsDisk(disk') /\ Watch /\ UNCHANGED collector

Next == Collect \/ Disturb

Spec == Init /\ [][Next]_vars

-----------------------------------------------------------------------------
(* Properties.                                                              *)

(***************************************************************************)
(* A coherent observation existed: unless a location took back, during the *)
(* second pass, the value the first one had read there, what is returned   *)
(* is the disk as it was between the two passes.                           *)
(***************************************************************************)
ReturnedExisted ==
  status = "ok" /\ coherent /\ ~ takenBack => existed

\* A refusal is never spurious: the third mismatch means that every attempt
\* met a change, a vanished path that this attempt met one.
RefusalIsReal ==
  /\ status = "ConcurrentTargetChange" => changes = MaxAttempts
  /\ status = "PathMissing" => changed
=============================================================================
