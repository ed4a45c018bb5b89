--------------------------- MODULE InstallContract ---------------------------
(***************************************************************************)
(* What a bootstrap transaction promises of the planned paths, whatever    *)
(* crashes and whoever recovers: paths change one at a time and only while *)
(* the transaction is open; it opens only after it was announced, it is    *)
(* aborted only when every path is back at its old state, committed only   *)
(* when every path is at its new state, and after that nothing changes.    *)
(*                                                                         *)
(* phase is the phase of the journal, "none" without one.                  *)
(***************************************************************************)
EXTENDS Integers, Sequences

CONSTANT Plans

VARIABLES phase, target

contractVars == <<phase, target>>

AllOld == \A i \in DOMAIN target : target[i] = "old"
AllNew == \A i \in DOMAIN target : target[i] = "new"

Init ==
  /\ phase = "none"
  /\ \E p \in Plans : target = [i \in 1 .. Len(p.kinds) |-> "old"]

Move(from, to) == phase = from /\ phase' = to /\ UNCHANGED target

Announce == AllOld /\ Move("none", "planned")
Discard == Move("planned", "none")
Open == Move("planned", "mutating")

Change ==
  /\ phase = "mutating"
  /\ \E i \in DOMAIN target, s \in {"old", "new"} : target' = [target EXCEPT ![i] = s]
  /\ UNCHANGED phase

Abort == AllOld /\ Move("mutating", "restored")
Commit == AllNew /\ Move("mutating", "sealed")
Close == Move("restored", "none") \/ Move("sealed", "none")

Next == Announce \/ Discard \/ Open \/ Change \/ Abort \/ Commit \/ Close

Spec == Init /\ [][Next]_contractVars

-----------------------------------------------------------------------------

\* Atomicity: outside an open transaction the paths are all old or all new,
\* and what the phase says of them is true.
Atomic ==
  /\ phase \in {"planned", "restored"} => AllOld
  /\ phase = "sealed" => AllNew
  /\ phase # "mutating" => AllOld \/ AllNew
=============================================================================
