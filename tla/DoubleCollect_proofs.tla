------------------------- MODULE DoubleCollect_proofs -------------------------
(***************************************************************************)
(* What a coherent observation promises, for every number of paths, every  *)
(* number of attempts and every writer that leaves a disk a disk.          *)
(***************************************************************************)
EXTENDS DoubleCollect, TLAPS

-----------------------------------------------------------------------------
(* Which locations a pass looks at.                                         *)

\* A location is a listing or a stat that may find nothing, or depends on one
\* that comes before it.
LEMMA Places ==
  ASSUME NEW l \in Locations
  PROVE  \/ l \in Probes \/ l = Journal \/ l = Pending
         \/ \E i \in Paths : l = Mode(i) \/ l = Content(i)
PROOF
<1>1. CASE l <= 6
  BY <1>1, SizeAssumption
  DEF Locations, Last, Probes, StateRoot, JournalKind, Journal, PendingKind, Pending, Names
<1>2. CASE l > 6
  <2>1. l \in Int /\ N \in Int /\ l <= 6 + 2 * N
    BY SizeAssumption DEF Locations, Last
  <2>2. CASE l % 2 = 1
    <3>1. (l - 5) \div 2 \in Paths /\ l = Mode((l - 5) \div 2)
      BY <1>2, <2>1, <2>2 DEF Paths, Mode
    <3> QED BY <3>1
  <2>3. CASE l % 2 = 0
    <3>1. (l - 6) \div 2 \in Paths /\ l = Content((l - 6) \div 2)
      BY <1>2, <2>1, <2>3 DEF Paths, Content
    <3> QED BY <3>1
  <2> QED BY <2>1, <2>2, <2>3
<1> QED BY <1>1, <1>2, SizeAssumption DEF Locations, Last

\* Whether a pass looks at a location depends on what it read before.
LEMMA LooksOnEarlier ==
  ASSUME NEW c, NEW d, NEW l \in Locations,
         \A k \in Locations : k < l => c[k] = d[k]
  PROVE  Looks(c, l) <=> Looks(d, l)
PROOF
<1>1. l = Journal => c[JournalKind] = d[JournalKind]
  BY SizeAssumption DEF Locations, Last, Journal, JournalKind
<1>2. l = Pending => c[PendingKind] = d[PendingKind]
  BY SizeAssumption DEF Locations, Last, Pending, PendingKind
<1>3. \A i \in Paths : l = Mode(i) => c[Names] = d[Names]
  BY SizeAssumption DEF Locations, Last, Paths, Mode, Names
<1>4. \A i \in Paths : l = Content(i) => c[Mode(i)] = d[Mode(i)]
  BY SizeAssumption DEF Locations, Last, Paths, Mode, Content
<1> QED BY <1>1, <1>2, <1>3, <1>4 DEF Looks

\* Every pass looks at the locations that may hold nothing.
LEMMA ProbesAreLookedAt ==
  ASSUME NEW c, NEW l \in Probes
  PROVE  Looks(c, l) /\ l \in Locations
PROOF
  BY SizeAssumption
  DEF Looks, Probes, Locations, Last, Paths, Mode, Content, StateRoot, JournalKind, Journal,
      PendingKind, Pending, Names

\* What a pass read, without a location it did not look at.
WellRead(c) ==
  /\ c = [l \in Locations |-> c[l]]
  /\ \A l \in Locations : ~ Looks(c, l) => c[l] = Absent

\* If a disk agrees with all that a pass looked at, the pass read the disk.
LEMMA Agreement ==
  ASSUME NEW c, NEW d, WellRead(c), IsDisk(d),
         \A l \in Locations : Looks(c, l) => d[l] = c[l]
  PROVE  c = d
PROOF
<1>1. \A l \in Probes : c[l] = d[l]
  BY ProbesAreLookedAt
<1>2. \A l \in Locations \ Probes : (Looks(c, l) <=> Looks(d, l)) => c[l] = d[l]
  BY DEF WellRead, IsDisk
<1>3. \A i \in Paths : Mode(i) \in Locations \ Probes /\ Content(i) \in Locations \ Probes
  BY SizeAssumption
  DEF Paths, Mode, Content, Locations, Last, Probes, StateRoot, JournalKind, PendingKind, Names
<1>4. Journal \in Locations \ Probes /\ Pending \in Locations \ Probes
  BY SizeAssumption
  DEF Journal, Pending, Locations, Last, Probes, StateRoot, JournalKind, PendingKind, Names
<1>5. c[Journal] = d[Journal]
  <2>1. \A e : Looks(e, Journal) <=> e[JournalKind] # Absent
    BY SizeAssumption DEF Looks, Journal, Pending, Paths, Mode, Content
  <2> QED BY <1>1, <1>2, <1>4, <2>1 DEF Probes
<1>6. c[Pending] = d[Pending]
  <2>1. \A e : Looks(e, Pending) <=> e[PendingKind] # Absent
    BY SizeAssumption DEF Looks, Journal, Pending, Paths, Mode, Content
  <2> QED BY <1>1, <1>2, <1>4, <2>1 DEF Probes
<1>7. \A i \in Paths : c[Mode(i)] = d[Mode(i)]
  <2> TAKE i \in Paths
  <2>1. \A e : Looks(e, Mode(i)) <=> i \in e[Names]
    BY SizeAssumption DEF Looks, Journal, Pending, Paths, Mode, Content
  <2> QED BY <1>1, <1>2, <1>3, <2>1 DEF Probes
<1>8. \A i \in Paths : c[Content(i)] = d[Content(i)]
  <2> TAKE i \in Paths
  <2>1. \A e : Looks(e, Content(i)) <=> e[Mode(i)] # Absent
    BY SizeAssumption DEF Looks, Journal, Pending, Paths, Mode, Content
  <2> QED BY <1>2, <1>3, <1>7, <2>1
<1>9. \A l \in Locations : c[l] = d[l]
  BY <1>1, <1>5, <1>6, <1>7, <1>8, Places
<1> QED BY <1>9 DEF WellRead, IsDisk

-----------------------------------------------------------------------------
(* The inductive invariant.                                                 *)

Typed ==
  /\ IsDisk(disk)
  /\ WellRead(first)
  /\ cap = [l \in Locations |-> cap[l]]
  /\ \A l \in Locations : l < at /\ ~ Looks(cap, l) => cap[l] = Absent
  /\ status \in {"collecting", "ok", "PathMissing", "ConcurrentTargetChange"}
  /\ attempt \in 1 .. MaxAttempts
  /\ pass \in {1, 2}
  /\ at \in 1 .. Last + 1
  /\ changes \in 0 .. attempt

\* Without a change in this attempt every read is what the disk holds.
Quiet ==
  ~ changed =>
    /\ \A l \in Locations : l < at => cap[l] = disk[l]
    /\ pass = 2 => first = disk

\* Every earlier attempt met a change.
Counted ==
  /\ status = "collecting" => changes = attempt - 1
  /\ status = "ConcurrentTargetChange" => changes = MaxAttempts
  /\ status = "PathMissing" => changed

\* A difference from the first pass that the second one must meet.
Visible(l) ==
  /\ Looks(first, l)
  /\ disk[l] # first[l]
  /\ l < at /\ Looks(cap, l) => cap[l] # first[l]

Existing ==
  /\ coherent /\ status = "collecting" /\ pass = 2 /\ ~ takenBack /\ ~ existed =>
       \E l \in Locations : Visible(l)
  /\ ReturnedExisted

Inv == Typed /\ Quiet /\ Counted /\ Existing

\* Blank holds nothing at the locations no pass looks at.
LEMMA BlankIsWellRead == WellRead(Blank)
PROOF
  BY DEF WellRead, Blank

\* What a finished pass has read.
LEMMA FinishedPass ==
  ASSUME Inv, PassEnds
  PROVE  /\ WellRead(cap)
         /\ ~ changed => cap = disk
PROOF
<1>1. \A l \in Locations : l < at
  BY SizeAssumption DEF PassEnds, Locations, Last
<1>2. WellRead(cap)
  BY <1>1 DEF Inv, Typed, WellRead
<1>3. ~ changed => cap = disk
  BY <1>1 DEF Inv, Typed, Quiet, IsDisk
<1> QED BY <1>2, <1>3

\* The first attempt has read nothing.
LEMMA InitInv == Init => Inv
PROOF
<1> SUFFICES ASSUME Init PROVE Inv
  OBVIOUS
<1>1. Typed
  BY BlankIsWellRead, SizeAssumption, AttemptsAssumption
  DEF Init, Typed, Blank, Locations, Last
<1>2. Quiet
  BY SizeAssumption DEF Init, Quiet, Locations, Last
<1>3. Counted /\ Existing
  BY DEF Init, Counted, Existing, ReturnedExisted
<1> QED BY <1>1, <1>2, <1>3 DEF Inv

\* A read agrees with the disk of its moment.
LEMMA ReadInv == Inv /\ Read => Inv'
PROOF
<1> SUFFICES ASSUME Inv, Read PROVE Inv'
  OBVIOUS
<1>0. at \in Locations /\ at \in Int
  BY SizeAssumption DEF Inv, Typed, Read, Locations, Last
<1>1. /\ cap' = [cap EXCEPT ![at] = IF Looks(cap, at) THEN disk[at] ELSE Absent]
      /\ at' = at + 1
      /\ UNCHANGED <<disk, coherent, status, attempt, pass, first, witness>>
  BY DEF Read
<1>2. \A l \in Locations : l # at => cap'[l] = cap[l]
  BY <1>1 DEF Inv, Typed
<1>3. cap'[at] = IF Looks(cap, at) THEN disk[at] ELSE Absent
  BY <1>0, <1>1 DEF Inv, Typed
<1>4. \A l \in Locations : l <= at => (Looks(cap', l) <=> Looks(cap, l))
  <2> TAKE l \in Locations
  <2> HAVE l <= at
  <2>1. \A k \in Locations : k < l => cap'[k] = cap[k]
    BY <1>0, <1>2 DEF Locations
  <2> QED BY <2>1, LooksOnEarlier
<1>5. \A l \in Locations : l < at' <=> l < at \/ l = at
  BY <1>0, <1>1 DEF Locations
<1>6. Typed'
  <2>1. cap' = [l \in Locations |-> cap'[l]]
    BY <1>1 DEF Inv, Typed
  <2>2. \A l \in Locations : l < at' /\ ~ Looks(cap', l) => cap'[l] = Absent
    <3> TAKE l \in Locations
    <3> HAVE l < at' /\ ~ Looks(cap', l)
    <3>1. l <= at
      BY <1>0, <1>5 DEF Locations
    <3>2. ~ Looks(cap, l)
      BY <1>4, <3>1
    <3>3. CASE l = at
      BY <1>3, <3>2, <3>3
    <3>4. CASE l < at
      BY <1>0, <1>2, <3>2, <3>4 DEF Inv, Typed, Locations
    <3> QED BY <1>5, <3>3, <3>4
  <2>3. at' \in 1 .. Last + 1
    BY <1>0, <1>1, SizeAssumption DEF Locations, Last
  <2> QED BY <1>1, <2>1, <2>2, <2>3 DEF Inv, Typed, IsDisk, WellRead, witness
<1>7. Quiet'
  <2> SUFFICES ASSUME ~ changed PROVE /\ \A l \in Locations : l < at' => cap'[l] = disk[l]
                                      /\ pass = 2 => first = disk
    BY <1>1 DEF Quiet, witness
  <2>1. \A l \in Locations : l < at => cap[l] = disk[l]
    BY DEF Inv, Quiet
  <2>2. Looks(cap, at) <=> Looks(disk, at)
    BY <1>0, <2>1, LooksOnEarlier
  <2>3. cap'[at] = disk[at]
    <3>1. at \in Probes => Looks(cap, at)
      BY ProbesAreLookedAt
    <3> QED BY <1>0, <1>3, <2>2, <3>1 DEF Inv, Typed, IsDisk
  <2>4. pass = 2 => first = disk
    BY DEF Inv, Quiet
  <2>5. \A l \in Locations : l < at => l # at
    BY <1>0 DEF Locations
  <2> QED BY <1>2, <1>5, <2>1, <2>3, <2>4, <2>5
<1>8. Counted'
  BY <1>1 DEF Inv, Counted, witness
<1>9. Existing'
  <2>1. ReturnedExisted'
    BY <1>1 DEF Inv, Existing, ReturnedExisted, witness
  <2>2. ASSUME coherent, status = "collecting", pass = 2, ~ takenBack, ~ existed
        PROVE  \E l \in Locations : Visible(l)'
    <3>1. PICK l \in Locations : Visible(l)
      BY <2>2 DEF Inv, Existing
    <3>2. l < at' /\ Looks(cap', l) => cap'[l] # first[l]
      <4> SUFFICES ASSUME l < at', Looks(cap', l) PROVE cap'[l] # first[l]
        OBVIOUS
      <4>1. Looks(cap, l)
        BY <1>0, <1>4, <1>5 DEF Locations
      <4>2. CASE l = at
        BY <1>3, <3>1, <4>1, <4>2 DEF Visible
      <4>3. CASE l < at
        BY <1>0, <1>2, <3>1, <4>1, <4>3 DEF Visible, Locations
      <4> QED BY <1>5, <4>2, <4>3
    <3> QED BY <1>1, <3>1, <3>2 DEF Visible
  <2> QED BY <1>1, <2>1, <2>2 DEF Existing, witness
<1> QED BY <1>6, <1>7, <1>8, <1>9 DEF Inv

\* A vanished path was listed by this pass, so the disk has changed.
LEMMA ReadFailsInv == Inv /\ ReadFails => Inv'
PROOF
<1> SUFFICES ASSUME Inv, ReadFails PROVE Inv'
  OBVIOUS
<1>1. Typed' /\ Quiet' /\ Existing'
  BY DEF Inv, Typed, Quiet, Existing, ReturnedExisted, ReadFails, witness, IsDisk, WellRead
<1>2. changed
  <2> SUFFICES ASSUME ~ changed PROVE FALSE
    OBVIOUS
  <2>1. at \in Locations
    BY SizeAssumption DEF Inv, Typed, ReadFails, Locations, Last
  <2>2. Looks(cap, at) <=> Looks(disk, at)
    BY <2>1, LooksOnEarlier DEF Inv, Quiet
  <2> QED BY <2>1, <2>2 DEF ReadFails, Vanished, Inv, Typed, IsDisk
<1>3. Counted'
  BY <1>2 DEF Counted, ReadFails, witness
<1> QED BY <1>1, <1>3 DEF Inv

\* If the first pass did not read the disk, a difference is in view.
LEMMA EndFirstInv == Inv /\ EndFirst => Inv'
PROOF
<1> SUFFICES ASSUME Inv, EndFirst PROVE Inv'
  OBVIOUS
<1>1. WellRead(cap) /\ (~ changed => cap = disk)
  BY FinishedPass DEF EndFirst
<1>2. Typed'
  BY <1>1, SizeAssumption DEF Inv, Typed, EndFirst, WellRead, IsDisk, Blank, Locations, Last
<1>3. Quiet'
  BY <1>1, SizeAssumption DEF Quiet, EndFirst, Locations
<1>4. Counted'
  BY DEF Inv, Counted, EndFirst
<1>5. Existing'
  <2>1. ReturnedExisted'
    BY DEF ReturnedExisted, EndFirst, PassEnds, Collecting
  <2>2. ASSUME cap # disk
        PROVE  \E l \in Locations : Visible(l)'
    <3>1. PICK l \in Locations : Looks(cap, l) /\ disk[l] # cap[l]
      BY <1>1, <2>2, Agreement DEF Inv, Typed
    <3>2. first' = cap /\ disk' = disk /\ ~ (l < at')
      BY SizeAssumption DEF EndFirst, Locations
    <3> QED BY <3>1, <3>2 DEF Visible
  <2>3. existed' = (cap = disk)
    BY DEF EndFirst
  <2> QED BY <2>1, <2>2, <2>3 DEF Existing
<1> QED BY <1>2, <1>3, <1>4, <1>5 DEF Inv

\* Two equal passes leave no difference in view.
LEMMA EndEqualInv == Inv /\ EndEqual => Inv'
PROOF
<1> SUFFICES ASSUME Inv, EndEqual PROVE Inv'
  OBVIOUS
<1>1. Typed' /\ Quiet'
  BY DEF Inv, Typed, Quiet, EndEqual, witness, IsDisk, WellRead
<1>2. Counted'
  BY DEF Counted, EndEqual
<1>3. Existing'
  <2>1. ~ takenBack => existed
    <3> SUFFICES ASSUME ~ takenBack, ~ existed PROVE FALSE
      OBVIOUS
    <3>1. PICK l \in Locations : Visible(l)
      BY DEF Inv, Existing, EndEqual, PassEnds, Collecting
    <3>2. l < at
      BY SizeAssumption DEF EndEqual, PassEnds, Locations, Last
    <3> QED BY <3>1, <3>2 DEF Visible, EndEqual
  <2> QED BY <2>1 DEF Existing, ReturnedExisted, EndEqual, witness
<1> QED BY <1>1, <1>2, <1>3 DEF Inv

\* A mismatch means that this attempt met a change.
LEMMA DisagreementIsReal == Inv /\ Disagree => changed /\ changes' = attempt
PROOF
<1> SUFFICES ASSUME Inv, Disagree PROVE changed /\ changes' = attempt
  OBVIOUS
<1>1. changed
  BY FinishedPass DEF Inv, Quiet, Disagree
<1>2. attempt \in Int /\ changes = attempt - 1
  BY AttemptsAssumption DEF Inv, Typed, Counted, Disagree, PassEnds, Collecting
<1> QED BY <1>1, <1>2 DEF Disagree

\* A new attempt has read nothing, and the one before met a change.
LEMMA RetryInv == Inv /\ Retry => Inv'
PROOF
<1> SUFFICES ASSUME Inv, Retry PROVE Inv'
  OBVIOUS
<1>0. changes' = attempt /\ status' = "collecting"
  BY DisagreementIsReal DEF Retry, Disagree, PassEnds, Collecting
<1>1. Typed'
  BY <1>0, BlankIsWellRead, SizeAssumption, AttemptsAssumption
  DEF Inv, Typed, Retry, WellRead, IsDisk, Blank, Locations, Last
<1>2. Quiet'
  BY SizeAssumption DEF Quiet, Retry, Locations
<1>3. Counted'
  <2>1. changes' = attempt /\ attempt \in Int
    BY DisagreementIsReal, AttemptsAssumption DEF Retry, Inv, Typed
  <2> QED BY <2>1 DEF Counted, Retry, Disagree, PassEnds, Collecting
<1>4. Existing'
  BY DEF Existing, ReturnedExisted, Retry, Disagree, PassEnds, Collecting
<1> QED BY <1>1, <1>2, <1>3, <1>4 DEF Inv

\* The last attempt met a change like all before.
LEMMA GiveUpInv == Inv /\ GiveUp => Inv'
PROOF
<1> SUFFICES ASSUME Inv, GiveUp PROVE Inv'
  OBVIOUS
<1>1. Typed' /\ Quiet'
  BY DisagreementIsReal, AttemptsAssumption DEF Inv, Typed, Quiet, GiveUp, IsDisk, WellRead
<1>2. Counted'
  BY DisagreementIsReal DEF Counted, GiveUp
<1>3. Existing'
  BY DEF Existing, ReturnedExisted, GiveUp
<1> QED BY <1>1, <1>2, <1>3 DEF Inv

\* A writer takes a difference out of view only by taking a value back.
LEMMA DisturbInv == Inv /\ Disturb => Inv'
PROOF
<1> SUFFICES ASSUME Inv, Disturb PROVE Inv'
  OBVIOUS
<1>1. /\ IsDisk(disk)'
      /\ UNCHANGED <<coherent, status, attempt, pass, at, cap, first, existed, changes>>
      /\ changed' = (changed \/ disk' # disk)
      /\ takenBack' = \/ takenBack
                      \/ /\ pass = 2
                         /\ \E l \in Locations :
                              Looks(first, l) /\ disk[l] # first[l] /\ disk'[l] = first[l]
  BY DEF Disturb, Watch, collector, IsDisk
<1>2. Typed'
  BY <1>1 DEF Inv, Typed, WellRead
<1>3. Quiet'
  BY <1>1 DEF Inv, Quiet
<1>4. Counted'
  BY <1>1 DEF Inv, Counted
<1>5. Existing'
  <2>1. ReturnedExisted'
    BY <1>1 DEF Inv, Existing, ReturnedExisted
  <2>2. ASSUME coherent, status = "collecting", pass = 2, ~ takenBack', ~ existed
        PROVE  \E l \in Locations : Visible(l)'
    <3>1. PICK l \in Locations : Visible(l)
      BY <1>1, <2>2 DEF Inv, Existing
    <3>2. disk'[l] # first[l]
      BY <1>1, <2>2, <3>1 DEF Visible
    <3> QED BY <1>1, <3>1, <3>2 DEF Visible
  <2> QED BY <1>1, <2>1, <2>2 DEF Existing
<1> QED BY <1>2, <1>3, <1>4, <1>5 DEF Inv

\* Every step preserves the invariant.
LEMMA StepInv == Inv /\ [Next]_vars => Inv'
PROOF
<1> SUFFICES ASSUME Inv, [Next]_vars PROVE Inv'
  OBVIOUS
<1>1. CASE EndAdvisory
  BY <1>1 DEF EndAdvisory, Inv, Typed, Quiet, Counted, Existing, ReturnedExisted, witness, IsDisk,
     WellRead
<1>2. CASE UNCHANGED vars
  BY <1>2 DEF vars, collector, witness, Inv, Typed, Quiet, Counted, Existing, ReturnedExisted,
     Visible, IsDisk, WellRead
<1> QED BY <1>1, <1>2, ReadInv, ReadFailsInv, EndFirstInv, EndEqualInv, RetryInv, GiveUpInv,
           DisturbInv DEF Next, Collect

-----------------------------------------------------------------------------
(* Theorems.                                                                *)

\* The invariant holds of every behaviour, under every writer.
THEOREM Invariance == Spec => []Inv
PROOF
<1>1. Init => Inv
  BY InitInv
<1>2. Inv /\ [Next]_vars => Inv'
  BY StepInv
<1> QED BY <1>1, <1>2, PTL DEF Spec

\* Unless a location took back what the first pass read, the result of a
\* coherent observation was the disk between the two passes.
THEOREM CoherentMeansExisted == Spec => []ReturnedExisted
PROOF
<1>1. Inv => ReturnedExisted
  BY DEF Inv, Existing
<1> QED BY <1>1, Invariance, PTL

\* An observation is refused only for changes that were made.
THEOREM RefusalsAreReal == Spec => []RefusalIsReal
PROOF
<1>1. Inv => RefusalIsReal
  BY DEF Inv, Counted, RefusalIsReal
<1> QED BY <1>1, Invariance, PTL
=============================================================================
