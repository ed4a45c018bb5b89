---------------------- MODULE CoherentObservation_proofs ----------------------
(***************************************************************************)
(* The writers of a project always leave a disk, so that what DoubleCollect *)
(* promises of an observation beside any writer holds beside them.         *)
(***************************************************************************)
EXTENDS CoherentObservation, TLAPS

Results == INSTANCE DoubleCollect_proofs

\* What the writers keep.
Writable ==
  /\ plan \in Plans
  /\ phase \in Phases \cup {"none"}
  /\ target \in [1 .. Planned -> {"old", "new"}]
  /\ tx \in 0 .. MaxBegun /\ (Trace => tx # 0)
  /\ own \in [OwnPaths -> 0 .. MaxEdits] /\ edits \in 0 .. MaxEdits

\* A path has a mode exactly when it has a content.
LEMMA PathIsPresent ==
  ASSUME Writable, NEW i \in Paths
  PROVE  PathMode(i) = Absent <=> PathContent(i) = Absent
PROOF
<1>1. CASE i \in OwnPaths
  <2>1. own[i] \in Nat
    BY <1>1, OthersAssumption DEF Writable
  <2> QED BY <1>1, <2>1, AbsentAssumption DEF PathMode, PathContent
<1>2. CASE i \notin OwnPaths
  BY <1>2 DEF PathMode, PathContent
<1> QED BY <1>1, <1>2

\* The locations of a path, and no other one is a stat or a content.
LEMMA PathLocations ==
  /\ \A i \in Paths :
       /\ Mode(i) \in Locations /\ Mode(i) % 2 = 1 /\ (Mode(i) - 5) \div 2 = i
       /\ Content(i) \in Locations /\ Content(i) % 2 = 0 /\ (Content(i) - 6) \div 2 = i
       /\ Mode(i) > Names /\ Content(i) > Names
  /\ \A i, j \in Paths : Mode(i) # Content(j)
PROOF
  BY SizeAssumption DEF Paths, Mode, Content, Locations, Last, Names

\* DoubleCollect's cases of a location, for the locations of this module.
LEMMA PlacesHere ==
  ASSUME NEW l \in Locations
  PROVE  \/ l \in Probes \/ l = Journal \/ l = Pending
         \/ \E i \in Paths : l = Mode(i) \/ l = Content(i)
PROOF
<1>1. l \in Results!Locations
  BY DEF Locations, Last, Results!Locations, Results!Last
<1>2. \/ l \in Results!Probes \/ l = Results!Journal \/ l = Results!Pending
      \/ \E i \in Results!Paths : l = Results!Mode(i) \/ l = Results!Content(i)
  BY <1>1, Results!Places, AttemptsAssumption, SizeAssumption
<1> QED BY <1>2
  DEF Probes, StateRoot, JournalKind, Journal, PendingKind, Pending, Names, Paths, Mode, Content,
      Results!Probes, Results!StateRoot, Results!JournalKind, Results!Journal,
      Results!PendingKind, Results!Pending, Results!Names, Results!Paths, Results!Mode,
      Results!Content

\* What each read of the disk finds.
LEMMA ReadsOfDisk ==
  /\ disk = [l \in Locations |-> disk[l]]
  /\ disk[JournalKind] = IF phase = "none" THEN Absent ELSE "regular"
  /\ disk[Journal] = IF phase = "none" THEN Absent ELSE <<phase, tx>>
  /\ disk[PendingKind] = IF pending THEN "regular" ELSE Absent
  /\ disk[Pending] = IF pending THEN tx ELSE Absent
  /\ disk[Names] = {i \in Paths : PathContent(i) # Absent}
  /\ \A i \in Paths : disk[Mode(i)] = PathMode(i) /\ disk[Content(i)] = PathContent(i)
PROOF
<1>1. 1 .. 6 \subseteq Locations
  BY SizeAssumption DEF Locations, Last
<1>2. ASSUME NEW i \in Paths
      PROVE  disk[Mode(i)] = PathMode(i) /\ disk[Content(i)] = PathContent(i)
  BY PathLocations DEF disk, StateRoot, JournalKind, Journal, PendingKind, Pending, Names
<1>3. disk = [l \in Locations |-> disk[l]]
  BY DEF disk
<1> USE DEF disk, StateRoot, JournalKind, Journal, PendingKind, Pending, Names
<1>4. disk[JournalKind] = IF phase = "none" THEN Absent ELSE "regular"
  BY <1>1
<1>5. disk[Journal] = IF phase = "none" THEN Absent ELSE <<phase, tx>>
  BY <1>1
<1>6. disk[PendingKind] = IF pending THEN "regular" ELSE Absent
  BY <1>1
<1>7. disk[Pending] = IF pending THEN tx ELSE Absent
  BY <1>1
<1>8. disk[Names] = {i \in Paths : PathContent(i) # Absent}
  BY <1>1
<1> QED BY ONLY <1>2, <1>3, <1>4, <1>5, <1>6, <1>7, <1>8

\* What is listed is there, and what is not listed is not.
LEMMA DiskIsDisk == Writable => IsDisk(disk)
PROOF
<1> SUFFICES ASSUME Writable PROVE IsDisk(disk)
  OBVIOUS
<1>1. Looks(disk, Journal) <=> disk[Journal] # Absent
  <2>1. phase # "none" => <<phase, tx>> # Absent
    BY AbsentAssumption DEF Writable, Trace
  <2>2. Looks(disk, Journal) <=> disk[JournalKind] # Absent
    BY SizeAssumption DEF Looks, Journal, Pending, Paths, Mode, Content
  <2> QED BY <2>1, <2>2, ReadsOfDisk, AbsentAssumption
<1>2. Looks(disk, Pending) <=> disk[Pending] # Absent
  <2>1. tx # Absent
    BY AbsentAssumption, OthersAssumption DEF Writable
  <2>2. Looks(disk, Pending) <=> disk[PendingKind] # Absent
    BY SizeAssumption DEF Looks, Journal, Pending, Paths, Mode, Content
  <2> QED BY <2>1, <2>2, ReadsOfDisk, AbsentAssumption
<1>3. ASSUME NEW i \in Paths
      PROVE  /\ Looks(disk, Mode(i)) <=> disk[Mode(i)] # Absent
             /\ Looks(disk, Content(i)) <=> disk[Content(i)] # Absent
  <2>1. Looks(disk, Mode(i)) <=> i \in disk[Names]
    BY SizeAssumption DEF Looks, Journal, Pending, Paths, Mode, Content
  <2>2. Looks(disk, Content(i)) <=> disk[Mode(i)] # Absent
    BY SizeAssumption DEF Looks, Journal, Pending, Paths, Mode, Content
  <2> QED BY <2>1, <2>2, ReadsOfDisk, PathIsPresent
<1>4. ASSUME NEW l \in Locations \ Probes
      PROVE  Looks(disk, l) <=> disk[l] # Absent
  BY <1>1, <1>2, <1>3, PlacesHere
<1> QED BY <1>4, ReadsOfDisk DEF IsDisk

\* Every step of a writer keeps what the writers keep.
LEMMA WriteKeepsDisk == Writable /\ Write => Writable'
PROOF
<1> SUFFICES ASSUME Writable, Write PROVE Writable'
  OBVIOUS
<1> USE DEF Writable, Trace, Phases
<1>1. CASE BeginTransaction
  BY <1>1, OthersAssumption DEF BeginTransaction
<1>2. CASE Announce
  BY <1>2 DEF Announce, Contract!Announce, Contract!Move
<1>3. CASE DiscardPending
  BY <1>3 DEF DiscardPending
<1>4. CASE Advance
  BY <1>4 DEF Advance, Contract!Open, Contract!Abort, Contract!Commit, Contract!Move
<1>5. CASE MakeDirectory
  BY <1>5 DEF MakeDirectory
<1>6. CASE ChangePath
  BY <1>6 DEF ChangePath, Contract!Change
<1>7. CASE PruneDirectory
  BY <1>7 DEF PruneDirectory
<1>8. CASE RemoveJournal
  BY <1>8 DEF RemoveJournal, Contract!Discard, Contract!Close, Contract!Move
<1>9. CASE Edit
  BY <1>9, OthersAssumption DEF Edit
<1> QED BY <1>1, <1>2, <1>3, <1>4, <1>5, <1>6, <1>7, <1>8, <1>9 DEF Write

\* So does every step: the observer writes nothing.
LEMMA StepWritable == Writable /\ [Next]_vars => Writable'
PROOF
<1>1. UNCHANGED writers => (Writable => Writable')
  BY DEF writers, Writable, Trace
<1>2. (Observe \/ UNCHANGED vars) => UNCHANGED writers
  BY DEF Observe, vars
<1> QED BY <1>1, <1>2, WriteKeepsDisk DEF Next

\* Nobody has written anything yet.
LEMMA InitWritable == Init => Writable
PROOF
  BY OthersAssumption DEF Init, Writable, Trace

\* A step of the writers is one that DoubleCollect allows of anybody.
LEMMA StepsAreCollectors ==
  Writable /\ [Next]_vars => [Results!Next]_(Results!vars)
PROOF
<1> SUFFICES ASSUME Writable, [Next]_vars PROVE [Results!Next]_(Results!vars)
  OBVIOUS
<1>1. CASE Write
  <2>1. IsDisk(disk)'
    BY <1>1, WriteKeepsDisk, DiskIsDisk, PTL
  <2>2. Beside
    BY <1>1 DEF Write, BeginTransaction, Announce, DiscardPending, Advance, MakeDirectory,
       ChangePath, PruneDirectory, RemoveJournal, Edit
  <2>3. Results!IsDisk(disk)'
    BY <2>1
    DEF IsDisk, Locations, Last, Probes, Looks, StateRoot, JournalKind, Journal, PendingKind,
        Pending, Names, Paths, Mode, Content,
        Results!IsDisk, Results!Locations, Results!Last, Results!Probes, Results!Looks,
        Results!StateRoot, Results!JournalKind, Results!Journal, Results!PendingKind,
        Results!Pending, Results!Names, Results!Paths, Results!Mode, Results!Content
  <2>4. Results!Watch /\ UNCHANGED Results!collector
    BY <2>2
    DEF Beside, observer, Results!collector, Collector!Watch, Results!Watch,
        Collector!Locations, Collector!Last, Collector!Looks, Collector!JournalKind,
        Collector!Journal, Collector!PendingKind, Collector!Pending, Collector!Names,
        Collector!Paths, Collector!Mode, Collector!Content,
        Results!Locations, Results!Last, Results!Looks, Results!JournalKind,
        Results!Journal, Results!PendingKind, Results!Pending, Results!Names,
        Results!Paths, Results!Mode, Results!Content
  <2> QED BY <2>3, <2>4 DEF Results!Next, Results!Disturb
<1>2. CASE Observe
  <2>1. Results!Collect
    BY <1>2
    DEF Observe,
        Collector!Collect, Collector!Read, Collector!ReadFails, Collector!EndAdvisory,
        Collector!EndFirst, Collector!EndEqual, Collector!Retry, Collector!GiveUp,
        Collector!Collecting, Collector!PassEnds, Collector!Vanished,
        Collector!Disagree, Collector!Blank, Collector!Last, Collector!Probes,
        Collector!Looks, Collector!Locations, Collector!StateRoot,
        Collector!JournalKind, Collector!Journal, Collector!PendingKind,
        Collector!Pending, Collector!Names, Collector!Paths, Collector!Mode,
        Collector!Content, Collector!witness, Results!Collect, Results!Read,
        Results!ReadFails, Results!EndAdvisory, Results!EndFirst, Results!EndEqual,
        Results!Retry, Results!GiveUp, Results!Collecting, Results!PassEnds,
        Results!Vanished, Results!Disagree, Results!Blank, Results!Last, Results!Probes,
        Results!Looks, Results!Locations, Results!StateRoot, Results!JournalKind,
        Results!Journal, Results!PendingKind, Results!Pending, Results!Names,
        Results!Paths, Results!Mode, Results!Content, Results!witness
  <2> QED BY <2>1 DEF Results!Next
<1>3. CASE UNCHANGED vars
  <2>1. UNCHANGED disk
    BY <1>3 DEF vars, writers, disk, PathContent, PathMode, PlannedPath
  <2> QED BY <1>3, <2>1 DEF vars, observer, Results!vars, Results!collector, Results!witness
<1> QED BY <1>1, <1>2, <1>3 DEF Next

-----------------------------------------------------------------------------
(* Theorems.                                                                *)

\* The writers keep their domains, whatever the observer does.
LEMMA AlwaysWritable == Spec => []Writable
PROOF
  BY InitWritable, StepWritable, PTL DEF Spec

(***************************************************************************)
(* The observer beside the transactions and the adopter is an observer     *)
(* beside somebody: what the detailed module adds is a behaviour of        *)
(* DoubleCollect.                                                          *)
(***************************************************************************)
THEOREM ImplementsCollector == Spec => Results!Spec
PROOF
<1>1. Init => Results!Init
  BY
  DEF Init,
      Collector!Init, Collector!Blank, Collector!IsDisk, Collector!Looks,
      Collector!Probes, Collector!Locations, Collector!Last, Collector!StateRoot,
      Collector!JournalKind, Collector!Journal, Collector!PendingKind,
      Collector!Pending, Collector!Names, Collector!Paths, Collector!Mode,
      Collector!Content, Results!Init, Results!Blank, Results!IsDisk, Results!Looks,
      Results!Probes, Results!Locations, Results!Last, Results!StateRoot,
      Results!JournalKind, Results!Journal, Results!PendingKind, Results!Pending,
      Results!Names, Results!Paths, Results!Mode, Results!Content
<1>2. Writable /\ [Next]_vars => [Results!Next]_(Results!vars)
  BY StepsAreCollectors
<1> QED BY <1>1, <1>2, AlwaysWritable, PTL DEF Spec, Results!Spec

\* The disk and what has been read of it are in their domains.
THEOREM TypeCorrect == Spec => []TypeOK
PROOF
<1>1. Results!Spec => []Results!Inv
  BY Results!Invariance, AttemptsAssumption, SizeAssumption
<1>2. Writable /\ Results!Inv => TypeOK
  <2> SUFFICES ASSUME Writable, Results!Inv PROVE TypeOK
    OBVIOUS
  <2>1. IsDisk(disk)
    BY DiskIsDisk
  <2>2. /\ status \in {"collecting", "ok", "PathMissing", "ConcurrentTargetChange"}
        /\ attempt \in 1 .. MaxAttempts /\ pass \in {1, 2} /\ at \in 1 .. Last + 1
        /\ DOMAIN cap = Locations /\ DOMAIN first = Locations
        /\ changes \in 0 .. attempt
    BY DEF Results!Inv, Results!Typed, Results!WellRead, Results!Last, Results!Locations,
       Last, Locations
  <2> QED BY <2>1, <2>2 DEF Writable, TypeOK
<1> QED BY <1>1, <1>2, AlwaysWritable, ImplementsCollector, PTL

\* A coherent observation existed, whatever the other process and the adopter
\* do, for every number of paths, attempts, transactions and edits.
THEOREM CoherentMeansExisted == Spec => []ReturnedExisted
PROOF
<1>1. Results!ReturnedExisted => ReturnedExisted
  BY DEF ReturnedExisted, Collector!ReturnedExisted, Results!ReturnedExisted
<1>2. Results!Spec => []Results!ReturnedExisted
  BY Results!CoherentMeansExisted, AttemptsAssumption, SizeAssumption
<1> QED BY <1>1, <1>2, ImplementsCollector, PTL

\* An observation beside them is refused only for changes they made.
THEOREM RefusalsAreReal == Spec => []RefusalIsReal
PROOF
<1>1. Results!RefusalIsReal => RefusalIsReal
  BY DEF RefusalIsReal, Collector!RefusalIsReal, Results!RefusalIsReal
<1>2. Results!Spec => []Results!RefusalIsReal
  BY Results!RefusalsAreReal, AttemptsAssumption, SizeAssumption
<1> QED BY <1>1, <1>2, ImplementsCollector, PTL

-----------------------------------------------------------------------------
(* The project that is returned without a journal existed.                  *)

\* A transaction that left a trace during the attempt is over, and no other
\* one has left any.
Done == met = 1 /\ ~ Trace

\* No transaction has announced itself during the attempt, nor had before it.
NothingAnnounced == met = 0 \/ (met = 1 /\ pending)

\* What a transaction leaves in the state root, and what is counted of it.
Journaled ==
  /\ pending \in BOOLEAN /\ directory \in BOOLEAN
  /\ phase = "none" => ~ directory
  /\ phase # "none" => ~ pending
  /\ met \in Nat
  /\ met = 0 => ~ Trace
  /\ own \in [OwnPaths -> 0 .. edits]

Present == [i \in 1 .. Planned |-> PlannedPath(i)]

\* What a pass that has read c below k knows of the adopter's paths: they are
\* there, and no content is newer than the last edit.
ReadOwn(c, k, e) ==
  \A i \in OwnPaths :
    /\ k > Names => i \in c[Names]
    /\ k > Mode(i) => c[Mode(i)] = "mode"
    /\ k > Content(i) => c[Content(i)] \in 0 .. e

\* A pass that has read c below k has read the planned paths as they are in p.
ReadPlanned(c, k, p) ==
  \A i \in 1 .. Planned :
    /\ k > Names => (i \in c[Names] <=> p[i] # Absent)
    /\ k > Mode(i) => c[Mode(i)] = p[i]
    /\ k > Content(i) => c[Content(i)] = p[i]

\* A journal that is there when it is looked for is there when it is read.
ReadForm(c, k) ==
  /\ k > Journal /\ c[Journal] = Absent => c[JournalKind] = Absent
  /\ k > Names => c[Names] \subseteq Paths

DirectorySeen(c, k) == k > StateRoot /\ c[StateRoot].directory
OrphanSeen(c, k) == DirectorySeen(c, k) /\ k > JournalKind /\ c[JournalKind] = Absent

\* What a pass that has read c below k knows.
ReadPass(c, k, e, p) ==
  /\ ReadOwn(c, k, e)
  /\ ReadForm(c, k)
  /\ NothingAnnounced => ReadPlanned(c, k, p)
  /\ DirectorySeen(c, k) => met >= 2 \/ Done \/ phase # "none"
  /\ OrphanSeen(c, k) => met >= 2 \/ Done

\* A directory without a journal, seen twice, is that of two transactions.
SeenTwice ==
  pass = 2 /\ DirectorySeen(cap, at) /\ OrphanSeen(first, Last + 1) => met >= 2

\* An edit since the first pass, which the second one must meet or has met.
OwnDiffers(i) ==
  /\ own[i] # first[Content(i)]
  /\ at > Content(i) => cap[Content(i)] # first[Content(i)]

\* So is any difference, once nothing changes any more.
Visible(l) ==
  /\ Looks(first, l)
  /\ disk[l] # first[l]
  /\ l < at /\ Looks(cap, l) => cap[l] # first[l]

Missed == (\E i \in OwnPaths : OwnDiffers(i)) \/ (Done /\ \E l \in Names .. Last : Visible(l))

\* If the tree was not what the first pass read when the second one found no
\* journal, then a difference is left for the second one to meet.
Differs ==
  pass = 2 /\ at > JournalKind /\ cap[JournalKind] = Absent /\ met <= 1 /\ ~ wasThere => Missed

Ended == status = "ok" /\ coherent => pass = 2 /\ at = Last + 1 /\ cap = first

Account ==
  /\ Journaled
  /\ ReadPass(cap, at, edits, Present)
  /\ pass = 2 => ReadPass(first, Last + 1, edits, Present)
  /\ SeenTwice /\ Differs /\ Ended

\* What a pass may have read, from DoubleCollect.
Passes ==
  /\ at \in 1 .. Last + 1 /\ pass \in {1, 2}
  /\ DOMAIN cap = Locations /\ DOMAIN first = Locations
  /\ \A l \in Locations : ~ Looks(first, l) => first[l] = Absent

\* The locations of the disk are those of DoubleCollect.
LEMMA LocationsAgree ==
  /\ Locations = Results!Locations /\ Last = Results!Last
  /\ \A c, l : Looks(c, l) <=> Results!Looks(c, l)
PROOF
  BY DEF Locations, Last, Looks, JournalKind, Journal, PendingKind, Pending, Names, Paths, Mode,
         Content, Results!Locations, Results!Last, Results!Looks, Results!JournalKind,
         Results!Journal, Results!PendingKind, Results!Pending, Results!Names, Results!Paths,
         Results!Mode, Results!Content

\* The invariant of DoubleCollect says what a pass may have read.
LEMMA InvGivesPasses == Results!Inv => Passes
PROOF
  BY LocationsAgree DEF Passes, Results!Inv, Results!Typed, Results!WellRead

\* What one step of the observer does to its state: it reads a location, ends,
\* turns to the second pass, or starts a new attempt.
Reads ==
  /\ status = "collecting" /\ at <= Last
  /\ at \notin Probes /\ Looks(cap, at) => disk[at] # Absent
  /\ cap' = [cap EXCEPT ![at] = IF Looks(cap, at) THEN disk[at] ELSE Absent]
  /\ at' = at + 1
  /\ UNCHANGED <<coherent, status, attempt, pass, first>>

Ends ==
  /\ at # StateRoot /\ at # JournalKind
  /\ status' = "ok" /\ coherent => pass = 2 /\ cap = first /\ at = Last + 1
  /\ UNCHANGED <<coherent, attempt, pass, at, cap, first>>

TurnsBack ==
  /\ pass = 1 /\ at = Last + 1 /\ status = "collecting"
  /\ first' = cap /\ pass' = 2 /\ at' = 1
  /\ UNCHANGED <<coherent, status, attempt>>

StartsAgain ==
  /\ status = "collecting"
  /\ attempt' # attempt /\ pass' = 1 /\ at' = 1
  /\ UNCHANGED <<coherent, status>>

\* Every step of the observer is one of these four.
LEMMA ObserverSteps ==
  ASSUME Observe, Passes, attempt \in Nat
  PROVE  Reads \/ Ends \/ TurnsBack \/ StartsAgain
PROOF
<1>0. Last + 1 # StateRoot /\ Last + 1 # JournalKind
  BY SizeAssumption DEF Last, StateRoot, JournalKind
<1>1. Collector!Collect
  BY DEF Observe
<1>2. Collector!Last = Last /\ Collector!Probes = Probes /\ Collector!Looks(cap, at) = Looks(cap, at)
  BY DEF Last, Probes, Looks, StateRoot, JournalKind, Journal, PendingKind, Pending, Names, Paths,
         Mode, Content, Collector!Last, Collector!Probes, Collector!Looks, Collector!StateRoot,
         Collector!JournalKind, Collector!Journal, Collector!PendingKind, Collector!Pending,
         Collector!Names, Collector!Paths, Collector!Mode, Collector!Content
<1>3. CASE Collector!Read
  BY <1>2, <1>3 DEF Collector!Read, Collector!Vanished, Collector!Collecting, Reads
<1>4. CASE Collector!ReadFails
  <2>1. StateRoot \in Probes /\ JournalKind \in Probes
    BY DEF Probes
  <2> QED BY <1>2, <1>4, <2>1 DEF Collector!ReadFails, Collector!Vanished, Ends
<1>5. CASE Collector!EndAdvisory
  BY <1>0, <1>2, <1>5 DEF Collector!EndAdvisory, Collector!PassEnds, Ends
<1>6. CASE Collector!EndFirst
  BY <1>2, <1>6 DEF Collector!EndFirst, Collector!PassEnds, Collector!Collecting, TurnsBack
<1>7. CASE Collector!EndEqual
  BY <1>0, <1>2, <1>7 DEF Collector!EndEqual, Collector!PassEnds, Ends
<1>8. CASE Collector!Retry
  BY <1>8 DEF Collector!Retry, Collector!Disagree, Collector!PassEnds, Collector!Collecting, StartsAgain
<1>9. CASE Collector!GiveUp
  BY <1>0, <1>2, <1>9 DEF Collector!GiveUp, Collector!Disagree, Collector!PassEnds, Ends
<1> QED BY <1>1, <1>3, <1>4, <1>5, <1>6, <1>7, <1>8, <1>9 DEF Collector!Collect

\* The observer changes nothing of what the writers have.
LEMMA ObserverWritesNothing ==
  ASSUME Observe
  PROVE  /\ UNCHANGED writers /\ disk' = disk /\ Present' = Present
         /\ (Trace <=> Trace')
PROOF
  BY DEF Observe, writers, disk, Present, PathContent, PathMode, PlannedPath, Trace

\* What a writer does to what the passes know.
LEMMA WriteFacts ==
  ASSUME Writable, Journaled, Write
  PROVE  /\ Journaled'
         /\ UNCHANGED <<observer, wasThere>> /\ status = "collecting"
         /\ met' >= met /\ edits' \in Nat /\ edits' >= edits
         /\ met >= 2 \/ Done => met' >= 2 \/ Done'
         /\ met >= 2 \/ Done \/ phase # "none" => met' >= 2 \/ Done' \/ phase' # "none"
         /\ NothingAnnounced' => NothingAnnounced /\ UNCHANGED <<plan, target>>
         /\ Done /\ met' <= 1 => Done' /\ UNCHANGED <<plan, target>>
         /\ \A i \in OwnPaths : own'[i] = own[i] \/ own'[i] = edits + 1
PROOF
<1> USE DEF Journaled, Done, NothingAnnounced, Trace, Beside, Writable, Phases
<1>1. CASE BeginTransaction
  BY <1>1 DEF BeginTransaction
<1>2. CASE Announce
  <2>1. /\ pending /\ ~ pending' /\ pending' \in BOOLEAN /\ UNCHANGED directory
        /\ phase = "none" /\ phase' = "planned" /\ met # 0
    BY <1>2 DEF Announce, Contract!Announce, Contract!Move
  <2>2. Trace /\ Trace'
    BY <2>1
  <2> QED BY <1>2, <2>1, <2>2 DEF Announce, Contract!Announce, Contract!Move
<1>3. CASE DiscardPending
  <2>1. /\ pending /\ ~ pending' /\ pending' \in BOOLEAN /\ UNCHANGED <<directory, phase>>
        /\ phase = "none" /\ ~ directory /\ met # 0
    BY <1>3 DEF DiscardPending
  <2>2. Trace /\ ~ Trace'
    BY <2>1
  <2> QED BY <1>3, <2>1, <2>2 DEF DiscardPending
<1>4. CASE Advance
  BY <1>4 DEF Advance, Contract!Open, Contract!Abort, Contract!Commit, Contract!Move
<1>5. CASE MakeDirectory
  BY <1>5 DEF MakeDirectory
<1>6. CASE ChangePath
  BY <1>6 DEF ChangePath, Contract!Change
<1>7. CASE PruneDirectory
  <2>1. /\ directory' = FALSE /\ directory' \in BOOLEAN /\ phase # "none" /\ UNCHANGED <<phase, pending>>
    BY <1>7 DEF PruneDirectory
  <2>2. Trace /\ Trace'
    BY <2>1
  <2> QED BY <1>7, <2>1, <2>2 DEF PruneDirectory
<1>8. CASE RemoveJournal
  BY <1>8 DEF RemoveJournal, Contract!Discard, Contract!Close, Contract!Move
<1>9. CASE Edit
  BY <1>9, OthersAssumption DEF Edit
<1> QED BY <1>1, <1>2, <1>3, <1>4, <1>5, <1>6, <1>7, <1>8, <1>9 DEF Write

\* A pass that has read nothing has read no path.
LEMMA NothingReadPlanned ==
  ASSUME NEW c
  PROVE  ReadOwn(c, 1, edits) /\ ReadPlanned(c, 1, Present)
PROOF
<1>1. \A i \in Paths : ~ (1 > Mode(i)) /\ ~ (1 > Content(i))
  BY SizeAssumption DEF Paths, Mode, Content
<1>2. \A i \in Int : i \in 1 .. Planned \/ i \in OwnPaths => i \in Paths
  BY PlannedAssumption, SizeAssumption DEF OwnPaths, Paths
<1>3. OwnPaths \subseteq Int /\ 1 .. Planned \subseteq Int
  BY PlannedAssumption DEF OwnPaths
<1> QED BY <1>1, <1>2, <1>3 DEF ReadOwn, ReadPlanned, Names

\* A pass that has read nothing knows nothing.
LEMMA NothingRead ==
  ASSUME NEW c
  PROVE  ReadPass(c, 1, edits, Present) /\ ~ DirectorySeen(c, 1)
PROOF
<1>1. ReadForm(c, 1) /\ ~ DirectorySeen(c, 1) /\ ~ OrphanSeen(c, 1)
  BY DEF ReadForm, DirectorySeen, OrphanSeen, StateRoot, Journal, Names
<1> QED BY <1>1, NothingReadPlanned DEF ReadPass

\* Before any read nothing has been read.
LEMMA InitAccount == Init => Account
PROOF
<1> SUFFICES ASSUME Init PROVE Account
  OBVIOUS
<1>1. at = 1 /\ pass = 1 /\ status = "collecting"
  BY DEF Init, Collector!Init
<1>2. Journaled
  <2>1. own \in [OwnPaths -> 0 .. edits]
    BY DEF Init
  <2>2. /\ pending = FALSE /\ directory = FALSE /\ met = 0 /\ phase = "none"
    BY DEF Init
  <2> QED BY <2>1, <2>2 DEF Journaled, Trace
<1>3. ReadPass(cap, at, edits, Present)
  BY <1>1, NothingRead
<1> QED BY <1>1, <1>2, <1>3 DEF Account, SeenTwice, Differs, Ended

\* What a pass knows survives what others write: an edit is newer than what was
\* read, and a planned path changes only after a transaction has announced itself.
LEMMA WriteKeepsPass ==
  ASSUME Writable, Journaled, Write, NEW c, NEW k, ReadPass(c, k, edits, Present)
  PROVE  /\ ReadOwn(c, k, edits') /\ ReadForm(c, k)
         /\ NothingAnnounced' => ReadPlanned(c, k, Present')
         /\ DirectorySeen(c, k) => met' >= 2 \/ Done' \/ phase' # "none"
         /\ OrphanSeen(c, k) => met' >= 2 \/ Done'
PROOF
<1>1. ReadOwn(c, k, edits')
  <2>1. \A x \in 0 .. edits : x \in 0 .. edits'
    BY WriteFacts, OthersAssumption DEF Writable
  <2> QED BY <2>1 DEF ReadPass, ReadOwn
<1>2. NothingAnnounced' => ReadPlanned(c, k, Present')
  <2> SUFFICES ASSUME NothingAnnounced' PROVE ReadPlanned(c, k, Present')
    OBVIOUS
  <2>1. NothingAnnounced /\ plan' = plan /\ target' = target
    BY WriteFacts
  <2>2. Present' = Present
    BY <2>1 DEF Present, PlannedPath
  <2> QED BY <2>1, <2>2 DEF ReadPass
<1> QED BY <1>1, <1>2, WriteFacts DEF ReadPass

\* And after a step.
LEMMA ReadsOfDiskNext ==
  /\ disk'[Names] = {i \in Paths : PathContent(i)' # Absent}
  /\ \A i \in Paths : disk'[Mode(i)] = PathMode(i)' /\ disk'[Content(i)] = PathContent(i)'
PROOF
<1>1. Names \in Locations
  BY SizeAssumption DEF Names, Locations, Last
<1> QED BY <1>1, PathLocations DEF disk, StateRoot, JournalKind, Journal, PendingKind, Pending, Names

\* A difference the second pass has to meet is not written away: an edit is
\* newer than all that was read, and nothing else is written any more.
LEMMA WriteKeepsMissed ==
  ASSUME Writable, Journaled, Write, Passes, ReadOwn(first, Last + 1, edits),
         Missed, met' <= 1
  PROVE  Missed'
PROOF
<1>0. UNCHANGED <<at, cap, first>>
  BY WriteFacts DEF observer
<1>1. ASSUME NEW i \in OwnPaths
      PROVE  /\ i \in Paths /\ first[Content(i)] \in 0 .. edits
             /\ own[i] # first[Content(i)] => own'[i] # first[Content(i)]
  <2>1. i \in Paths
    BY PlannedAssumption DEF OwnPaths, Paths
  <2>2. first[Content(i)] \in 0 .. edits /\ edits \in Nat
    BY <2>1, PathLocations, OthersAssumption, SizeAssumption
    DEF ReadOwn, Writable, Locations, Last, Content, Paths
  <2>3. first[Content(i)] # edits + 1
    BY <2>2
  <2> QED BY <2>1, <2>2, <2>3, WriteFacts
<1>2. CASE \E i \in OwnPaths : OwnDiffers(i)
  <2>1. PICK i \in OwnPaths : OwnDiffers(i)
    BY <1>2
  <2>2. OwnDiffers(i)'
    BY <1>0, <1>1, <2>1 DEF OwnDiffers
  <2>3. OwnPaths' = OwnPaths
    BY DEF OwnPaths
  <2> QED BY <2>2, <2>3 DEF Missed
<1>3. CASE Done /\ \E l \in Names .. Last : Visible(l)
  <2>1. PICK l \in Names .. Last : Visible(l)
    BY <1>3
  <2>2. Done' /\ plan' = plan /\ target' = target
    BY <1>3, WriteFacts
  <2>3. \A i \in Paths : i \notin OwnPaths =>
          PathMode(i)' = PathMode(i) /\ PathContent(i)' = PathContent(i)
    BY <2>2 DEF PathMode, PathContent, PlannedPath
  <2>4. \A i \in OwnPaths : PathMode(i)' = PathMode(i) /\ PathContent(i) = own[i] /\ PathContent(i)' = own'[i]
    BY DEF PathMode, PathContent
  <2>5. \A i \in Paths : PathContent(i) = Absent <=> PathContent(i)' = Absent
    <3>1. Writable'
      BY WriteKeepsDisk
    <3>2. \A i \in OwnPaths : own[i] # Absent /\ own'[i] # Absent
      BY <3>1, AbsentAssumption, OthersAssumption DEF Writable, OwnPaths
    <3> QED BY <2>3, <2>4, <3>2
  <2>6. disk'[l] # first[l]
    <3>1. l \in Locations /\ disk[l] # first[l]
      BY <2>1, SizeAssumption DEF Locations, Names, Visible
    <3>2. CASE l = Names
      <4>1. disk'[Names] = disk[Names]
        BY <2>5, ReadsOfDisk, ReadsOfDiskNext
      <4> QED BY <3>1, <3>2, <4>1
    <3>3. CASE \E i \in Paths : l = Mode(i)
      BY <2>3, <2>4, <3>1, <3>3, ReadsOfDisk, ReadsOfDiskNext
    <3>4. CASE \E i \in Paths : l = Content(i)
      <4>1. PICK i \in Paths : l = Content(i)
        BY <3>4
      <4>2. disk[l] = PathContent(i) /\ disk'[l] = PathContent(i)'
        BY <4>1, ReadsOfDisk, ReadsOfDiskNext
      <4> QED BY <1>1, <2>3, <2>4, <3>1, <4>1, <4>2
    <3>5. l = Names \/ \E i \in Paths : l = Mode(i) \/ l = Content(i)
      BY <2>1, <3>1, PlacesHere
      DEF Probes, StateRoot, JournalKind, Journal, PendingKind, Pending, Names
    <3> QED BY <3>2, <3>3, <3>4, <3>5
  <2>7. Visible(l)'
    BY <1>0, <2>1, <2>6 DEF Visible, Looks
  <2> QED BY <2>2, <2>7 DEF Missed
<1> QED BY <1>2, <1>3 DEF Missed

\* A write of the others keeps the account of what the passes know.
LEMMA WriteAccount == Writable /\ Passes /\ Account /\ Write => Account'
PROOF
<1> SUFFICES ASSUME Writable, Passes, Account, Write PROVE Account'
  OBVIOUS
<1>0. /\ UNCHANGED <<at, cap, first, pass, status, coherent, wasThere>>
      /\ Journaled /\ Journaled' /\ status = "collecting"
      /\ ReadPass(cap, at, edits, Present)
      /\ pass = 2 => ReadPass(first, Last + 1, edits, Present)
      /\ met \in Nat /\ met' \in Nat /\ met' >= met
  BY WriteFacts DEF Account, observer, Journaled
<1>1. ReadPass(cap, at, edits, Present)'
  BY <1>0, WriteKeepsPass DEF ReadPass, ReadOwn, ReadForm, ReadPlanned, DirectorySeen, OrphanSeen, OwnPaths
<1>2. pass' = 2 => ReadPass(first, Last + 1, edits, Present)'
  BY <1>0, WriteKeepsPass DEF ReadPass, ReadOwn, ReadForm, ReadPlanned, DirectorySeen, OrphanSeen, OwnPaths
<1>3. SeenTwice'
  BY <1>0 DEF Account, SeenTwice, DirectorySeen, OrphanSeen
<1>4. Differs'
  <2> SUFFICES ASSUME pass = 2, at > JournalKind, cap[JournalKind] = Absent, met' <= 1, ~ wasThere
               PROVE  Missed'
    BY <1>0 DEF Differs
  <2>1. Missed
    BY <1>0 DEF Account, Differs
  <2> QED BY <1>0, <2>1, WriteKeepsMissed DEF ReadPass
<1>5. Ended'
  BY <1>0 DEF Ended
<1> QED BY <1>0, <1>1, <1>2, <1>3, <1>4, <1>5 DEF Account

\* What a read reads, and what it leaves.
LEMMA ReadFacts ==
  ASSUME Passes, Reads
  PROVE  /\ at \in Locations
         /\ at' \in Int
         /\ \A l \in Locations : l # at => cap'[l] = cap[l]
         /\ cap'[at] = IF Looks(cap, at) THEN disk[at] ELSE Absent
         /\ \A l \in Locations : at' > l <=> at > l \/ at = l
         /\ \A l \in Locations : ~ (at > l /\ at = l)
PROOF
<1>1. at \in Locations /\ at \in Int
  BY SizeAssumption DEF Passes, Reads, Locations, Last
<1>2. \A l \in Locations : (at + 1 > l <=> at > l \/ at = l) /\ ~ (at > l /\ at = l)
  BY <1>1 DEF Locations
<1> QED BY <1>1, <1>2 DEF Passes, Reads

\* The locations of a path, and when a pass looks at them.
LEMMA PathLooks ==
  ASSUME NEW c, NEW i \in Paths
  PROVE  /\ Looks(c, Names) /\ Names \in Locations
         /\ Looks(c, Mode(i)) <=> i \in c[Names]
         /\ Looks(c, Content(i)) <=> c[Mode(i)] # Absent
         /\ Content(i) > Mode(i) /\ Mode(i) > Names
         /\ Mode(i) \in Locations /\ Content(i) \in Locations
         /\ Mode(i) # Names /\ Content(i) # Names /\ Mode(i) # Content(i)
         /\ \A k \in Int : (k > Content(i) => k > Mode(i)) /\ (k > Mode(i) => k > Names)
PROOF
  BY SizeAssumption DEF Looks, Journal, Pending, Paths, Mode, Content, Names, Locations, Last

\* Every pass looks at the listings and at the files of the state root.
LEMMA ProbesAreRead ==
  ASSUME NEW c, NEW l \in Probes
  PROVE  Looks(c, l)
PROOF
  BY SizeAssumption
  DEF Looks, Probes, Paths, Mode, Content, StateRoot, JournalKind, Journal, PendingKind, Pending,
      Names

\* The listing of the state root.
LEMMA RootOfDisk == disk[StateRoot].directory = directory
PROOF
<1>1. StateRoot \in Locations
  BY SizeAssumption DEF StateRoot, Locations, Last
<1>2. disk[StateRoot] = [journal |-> phase # "none", pending |-> pending, directory |-> directory]
  BY <1>1 DEF disk, StateRoot, JournalKind, Journal, PendingKind, Pending, Names
<1> QED BY <1>2

\* A read keeps what the pass knows: it reads the disk of its moment.
LEMMA ReadKeepsPass ==
  ASSUME Writable, Journaled, Passes, Reads, ReadPass(cap, at, edits, Present)
  PROVE  ReadPass(cap', at', edits, Present)
PROOF
<1>0. /\ at \in Locations /\ at \in Int
      /\ 1 .. 6 \subseteq Locations /\ JournalKind \in Locations /\ Journal \in Locations
      /\ StateRoot \in Locations /\ Names \in Locations
  BY ReadFacts, SizeAssumption
  DEF Locations, Last, StateRoot, JournalKind, Journal, Names
<1>1. ASSUME NEW i \in Paths
      PROVE  /\ at = Names => cap'[Names] = {j \in Paths : PathContent(j) # Absent}
             /\ at = Mode(i) => cap'[Mode(i)] = IF i \in cap[Names] THEN PathMode(i) ELSE Absent
             /\ at = Content(i) => cap'[Content(i)] = IF cap[Mode(i)] # Absent THEN PathContent(i) ELSE Absent
  BY ReadFacts, PathLooks, ReadsOfDisk
<1>2. \A i \in OwnPaths : i \in Paths
  BY PlannedAssumption, SizeAssumption DEF OwnPaths, Paths
<1>3. ReadOwn(cap', at', edits)
  <2> SUFFICES ASSUME NEW i \in OwnPaths
               PROVE  /\ at' > Names => i \in cap'[Names]
                      /\ at' > Mode(i) => cap'[Mode(i)] = "mode"
                      /\ at' > Content(i) => cap'[Content(i)] \in 0 .. edits
    BY DEF ReadOwn
  <2>1. PathMode(i) = "mode" /\ PathContent(i) = own[i] /\ own[i] \in 0 .. edits
    BY DEF PathMode, PathContent, Journaled
  <2>2. own[i] # Absent /\ "mode" # Absent
    BY AbsentAssumption, OthersAssumption DEF Writable
  <2>3. /\ at > Names => i \in cap[Names]
        /\ at > Mode(i) => cap[Mode(i)] = "mode"
        /\ at > Content(i) => cap[Content(i)] \in 0 .. edits
    BY DEF ReadPass, ReadOwn
  <2>4. at' > Names => i \in cap'[Names]
    BY <1>0, <1>1, <1>2, <2>1, <2>2, <2>3, ReadFacts
  <2>5. at' > Mode(i) => cap'[Mode(i)] = "mode"
    <3>1. at = Mode(i) => at > Names
      BY <1>2, PathLooks
    <3> QED BY <1>1, <1>2, <2>1, <2>3, <3>1, ReadFacts, PathLooks
  <2>6. at' > Content(i) => cap'[Content(i)] \in 0 .. edits
    <3>1. at = Content(i) => at > Mode(i)
      BY <1>2, PathLooks
    <3> QED BY <1>1, <1>2, <2>1, <2>2, <2>3, <3>1, ReadFacts, PathLooks
  <2> QED BY <2>4, <2>5, <2>6
<1>4. ReadPlanned(cap, at, Present) => ReadPlanned(cap', at', Present)
  <2> SUFFICES ASSUME ReadPlanned(cap, at, Present), NEW i \in 1 .. Planned
               PROVE  /\ at' > Names => (i \in cap'[Names] <=> Present[i] # Absent)
                      /\ at' > Mode(i) => cap'[Mode(i)] = Present[i]
                      /\ at' > Content(i) => cap'[Content(i)] = Present[i]
    BY DEF ReadPlanned
  <2>1. i \in Paths /\ PathMode(i) = Present[i] /\ PathContent(i) = Present[i]
    BY PlannedAssumption, SizeAssumption DEF Paths, OwnPaths, PathMode, PathContent, Present
  <2>2. /\ at > Names => (i \in cap[Names] <=> Present[i] # Absent)
        /\ at > Mode(i) => cap[Mode(i)] = Present[i]
        /\ at > Content(i) => cap[Content(i)] = Present[i]
    BY DEF ReadPlanned
  <2>3. at' > Names => (i \in cap'[Names] <=> Present[i] # Absent)
    BY <1>0, <1>1, <2>1, <2>2, ReadFacts
  <2>4. at' > Mode(i) => cap'[Mode(i)] = Present[i]
    <3>1. at = Mode(i) => at > Names
      BY <2>1, PathLooks
    <3> QED BY <1>1, <2>1, <2>2, <3>1, ReadFacts, PathLooks
  <2>5. at' > Content(i) => cap'[Content(i)] = Present[i]
    <3>1. at = Content(i) => at > Mode(i)
      BY <2>1, PathLooks
    <3> QED BY <1>1, <2>1, <2>2, <3>1, ReadFacts, PathLooks
  <2> QED BY <2>3, <2>4, <2>5
<1>5. ReadForm(cap', at')
  <2>1. at' > Journal /\ cap'[Journal] = Absent => cap'[JournalKind] = Absent
    <3>1. JournalKind # Journal /\ Journal \notin Probes
      BY DEF JournalKind, Journal, Probes, StateRoot, PendingKind, Names
    <3>2. cap'[JournalKind] = cap[JournalKind] \/ at = JournalKind
      BY <1>0, ReadFacts
    <3>3. at = JournalKind => ~ (at' > Journal)
      BY DEF Reads, JournalKind, Journal
    <3>4. Looks(cap, Journal) <=> cap[JournalKind] # Absent
      BY SizeAssumption DEF Looks, Journal, Pending, Paths, Mode, Content
    <3>5. at = Journal /\ Looks(cap, at) => disk[at] # Absent
      BY <3>1 DEF Reads
    <3>6. at > Journal /\ cap[Journal] = Absent => cap[JournalKind] = Absent
      BY DEF ReadPass, ReadForm
    <3> QED BY <1>0, <3>1, <3>2, <3>3, <3>4, <3>5, <3>6, ReadFacts
  <2>2. at' > Names => cap'[Names] \subseteq Paths
    <3>1. at > Names => cap[Names] \subseteq Paths
      BY DEF ReadPass, ReadForm
    <3>2. at = Names => cap'[Names] = disk[Names]
      BY ReadFacts, ProbesAreRead DEF Probes
    <3> QED BY <1>0, <3>1, <3>2, ReadFacts, ReadsOfDisk
  <2> QED BY <2>1, <2>2 DEF ReadForm
<1>6. DirectorySeen(cap', at') => met >= 2 \/ Done \/ phase # "none"
  <2>1. at = StateRoot => cap'[StateRoot].directory = directory
    BY ReadFacts, ProbesAreRead, RootOfDisk DEF Probes
  <2>2. directory => phase # "none"
    BY DEF Journaled
  <2>3. DirectorySeen(cap, at) => met >= 2 \/ Done \/ phase # "none"
    BY DEF ReadPass
  <2> QED BY <1>0, <2>1, <2>2, <2>3, ReadFacts DEF DirectorySeen
<1>7. OrphanSeen(cap', at') => met >= 2 \/ Done
  <2> SUFFICES ASSUME OrphanSeen(cap', at') PROVE met >= 2 \/ Done
    OBVIOUS
  <2>1. CASE at = JournalKind
    <3>1. cap'[JournalKind] = disk[JournalKind]
      BY <2>1, ReadFacts, ProbesAreRead DEF Probes
    <3>2. phase = "none"
      BY <3>1, ReadsOfDisk, AbsentAssumption DEF OrphanSeen
    <3> QED BY <1>6, <3>2 DEF OrphanSeen
  <2>2. CASE at # JournalKind
    <3>1. at > JournalKind /\ cap'[JournalKind] = cap[JournalKind]
      BY <1>0, <2>2, ReadFacts DEF OrphanSeen
    <3>2. cap'[StateRoot] = cap[StateRoot] /\ at > StateRoot
      BY <1>0, <3>1, ReadFacts DEF StateRoot, JournalKind
    <3>3. OrphanSeen(cap, at)
      BY <3>1, <3>2 DEF OrphanSeen, DirectorySeen
    <3> QED BY <3>3 DEF ReadPass
  <2> QED BY <2>1, <2>2
<1> QED BY <1>3, <1>4, <1>5, <1>6, <1>7 DEF ReadPass

\* If the disk agrees with all of the tree that the first pass looked at, the
\* tree is what the first pass read.
LEMMA TreeAgreement ==
  ASSUME Writable, Passes, \A l \in Names .. Last : Looks(first, l) => disk[l] = first[l]
  PROVE  SameTree(disk, first)
PROOF
<1>0. \A l \in Names .. Last : l \in Locations
  BY SizeAssumption DEF Names, Last, Locations
<1>1. \A l \in Locations \ Probes : Looks(disk, l) <=> disk[l] # Absent
  BY DiskIsDisk DEF IsDisk
<1>2. Names \in Names .. Last /\ Looks(first, Names)
  BY ProbesAreRead, SizeAssumption DEF Probes, Names, Last
<1>3. disk[Names] = first[Names]
  BY <1>2
<1>4. ASSUME NEW i \in Paths
      PROVE  disk[Mode(i)] = first[Mode(i)] /\ disk[Content(i)] = first[Content(i)]
  <2>1. Mode(i) \in Names .. Last /\ Content(i) \in Names .. Last
    BY SizeAssumption DEF Paths, Mode, Content, Names, Last
  <2>2. Mode(i) \in Locations \ Probes /\ Content(i) \in Locations \ Probes
    BY <1>0, <2>1, PathLooks
    DEF Probes, StateRoot, JournalKind, PendingKind, Names, Mode, Content, Paths
  <2>3. disk[Mode(i)] = first[Mode(i)]
    BY <1>1, <1>3, <2>1, <2>2, PathLooks DEF Passes
  <2>4. disk[Content(i)] = first[Content(i)]
    BY <1>1, <2>1, <2>2, <2>3, PathLooks DEF Passes
  <2> QED BY <2>3, <2>4
<1>5. ASSUME NEW l \in Names .. Last
      PROVE  l = Names \/ \E i \in Paths : l = Mode(i) \/ l = Content(i)
  BY <1>0, PlacesHere, SizeAssumption
  DEF Probes, StateRoot, JournalKind, Journal, PendingKind, Pending, Names
<1> QED BY <1>3, <1>4, <1>5 DEF SameTree

\* While no transaction has announced itself only the adopter can have changed
\* the tree, and the content of one of his files.
LEMMA OnlyEditsDiffer ==
  ASSUME Writable, Passes, ReadOwn(first, Last + 1, edits), ReadPlanned(first, Last + 1, Present),
         ReadForm(first, Last + 1), \A i \in OwnPaths : own[i] = first[Content(i)]
  PROVE  SameTree(disk, first)
PROOF
<1>1. ASSUME NEW i \in Paths
      PROVE  /\ i \in first[Names] <=> PathContent(i) # Absent
             /\ first[Mode(i)] = PathMode(i) /\ first[Content(i)] = PathContent(i)
  <2>1. Last + 1 > Mode(i) /\ Last + 1 > Content(i) /\ Last + 1 > Names
    BY SizeAssumption DEF Paths, Last, Mode, Content, Names
  <2>2. CASE i \in OwnPaths
    <3>1. own[i] # Absent
      BY <2>2, AbsentAssumption, OthersAssumption DEF Writable
    <3> QED BY <2>1, <2>2, <3>1 DEF ReadOwn, PathMode, PathContent
  <2>3. CASE i \notin OwnPaths
    <3>1. i \in 1 .. Planned
      BY <2>3, PlannedAssumption, SizeAssumption DEF OwnPaths, Paths
    <3> QED BY <2>1, <2>3, <3>1 DEF ReadPlanned, Present, PathMode, PathContent
  <2> QED BY <2>2, <2>3
<1>2. disk[Names] = first[Names]
  <2>1. first[Names] \subseteq Paths
    BY SizeAssumption DEF ReadForm, Names, Last
  <2> QED BY <1>1, <2>1, ReadsOfDisk
<1>3. ASSUME NEW l \in Names .. Last PROVE disk[l] = first[l]
  <2>1. l \in Locations
    BY SizeAssumption DEF Names, Last, Locations
  <2>2. l = Names \/ \E i \in Paths : l = Mode(i) \/ l = Content(i)
    BY <2>1, PlacesHere, SizeAssumption
    DEF Probes, StateRoot, JournalKind, Journal, PendingKind, Pending, Names
  <2> QED BY <1>1, <1>2, <2>2, ReadsOfDisk
<1> QED BY <1>3 DEF SameTree

\* When the second pass finds no journal and the tree is not what the first one
\* read, a difference is left to meet.
LEMMA DifferenceIsMissed ==
  ASSUME Writable, Journaled, Passes, pass = 2, ReadPass(first, Last + 1, edits, Present),
         phase = "none", met <= 1, ~ SameTree(disk, first)
  PROVE  \/ \E i \in OwnPaths : own[i] # first[Content(i)]
         \/ Done /\ \E l \in Names .. Last : Looks(first, l) /\ disk[l] # first[l]
PROOF
<1>1. CASE Done
  BY <1>1, TreeAgreement
<1>2. CASE ~ Done
  <2>1. met \in Nat /\ ~ directory
    BY DEF Journaled
  <2>2. met = 0 \/ met = 1
    BY <2>1
  <2>3. NothingAnnounced
    BY <1>2, <2>1, <2>2 DEF NothingAnnounced, Done, Trace
  <2> QED BY <2>3, OnlyEditsDiffer DEF ReadPass
<1> QED BY <1>1, <1>2

\* What a pass looks at does not depend on what it reads later.
LEMMA ReadKeepsLooks ==
  ASSUME Passes, Reads, NEW l \in Locations, l <= at
  PROVE  Looks(cap', l) <=> Looks(cap, l)
PROOF
<1>1. \A k \in Locations : k < l => cap'[k] = cap[k]
  BY ReadFacts DEF Locations
<1>2. l \in Results!Locations /\ \A k \in Results!Locations : k < l => cap'[k] = cap[k]
  BY <1>1, LocationsAgree
<1>3. Results!Looks(cap', l) <=> Results!Looks(cap, l)
  BY <1>2, Results!LooksOnEarlier, AttemptsAssumption, SizeAssumption
<1> QED BY <1>3, LocationsAgree

\* A read keeps a difference, or meets it.
LEMMA ReadKeepsMissed ==
  ASSUME Writable, Passes, Reads, UNCHANGED writers, met' = met,
         ReadOwn(cap, at, edits), Missed
  PROVE  Missed'
PROOF
<1>0. /\ first' = first /\ disk' = disk /\ own' = own /\ (Done' <=> Done) /\ at \in Locations
  BY ReadFacts DEF Reads, writers, disk, PathContent, PathMode, PlannedPath, Done, Trace
<1>1. ASSUME NEW i \in OwnPaths, OwnDiffers(i) PROVE OwnDiffers(i)'
  <2>1. i \in Paths /\ Content(i) \in Locations
    BY PlannedAssumption, PathLocations DEF OwnPaths, Paths
  <2>2. ASSUME at' > Content(i) PROVE cap'[Content(i)] # first[Content(i)]
    <3>1. CASE at > Content(i)
      BY <1>1, <2>1, <3>1, ReadFacts DEF OwnDiffers
    <3>2. CASE at = Content(i)
      <4>1. cap[Mode(i)] = "mode"
        BY <2>1, <3>2, PathLooks DEF ReadOwn
      <4>2. Looks(cap, at)
        BY <2>1, <3>2, <4>1, PathLooks, AbsentAssumption
      <4>3. cap'[at] = own[i]
        BY <2>1, <3>2, <4>2, ReadFacts, ReadsOfDisk DEF PathContent
      <4> QED BY <1>1, <3>2, <4>3 DEF OwnDiffers
    <3> QED BY <2>1, <2>2, <3>1, <3>2, ReadFacts
  <2> QED BY <1>0, <1>1, <2>2 DEF OwnDiffers
<1>2. ASSUME NEW l \in Names .. Last, Visible(l) PROVE Visible(l)'
  <2>1. l \in Locations /\ l \in Int /\ at \in Int
    BY <1>0, SizeAssumption DEF Locations, Names, Last
  <2>2. ASSUME l < at', Looks(cap', l) PROVE cap'[l] # first[l]
    <3>1. l < at \/ l = at
      BY <2>1, <2>2, ReadFacts
    <3>2. Looks(cap, l)
      BY <2>1, <2>2, <3>1, ReadKeepsLooks
    <3>3. CASE l = at
      BY <1>2, <3>2, <3>3, ReadFacts DEF Visible
    <3>4. CASE l < at
      BY <1>2, <2>1, <3>2, <3>4, ReadFacts DEF Visible
    <3> QED BY <3>1, <3>3, <3>4
  <2> QED BY <1>0, <1>2, <2>2 DEF Visible, Looks
<1>3. OwnPaths' = OwnPaths
  BY DEF OwnPaths
<1> QED BY <1>0, <1>1, <1>2, <1>3 DEF Missed

\* A read of the observer keeps the account.
LEMMA ReadAccount ==
  ASSUME Writable, Passes, Account, Observe, Reads
  PROVE  Account'
PROOF
<1>0. /\ UNCHANGED writers /\ disk' = disk /\ Present' = Present /\ (Trace <=> Trace')
      /\ UNCHANGED <<coherent, status, attempt, pass, first>> /\ status = "collecting"
      /\ at' = at + 1 /\ at \in Locations /\ met' = met
      /\ wasThere' = IF at' = 1 THEN FALSE
                     ELSE IF pass = 2 /\ at = JournalKind THEN SameTree(disk, first) ELSE wasThere
  BY ObserverWritesNothing, ReadFacts DEF Reads, Observe
<1>1. /\ UNCHANGED <<phase, pending, directory, edits, own>> /\ (Done' <=> Done)
      /\ (NothingAnnounced' <=> NothingAnnounced) /\ met \in Nat
      /\ ReadPass(cap, at, edits, Present)
      /\ pass = 2 => ReadPass(first, Last + 1, edits, Present)
  BY <1>0 DEF writers, Done, NothingAnnounced, Account, Journaled
<1>2. Journaled'
  BY <1>0, <1>1 DEF Account, Journaled, OwnPaths
<1>3. ReadPass(cap, at, edits, Present)'
  <2>1. ReadPass(cap', at', edits, Present)
    BY <1>1, ReadKeepsPass DEF Account
  <2> QED BY <1>0, <1>1, <2>1
      DEF ReadPass, ReadOwn, ReadForm, ReadPlanned, DirectorySeen, OrphanSeen, OwnPaths
<1>4. pass' = 2 => ReadPass(first, Last + 1, edits, Present)'
  BY <1>0, <1>1 DEF ReadPass, ReadOwn, ReadForm, ReadPlanned, DirectorySeen, OrphanSeen, OwnPaths
<1>5. SeenTwice'
  <2> SUFFICES ASSUME pass = 2, DirectorySeen(cap', at'), OrphanSeen(first, Last + 1)
               PROVE  met >= 2
    BY <1>0 DEF SeenTwice, DirectorySeen, OrphanSeen
  <2>1. CASE at = StateRoot
    <3>1. cap'[StateRoot].directory = directory
      BY <2>1, ReadFacts, ProbesAreRead, RootOfDisk DEF Probes
    <3>2. Trace
      BY <3>1 DEF DirectorySeen, Trace
    <3> QED BY <1>1, <3>2 DEF ReadPass, Done
  <2>2. CASE at # StateRoot
    <3>1. StateRoot \in Locations
      BY SizeAssumption DEF StateRoot, Locations, Last
    <3>2. DirectorySeen(cap, at)
      BY <2>2, <3>1, ReadFacts DEF DirectorySeen
    <3> QED BY <3>2 DEF Account, SeenTwice
  <2> QED BY <2>1, <2>2
<1>6. Differs'
  <2> SUFFICES ASSUME pass = 2, at' > JournalKind, cap'[JournalKind] = Absent, met <= 1, ~ wasThere'
               PROVE  Missed'
    BY <1>0 DEF Differs
  <2>0. JournalKind \in Locations /\ at' # 1
    BY SizeAssumption DEF JournalKind, Locations, Last
  <2>1. CASE at = JournalKind
    <3>1. ~ SameTree(disk, first)
      BY <1>0, <2>0, <2>1
    <3>2. phase = "none"
      <4>1. cap'[JournalKind] = disk[JournalKind]
        BY <2>1, ReadFacts, ProbesAreRead DEF Probes
      <4> QED BY <4>1, ReadsOfDisk, AbsentAssumption
    <3>3. \/ \E i \in OwnPaths : own[i] # first[Content(i)]
          \/ Done /\ \E l \in Names .. Last : Looks(first, l) /\ disk[l] # first[l]
      BY <1>1, <3>1, <3>2, DifferenceIsMissed DEF Account
    <3>4. at' = 3
      BY <1>0, <2>1 DEF JournalKind
    <3>5. \A i \in OwnPaths : ~ (at' > Content(i))
      BY <3>4, PlannedAssumption, SizeAssumption DEF OwnPaths, Content
    <3>6. \A l \in Names .. Last : ~ (l < at')
      BY <3>4, SizeAssumption DEF Names, Last
    <3>7. CASE \E i \in OwnPaths : own[i] # first[Content(i)]
      <4>1. PICK i \in OwnPaths : own[i] # first[Content(i)]
        BY <3>7
      <4>2. OwnDiffers(i)'
        BY <1>0, <1>1, <3>5, <4>1 DEF OwnDiffers
      <4>3. OwnPaths' = OwnPaths
        BY DEF OwnPaths
      <4> QED BY <4>2, <4>3 DEF Missed
    <3>8. CASE Done /\ \E l \in Names .. Last : Looks(first, l) /\ disk[l] # first[l]
      <4>1. PICK l \in Names .. Last : Looks(first, l) /\ disk[l] # first[l]
        BY <3>8
      <4>2. Visible(l)'
        BY <1>0, <3>6, <4>1 DEF Visible, Looks
      <4> QED BY <1>1, <3>8, <4>2 DEF Missed
    <3> QED BY <3>3, <3>7, <3>8
  <2>2. CASE at # JournalKind
    <3>1. at > JournalKind /\ cap[JournalKind] = Absent /\ ~ wasThere
      BY <1>0, <2>0, <2>2, ReadFacts
    <3>2. Missed
      BY <3>1 DEF Account, Differs
    <3> QED BY <1>0, <1>1, <3>2, ReadKeepsMissed DEF ReadPass
  <2> QED BY <2>1, <2>2
<1>7. Ended'
  BY <1>0 DEF Ended
<1> QED BY <1>2, <1>3, <1>4, <1>5, <1>6, <1>7 DEF Account

\* An observation that is over, refused or not, knows what it knew.
LEMMA EndAccount ==
  ASSUME Passes, Account, Observe, Ends
  PROVE  Account'
PROOF
<1>0. /\ UNCHANGED writers /\ disk' = disk /\ Present' = Present /\ (Trace <=> Trace')
      /\ UNCHANGED <<coherent, attempt, pass, at, cap, first>> /\ met' = met /\ wasThere' = wasThere
      /\ status' = "ok" /\ coherent => pass = 2 /\ cap = first /\ at = Last + 1
  BY ObserverWritesNothing DEF Ends, Observe, StateRoot
<1>1. /\ UNCHANGED <<phase, pending, directory, edits, own>> /\ (Done' <=> Done)
      /\ (NothingAnnounced' <=> NothingAnnounced)
  BY <1>0 DEF writers, Done, NothingAnnounced
<1>2. Journaled'
  BY <1>0, <1>1 DEF Account, Journaled, OwnPaths
<1>3. ReadPass(cap, at, edits, Present)' /\ (pass' = 2 => ReadPass(first, Last + 1, edits, Present)')
  BY <1>0, <1>1
  DEF Account, ReadPass, ReadOwn, ReadForm, ReadPlanned, DirectorySeen, OrphanSeen, OwnPaths
<1>4. SeenTwice' /\ Ended'
  BY <1>0 DEF Account, SeenTwice, DirectorySeen, OrphanSeen, Ended
<1>5. Differs'
  BY <1>0, <1>1 DEF Account, Differs, Missed, OwnDiffers, Visible, Looks, OwnPaths
<1> QED BY <1>2, <1>3, <1>4, <1>5 DEF Account

\* The second pass begins with nothing read, and the first one is complete.
LEMMA TurnAccount ==
  ASSUME Passes, Account, Observe, TurnsBack
  PROVE  Account'
PROOF
<1>0. /\ UNCHANGED writers /\ disk' = disk /\ Present' = Present /\ (Trace <=> Trace')
      /\ status' = "collecting" /\ first' = cap /\ at = Last + 1 /\ pass' = 2 /\ at' = 1 /\ met' = met
  BY ObserverWritesNothing DEF TurnsBack, Observe
<1>1. /\ UNCHANGED <<phase, pending, directory, edits, own>> /\ (Done' <=> Done)
      /\ (NothingAnnounced' <=> NothingAnnounced)
  BY <1>0 DEF writers, Done, NothingAnnounced
<1>2. Journaled'
  BY <1>0, <1>1 DEF Account, Journaled, OwnPaths
<1>3. ReadPass(first, Last + 1, edits, Present)'
  BY <1>0, <1>1
  DEF Account, ReadPass, ReadOwn, ReadForm, ReadPlanned, DirectorySeen, OrphanSeen, OwnPaths
<1>4. ReadPass(cap', 1, edits, Present)
  BY NothingRead
<1>5. ReadPass(cap, at, edits, Present)'
  BY <1>0, <1>1, <1>4
  DEF ReadPass, ReadOwn, ReadForm, ReadPlanned, DirectorySeen, OrphanSeen, OwnPaths
<1>6. SeenTwice' /\ Differs' /\ Ended'
  BY <1>0 DEF SeenTwice, DirectorySeen, Differs, Ended, StateRoot, JournalKind
<1> QED BY <1>2, <1>3, <1>5, <1>6 DEF Account

\* A new attempt has read nothing, and counts the transaction it finds.
LEMMA RetryAccount ==
  ASSUME Passes, Account, Observe, StartsAgain
  PROVE  Account'
PROOF
<1>0. /\ UNCHANGED writers /\ Present' = Present /\ (Trace <=> Trace')
      /\ status' = "collecting" /\ pass' = 1 /\ at' = 1
      /\ met' = IF Trace THEN 1 ELSE 0
  BY ObserverWritesNothing DEF StartsAgain, Observe
<1>1. UNCHANGED <<phase, pending, directory, edits, own>>
  BY <1>0 DEF writers
<1>2. Journaled'
  BY <1>0, <1>1 DEF Account, Journaled, OwnPaths
<1>3. ReadPass(cap', 1, edits, Present) /\ ~ DirectorySeen(cap', 1)
  BY NothingRead
<1>4. ReadPlanned(cap', 1, Present)
  BY NothingReadPlanned
<1>5. ReadPass(cap, at, edits, Present)'
  BY <1>0, <1>1, <1>3, <1>4
  DEF ReadPass, ReadOwn, ReadForm, ReadPlanned, DirectorySeen, OrphanSeen, OwnPaths
<1>6. SeenTwice' /\ Differs' /\ Ended'
  BY <1>0 DEF SeenTwice, Differs, Ended
<1> QED BY <1>0, <1>2, <1>5, <1>6 DEF Account

\* Every step keeps the account.
LEMMA StepAccount ==
  Writable /\ Results!Inv /\ Account /\ [Next]_vars => Account'
PROOF
<1> SUFFICES ASSUME Writable, Results!Inv, Account, [Next]_vars PROVE Account'
  OBVIOUS
<1>0. Passes /\ attempt \in Nat
  BY InvGivesPasses, AttemptsAssumption DEF Results!Inv, Results!Typed
<1>1. CASE Write
  BY <1>0, <1>1, WriteAccount
<1>2. CASE Observe
  BY <1>0, <1>2, ObserverSteps, ReadAccount, EndAccount, TurnAccount, RetryAccount
<1>3. CASE UNCHANGED vars
  <2>1. UNCHANGED <<writers, observer, met, wasThere>> /\ disk' = disk /\ Present' = Present
    BY <1>3 DEF vars, writers, disk, Present, PathContent, PathMode, PlannedPath
  <2> QED BY <2>1
      DEF writers, observer, Account, Journaled, Trace, ReadPass, ReadOwn, ReadForm, ReadPlanned,
          DirectorySeen, OrphanSeen, OwnPaths, Done, NothingAnnounced, SeenTwice, Ended, Differs,
          Missed, OwnDiffers, Visible, Looks
<1> QED BY <1>1, <1>2, <1>3 DEF Next

\* With at most one transaction in the attempt, a project returned without a
\* journal is the one that was there when the second pass found none, and what
\* the transaction leaves in passing is not taken for orphaned state, for every
\* number of paths, attempts, transactions and edits.
THEOREM ReturnedProjectExisted == Spec => []ObservedProjectExisted
PROOF
<1>1. Account /\ Passes => ObservedProjectExisted
  <2> SUFFICES ASSUME Account, Passes, status = "ok", coherent, met <= 1
               PROVE  /\ Verdict(cap) # "OrphanTransactionState"
                      /\ Verdict(cap) = "NoJournal" => wasThere
    BY DEF ObservedProjectExisted
  <2>1. pass = 2 /\ at = Last + 1 /\ cap = first /\ met \in Nat
    BY DEF Account, Ended, Journaled
  <2>2. cap[Journal] = Absent => cap[JournalKind] = Absent
    BY <2>1, SizeAssumption DEF Account, ReadPass, ReadForm, Journal, Last
  <2>3. ASSUME Verdict(cap) = "OrphanTransactionState" PROVE FALSE
    <3>1. cap[Journal] = Absent /\ cap[StateRoot].directory
      BY <2>3 DEF Verdict
    <3>2. DirectorySeen(cap, at) /\ OrphanSeen(first, Last + 1)
      BY <2>1, <2>2, <3>1, SizeAssumption DEF DirectorySeen, OrphanSeen, StateRoot, JournalKind, Last
    <3> QED BY <2>1, <3>2 DEF Account, SeenTwice
  <2>4. ASSUME Verdict(cap) = "NoJournal", ~ wasThere PROVE FALSE
    <3>1. cap[JournalKind] = Absent
      BY <2>2, <2>4 DEF Verdict
    <3>2. at > JournalKind
      BY <2>1, SizeAssumption DEF JournalKind, Last
    <3>3. Missed
      BY <2>1, <2>4, <3>1, <3>2 DEF Account, Differs
    <3>4. \A i \in OwnPaths : ~ OwnDiffers(i)
      BY <2>1, PlannedAssumption, SizeAssumption DEF OwnDiffers, OwnPaths, Content, Last
    <3>5. \A l \in Names .. Last : ~ Visible(l)
      BY <2>1, SizeAssumption DEF Visible, Names, Last
    <3> QED BY <3>3, <3>4, <3>5 DEF Missed
  <2> QED BY <2>3, <2>4
<1>2. Results!Spec => []Results!Inv
  BY Results!Invariance, AttemptsAssumption, SizeAssumption
<1>3. Spec => []Account
  BY <1>2, InitAccount, StepAccount, AlwaysWritable, ImplementsCollector, PTL DEF Spec
<1> QED BY <1>1, <1>2, <1>3, InvGivesPasses, ImplementsCollector, PTL
=============================================================================
