----------------------- MODULE ProjectLifecycle_proofs -----------------------
(***************************************************************************)
(* The promises of the lifecycle commands, for every template, every       *)
(* number of processes and of edits.  Most of them follow from what a plan *)
(* compiled under the lock may contain; the invariant says that the state  *)
(* is one a plan can be compiled from, and what a command has checked      *)
(* before the lock.                                                        *)
(***************************************************************************)
EXTENDS ProjectLifecycle, PlanCompilation_proofs

CommandsAreChecked ==
  /\ DOMAIN commands = Processes
  /\ \A p \in Processes : commands[p] # Idle =>
       /\ commands[p].intent \in Intents
       /\ commands[p].intent.kind # "plan reconcile"
       /\ ContractHolds(commands[p].expected)

LifecycleInv == IsObservation(Observed) /\ CommandsAreChecked

-----------------------------------------------------------------------------
\* An accepted and compiled command leaves a manifest and well written paths.
LEMMA CandidateIsSound ==
  ASSUME NEW o, IsObservation(o), NEW i \in Intents, NEW plan \in Candidates(i, o)
  PROVE  plan.after \in Manifests /\ WellWritten(o.tree, plan.ops)
<1>1. Accepted(i, o) /\ plan \in Compile(i, o)
  BY DEF Candidates
<1>2. CASE i.kind = "apply"
  <2>1. /\ ApplyAccepted(o, i.leave) /\ plan \in CompileApply(o, i.selection, i.leave)
        /\ i.selection \in SUBSET Capabilities
    BY <1>1, <1>2, IntentAssumption DEF Accepted, Compile, InitialCandidates, IntentAssumption
  <2>. QED BY <2>1, ApplyRecords, ApplyIsWellWritten
<1>3. CASE i.kind = "adopt"
  <2>1. plan \in CompileAdopt(o, i.selection, i.collisions) /\ i.selection \in SUBSET Capabilities
    BY <1>1, <1>3, IntentAssumption DEF Compile, AdoptCandidates, IntentAssumption
  <2>. QED BY <2>1, AdoptRecords, AdoptIsWellWritten
<1>4. CASE i.kind = "add"
  <2>1. /\ AddAccepted(o, i.root) /\ plan \in CompileAdd(o, i.root, i.capabilities)
        /\ i.root \in {"own", "checkout"} /\ i.capabilities \in SUBSET Capabilities
    BY <1>1, <1>4, IntentAssumption DEF Accepted, Compile, LifecycleCandidates, IntentAssumption
  <2>2. Existing(o)
    BY <2>1 DEF AddAccepted, SourceSame, Comparable
  <2>. QED BY <2>1, <2>2, AddRecords, AddIsWellWritten
<1>5. CASE i.kind = "restore"
  <2>1. /\ RestoreAccepted(o, i.root) /\ plan \in CompileRestore(o, i.root, i.requested)
        /\ i.root \in {"own", "checkout"}
    BY <1>1, <1>5, IntentAssumption DEF Accepted, Compile, LifecycleCandidates, IntentAssumption
  <2>2. Existing(o)
    BY <2>1 DEF RestoreAccepted, SourceSame, Comparable
  <2>3. plan.after = o.manifest
    BY <2>1, <2>2, RestoreWrites
  <2>. QED BY <2>1, <2>2, <2>3, RestoreIsWellWritten DEF IsObservation
<1>6. CASE i.kind \in {"reconcile", "plan reconcile"}
  <2>1. ReconcileAccepted(o, "own") /\ plan \in CompileReconcile(o, "own", i.overwrite)
    BY <1>1, <1>6 DEF Accepted, Compile, LifecycleCandidates
  <2>. QED BY <2>1, ReconcileRecords, ReconcileIsWellWritten
<1>. QED BY <1>2, <1>3, <1>4, <1>5, <1>6, IntentAssumption DEF IntentAssumption

\* A well written plan turns a tree into a tree.
LEMMA OverlayIsTree ==
  ASSUME NEW t \in Trees, NEW plan, WellWritten(t, plan.ops)
  PROVE  Overlay(t, plan) \in Trees
BY DEF Trees, WellWritten, Overlay

\* A manifest of a command is not the absence of one.
LEMMA ManifestExists ==
  ASSUME NEW m \in Manifests
  PROVE  m # NoManifest
<1>1. m.generation # "none"
  BY DEF Manifests
<1>. QED BY <1>1 DEF NoManifest

-----------------------------------------------------------------------------
\* The installation of a plan: it is compiled from the tree of this very step.
LEMMA InstallFacts ==
  ASSUME LifecycleInv, NEW p \in Processes, Install(p)
  PROVE  \E plan \in Candidates(commands[p].intent, Observed) :
           /\ commands[p].intent \in Intents
           /\ commands[p].intent.kind # "plan reconcile"
           /\ ReceiptMatches(commands[p].intent, plan)
           /\ tree' = Overlay(tree, plan)
           /\ manifest' = plan.after
           /\ ContractHolds(tree')
<1>1. /\ commands[p].intent \in Intents
      /\ commands[p].intent.kind # "plan reconcile"
      /\ ContractHolds(tree')
  BY DEF Install, AsExpected, LifecycleInv, CommandsAreChecked
<1>2. Revalidated(commands[p])
  BY DEF Install
<1>3. PICK plan \in Candidates(commands[p].intent, Observed) :
        /\ ReceiptMatches(commands[p].intent, plan)
        /\ SameDigest(commands[p].plan, plan)
  BY <1>2 DEF Revalidated, RevalidateInitial, RevalidateLifecycle, ReceiptMatches
<1>. QED BY <1>1, <1>3 DEF Install, SameDigest

\* Before the lock a command takes its intent and its plan, and changes nothing
\* else (_execute_mutation, _execute_adoption, _execute_lifecycle).
LEMMA BeginHolds ==
  ASSUME NEW p, Begin(p)
  PROVE  /\ commands[p] = Idle
         /\ \E i \in Intents : \E plan \in Candidates(i, Observed) :
              /\ i.kind # "plan reconcile"
              /\ ContractHolds(Overlay(tree, plan))
              /\ commands' = [commands EXCEPT ![p] =
                   [intent |-> i, plan |-> plan, expected |-> Overlay(tree, plan)]]
         /\ UNCHANGED <<tree, manifest, version, checkout, receipts, edits, borrowed>>
BY DEF Begin, ExecuteMutation, ExecuteAdoption, ExecuteLifecycle, Asked, DriveTransaction

\* A command that finishes with a change installs: no other action does both.
LEMMA OnlyInstallInstalls ==
  ASSUME LifecycleInv, [Next]_vars, NEW p \in Processes, NEW kinds, Installs(p, kinds)
  PROVE  Install(p)
<1>. commands[p] # Idle /\ commands'[p] = Idle /\ (tree' # tree \/ manifest' # manifest)
  BY DEF Installs
<1>. DOMAIN commands = Processes
  BY DEF LifecycleInv, CommandsAreChecked
<1>1. CASE \E q \in Processes : Install(q)
  <2>1. PICK q \in Processes : Install(q)
    BY <1>1
  <2>2. q # p => commands'[p] = commands[p]
    BY <2>1 DEF Install
  <2>. QED BY <2>1, <2>2
<1>2. CASE \E q \in Processes : Begin(q) \/ GiveUp(q)
  BY <1>2, BeginHolds DEF GiveUp
<1>3. CASE PlanReconcile
  BY <1>3 DEF PlanReconcile
<1>4. CASE Edit \/ CopierUpdate \/ AdvanceCheckout
  BY <1>4 DEF Edit, CopierUpdate, AdvanceCheckout
<1>5. CASE UNCHANGED vars
  BY <1>5 DEF vars
<1>. QED BY <1>1, <1>2, <1>3, <1>4, <1>5 DEF Next

-----------------------------------------------------------------------------
\* A project before its first command can be observed.
LEMMA InitEstablishesInv == Init => LifecycleInv
<1>. SUFFICES ASSUME Init PROVE LifecycleInv
  OBVIOUS
<1>1. tree \in Trees /\ version \in Versions /\ checkout \in Versions
  BY ProjectAssumption DEF Init, ProjectAssumption
<1>2. IsObservation(Observed)
  BY <1>1 DEF Init, IsObservation, Observed, Existing
<1>3. CommandsAreChecked
  BY DEF Init, CommandsAreChecked
<1>. QED BY <1>2, <1>3 DEF LifecycleInv

\* An observation whose parts keep their types is an observation.
LEMMA TypedIsObservation ==
  ASSUME tree' \in Trees, manifest' = manifest \/ manifest' \in Manifests,
         version' \in Versions, checkout' \in Versions, LifecycleInv
  PROVE  IsObservation(Observed)'
BY DEF LifecycleInv, IsObservation, Observed, Existing

\* Every step leaves a state the next command can observe.
LEMMA StepPreservesInv == LifecycleInv /\ [Next]_vars => LifecycleInv'
<1>. SUFFICES ASSUME LifecycleInv, [Next]_vars PROVE LifecycleInv'
  OBVIOUS
<1>0. /\ tree \in Trees /\ version \in Versions /\ checkout \in Versions
      /\ DOMAIN commands = Processes
  BY DEF LifecycleInv, IsObservation, Observed, CommandsAreChecked
<1>1. ASSUME NEW p \in Processes, Begin(p) PROVE LifecycleInv'
  <2>1. PICK i \in Intents : \E plan \in Candidates(i, Observed) :
          /\ i.kind # "plan reconcile"
          /\ ContractHolds(Overlay(tree, plan))
          /\ commands' = [commands EXCEPT ![p] =
               [intent |-> i, plan |-> plan, expected |-> Overlay(tree, plan)]]
    BY <1>1, BeginHolds
  <2>2. PICK plan \in Candidates(i, Observed) :
          /\ i.kind # "plan reconcile"
          /\ ContractHolds(Overlay(tree, plan))
          /\ commands' = [commands EXCEPT ![p] =
               [intent |-> i, plan |-> plan, expected |-> Overlay(tree, plan)]]
    BY <2>1
  <2>3. CommandsAreChecked'
    BY <1>0, <2>1, <2>2 DEF LifecycleInv, CommandsAreChecked
  <2>4. IsObservation(Observed)'
    BY <1>0, <1>1, BeginHolds, TypedIsObservation
  <2>. QED BY <2>3, <2>4 DEF LifecycleInv
<1>2. ASSUME NEW p \in Processes, Install(p) PROVE LifecycleInv'
  <2>1. PICK plan \in Candidates(commands[p].intent, Observed) :
          /\ commands[p].intent \in Intents
          /\ tree' = Overlay(tree, plan)
          /\ manifest' = plan.after
    BY <1>2, InstallFacts
  <2>2. plan.after \in Manifests /\ WellWritten(tree, plan.ops)
    BY <2>1, CandidateIsSound DEF LifecycleInv, Observed
  <2>3. tree' \in Trees
    BY <1>0, <2>1, <2>2, OverlayIsTree
  <2>4. version' \in Versions /\ checkout' = checkout
    BY <1>0, <1>2 DEF Install
  <2>5. CommandsAreChecked'
    BY <1>2 DEF Install, LifecycleInv, CommandsAreChecked
  <2>. QED BY <1>0, <2>1, <2>2, <2>3, <2>4, <2>5, TypedIsObservation DEF LifecycleInv
<1>3. ASSUME NEW p \in Processes, GiveUp(p) PROVE LifecycleInv'
  <2>1. CommandsAreChecked'
    BY <1>3 DEF GiveUp, LifecycleInv, CommandsAreChecked
  <2>. QED BY <1>0, <1>3, <2>1, TypedIsObservation DEF GiveUp, LifecycleInv
<1>4. CASE PlanReconcile
  <2>1. CommandsAreChecked'
    BY <1>4 DEF PlanReconcile, LifecycleInv, CommandsAreChecked
  <2>. QED BY <1>0, <1>4, <2>1, TypedIsObservation DEF PlanReconcile, LifecycleInv
<1>5. CASE Edit
  <2>1. PICK e \in Edits : tree' = [tree EXCEPT ![e[1]] = e[2]]
    BY <1>5 DEF Edit
  <2>2. e[1] \in Paths /\ e[2] \in Contents \cup {Absent, Directory}
    BY ProjectAssumption DEF ProjectAssumption
  <2>3. tree' \in Trees
    BY <1>0, <2>1, <2>2 DEF Trees
  <2>4. CommandsAreChecked'
    BY <1>5 DEF Edit, LifecycleInv, CommandsAreChecked
  <2>. QED BY <1>0, <1>5, <2>3, <2>4, TypedIsObservation DEF Edit, LifecycleInv
<1>6. CASE CopierUpdate
  <2>1. version + 1 \in Versions /\ version' = version + 1
    BY <1>6 DEF CopierUpdate
  <2>2. IsContent(Source[version + 1])
    BY <2>1, TemplateAssumption DEF TemplateAssumption
  <2>3. PICK kept : tree' = [p \in Paths |->
             IF p \in kept \/ p \notin DOMAIN Source[version] \cup DOMAIN Source[version + 1]
             THEN tree[p]
             ELSE IF p \in DOMAIN Source[version + 1] THEN Source[version + 1][p] ELSE Absent]
    BY <1>6 DEF CopierUpdate
  <2>4. ASSUME NEW p \in Paths PROVE tree'[p] \in Contents \cup {Absent, Directory}
    <3>. tree[p] \in Contents \cup {Absent, Directory}
      BY <1>0 DEF Trees
    <3>. QED BY <2>2, <2>3 DEF IsContent
  <2>5. tree' \in Trees
    BY <2>3, <2>4 DEF Trees
  <2>6. CommandsAreChecked'
    BY <1>6 DEF CopierUpdate, LifecycleInv, CommandsAreChecked
  <2>. QED BY <1>0, <1>6, <2>1, <2>5, <2>6, TypedIsObservation DEF CopierUpdate, LifecycleInv
<1>7. CASE AdvanceCheckout
  <2>1. CommandsAreChecked'
    BY <1>7 DEF AdvanceCheckout, LifecycleInv, CommandsAreChecked
  <2>. QED BY <1>0, <1>7, <2>1, TypedIsObservation DEF AdvanceCheckout, LifecycleInv
<1>8. CASE UNCHANGED vars
  <2>1. CommandsAreChecked'
    BY <1>8 DEF vars, LifecycleInv, CommandsAreChecked
  <2>. QED BY <1>0, <1>8, <2>1, TypedIsObservation DEF vars, LifecycleInv
<1>. QED BY <1>1, <1>2, <1>3, <1>4, <1>5, <1>6, <1>7, <1>8 DEF Next

\* The state is one commands can observe, and a command that waits for the lock
\* expects a target for which the template contract holds.
THEOREM Invariance == Spec => []LifecycleInv
BY InitEstablishesInv, StepPreservesInv, PTL DEF Spec

-----------------------------------------------------------------------------
\* What a manifest records is nothing that is seeded once.
SeedFree(m) == SeedPaths \cap (DOMAIN m.managed \cup DOMAIN m.base) = {}

\* A seeded path is neither rendered (_validate_managed) nor declared
\* (decode_source_ownership).
LEMMA OutputsAvoidSeeds ==
  ASSUME NEW v \in Versions, NEW s, Resolvable(v, s)
  PROVE  SeedPaths \cap DOMAIN Outputs(v, s) = {}
<1>1. Effective(s) \in SUBSET Capabilities
  BY TemplateAssumption DEF Resolvable, TemplateAssumption
<1>2. DOMAIN Outputs(v, s) \subseteq OutputPaths
  BY <1>1 DEF Outputs, OutputPaths
<1>. QED BY <1>2, DisjointAssumption DEF DisjointAssumption

\* A baseline has what is declared, or below it, and the declaration itself.
LEMMA SourceAvoidsSeeds ==
  ASSUME NEW o, NEW root, NEW reserved, NEW b \in SourceEntries(o, root, reserved)
  PROVE  SeedPaths \cap DOMAIN b = {}
<1>. DEFINE ownership == TemplateFile(o, root, Ownership)
<1>1. ownership \in DOMAIN Declares /\ DOMAIN b = SourcePaths(o, root, reserved)
  BY DEF SourceEntries
<1>2. ASSUME NEW p \in Declares[ownership] PROVE SeedPaths \cap Visit(o, root, p) = {}
  <2>1. p \notin SeedPaths /\ (p \in Folders => SeedPaths \cap Inside[p] = {})
    BY <1>1, DisjointAssumption DEF DisjointAssumption
  <2>. QED BY <2>1 DEF Visit, Below
<1>. QED BY <1>1, <1>2, DisjointAssumption DEF SourcePaths, Visited, DisjointAssumption

\* The initial manifests avoid the seeds: apply records what is rendered.
LEMMA ApplyAvoidsSeeds ==
  ASSUME NEW o, IsObservation(o), NEW selection, NEW leave,
         NEW plan \in CompileApply(o, selection, leave)
  PROVE  SeedFree(plan.after)
<1>. DEFINE managed == Outputs(o.version, selection)
<1>1. PICK b \in SourceEntries(o, "own", SlotPaths \cup DOMAIN managed) :
        plan = ApplyPlan(o, selection, leave, b)
  BY DEF CompileApply
<1>2. SeedPaths \cap DOMAIN managed = {}
  BY OutputsAvoidSeeds DEF CompileApply, IsObservation
<1>3. SeedPaths \cap DOMAIN b = {}
  BY <1>1, SourceAvoidsSeeds
<1>4. plan.after = InitialManifest(Generation(o), selection, b, managed)
  BY <1>1 DEF ApplyPlan
<1>5. DOMAIN plan.after.managed = DOMAIN managed /\ plan.after.base = b
  BY <1>4 DEF InitialManifest, Identities
<1>. QED BY <1>2, <1>3, <1>5 DEF SeedFree

\* adopt records what is rendered and the lifecycle source, CLAUDE.md included.
LEMMA AdoptAvoidsSeeds ==
  ASSUME NEW o, IsObservation(o), NEW selection, NEW collisions,
         NEW plan \in CompileAdopt(o, selection, collisions)
  PROVE  SeedFree(plan.after)
<1>1. PICK b \in SourceEntries(o, "checkout", SlotPaths \cup DOMAIN Outputs(o.checkout, selection)) :
        plan = AdoptPlan(o, selection, collisions, b) /\ Resolvable(o.checkout, selection)
  BY DEF CompileAdopt
<1>. DEFINE managed == AdoptManaged(o, selection, b)
<1>2. SeedPaths \cap DOMAIN b = {}
  BY <1>1, SourceAvoidsSeeds
<1>3. SeedPaths \cap DOMAIN managed = {}
  <2>1. SeedPaths \cap DOMAIN Outputs(o.checkout, selection) = {}
    BY <1>1, OutputsAvoidSeeds DEF IsObservation
  <2>2. DOMAIN LifecycleInstallSet(b) \subseteq DOMAIN b \cup {Claude}
    BY DEF LifecycleInstallSet, Over, Restrict, Files
  <2>3. DOMAIN managed = DOMAIN Outputs(o.checkout, selection) \cup DOMAIN LifecycleInstallSet(b)
    BY DEF AdoptManaged, Over
  <2>. QED BY <1>2, <2>1, <2>2, <2>3, DisjointAssumption DEF DisjointAssumption
<1>4. plan.after = InitialManifest("adopted", selection, b, Recorded(managed, collisions))
  BY <1>1 DEF AdoptPlan
<1>5. DOMAIN plan.after.managed \subseteq DOMAIN managed /\ plan.after.base = b
  BY <1>4 DEF InitialManifest, Identities, Recorded, Restrict
<1>. QED BY <1>2, <1>3, <1>5 DEF SeedFree

\* add and reconcile record what is rendered; restore records nothing.
LEMMA LifecycleAvoidsSeeds ==
  ASSUME NEW o, IsObservation(o), Existing(o), SeedFree(o.manifest),
         NEW i \in Intents, i.kind \in {"add", "restore", "reconcile", "plan reconcile"},
         NEW plan \in Candidates(i, o)
  PROVE  SeedFree(plan.after)
<1>1. Accepted(i, o) /\ plan \in Compile(i, o) /\ o.manifest \in Manifests
  BY DEF Candidates, IsObservation
<1>2. CASE i.kind = "add"
  <2>1. plan \in CompileAdd(o, i.root, i.capabilities) /\ i.root \in {"own", "checkout"}
    BY <1>1, <1>2, IntentAssumption DEF Compile, LifecycleCandidates, IntentAssumption
  <2>. DEFINE m == o.manifest
              v == CodeVersion(o, i.root)
              additions == Additions(m, i.capabilities)
              outputs == Outputs(v, m.profile \cup additions)
  <2>2. plan = AddPlan(o, additions, outputs) /\ Resolvable(v, m.profile \cup additions)
    BY <2>1 DEF CompileAdd
  <2>3. SeedPaths \cap DOMAIN outputs = {}
    BY <2>1, <2>2, OutputsAvoidSeeds DEF CodeVersion, IsObservation
  <2>4. plan.after = [m EXCEPT !.additions = additions, !.managed = Identities(outputs)]
    BY <2>2 DEF AddPlan, Extended
  <2>5. DOMAIN plan.after.managed = DOMAIN outputs /\ plan.after.base = m.base
    BY <1>1, <2>4 DEF Identities, Manifests
  <2>. QED BY <2>3, <2>5 DEF SeedFree
<1>3. CASE i.kind = "restore"
  <2>1. plan \in CompileRestore(o, i.root, i.requested)
    BY <1>1, <1>3 DEF Compile, LifecycleCandidates
  <2>2. PICK render, selected : plan = RestorePlan(o, render, selected)
    BY <2>1 DEF CompileRestore
  <2>. QED BY <2>2 DEF RestorePlan
<1>4. CASE i.kind \in {"reconcile", "plan reconcile"}
  <2>1. ReconcileAccepted(o, "own") /\ plan \in CompileReconcile(o, "own", i.overwrite)
    BY <1>1, <1>4 DEF Accepted, Compile, LifecycleCandidates
  <2>. DEFINE m == o.manifest
              v == CodeVersion(o, "own")
              render == Outputs(v, Selected(m))
  <2>2. PICK b \in SourceEntries(o, "own", SlotPaths \cup DeclaredManaged(v)) :
          plan = ReconcilePlan(o, render, b)
    BY <2>1 DEF CompileReconcile
  <2>3. SeedPaths \cap DOMAIN render = {} /\ SeedPaths \cap DOMAIN b = {}
    BY <2>1, <2>2, OutputsAvoidSeeds, SourceAvoidsSeeds
       DEF ReconcileAccepted, SourceChanged, Comparable, CodeVersion, IsObservation
  <2>4. plan.after = [m EXCEPT !.base = b, !.managed = Identities(render)]
    BY <2>2 DEF ReconcilePlan
  <2>5. DOMAIN plan.after.managed = DOMAIN render /\ plan.after.base = b
    BY <1>1, <2>4 DEF Identities, Manifests
  <2>. QED BY <2>3, <2>5 DEF SeedFree
<1>. QED BY <1>2, <1>3, <1>4

\* The manifest of every plan a command may install avoids the seeds.
LEMMA CandidateAvoidsSeeds ==
  ASSUME NEW o, IsObservation(o), Existing(o) => SeedFree(o.manifest),
         NEW i \in Intents, NEW plan \in Candidates(i, o)
  PROVE  SeedFree(plan.after)
<1>1. Accepted(i, o) /\ plan \in Compile(i, o)
  BY DEF Candidates
<1>2. CASE i.kind = "apply"
  BY <1>1, <1>2, ApplyAvoidsSeeds DEF Compile, InitialCandidates
<1>3. CASE i.kind = "adopt"
  BY <1>1, <1>3, AdoptAvoidsSeeds DEF Compile, AdoptCandidates
<1>4. CASE i.kind \in {"add", "restore", "reconcile", "plan reconcile"}
  <2>1. Existing(o)
    BY <1>1, <1>4 DEF Accepted, AddAccepted, RestoreAccepted, ReconcileAccepted,
                      SourceSame, SourceChanged, Comparable
  <2>. QED BY <1>4, <2>1, LifecycleAvoidsSeeds
<1>. QED BY <1>2, <1>3, <1>4, IntentAssumption DEF IntentAssumption

\* A published receipt is that of a reconcile, and what it records a manifest.
ReceiptsAreTyped == \A r \in receipts : r.kind = "reconcile" /\ r.after \in Manifests

TypeInv ==
  /\ ReceiptsAreTyped
  /\ borrowed \in BOOLEAN
  /\ Existing(Observed) => SeedFree(manifest)

\* What plan reconcile publishes is a reconcile plan.
LEMMA ReconcileCandidate ==
  ASSUME NEW o, NEW i \in Intents, i.kind = "plan reconcile", NEW plan \in Candidates(i, o)
  PROVE  plan.kind = "reconcile"
<1>1. plan \in CompileReconcile(o, "own", i.overwrite)
  BY DEF Candidates, Compile, LifecycleCandidates
<1>2. PICK render, b : plan = ReconcilePlan(o, render, b)
  BY <1>1 DEF CompileReconcile
<1>. QED BY <1>2 DEF ReconcilePlan

\* Manifests are written by Install, receipts by PlanReconcile.
LEMMA StepPreservesTypes == LifecycleInv /\ TypeInv /\ [Next]_vars => TypeInv'
<1>. SUFFICES ASSUME LifecycleInv, TypeInv, [Next]_vars PROVE TypeInv'
  OBVIOUS
<1>0. IsObservation(Observed) /\ (Existing(Observed) => SeedFree(Observed.manifest))
  BY DEF LifecycleInv, TypeInv, Observed
<1>1. ASSUME UNCHANGED <<manifest, receipts, borrowed>> PROVE TypeInv'
  BY <1>1 DEF TypeInv, ReceiptsAreTyped, Existing, Observed, SeedFree
<1>2. ASSUME NEW p \in Processes, Install(p) PROVE TypeInv'
  <2>1. PICK plan \in Candidates(commands[p].intent, Observed) :
          commands[p].intent \in Intents /\ manifest' = plan.after
    BY <1>2, InstallFacts
  <2>2. SeedFree(plan.after)
    BY <1>0, <2>1, CandidateAvoidsSeeds
  <2>3. UNCHANGED receipts /\ borrowed' \in BOOLEAN
    BY <1>2 DEF Install, Borrows
  <2>. QED BY <2>1, <2>2, <2>3 DEF TypeInv, ReceiptsAreTyped, SeedFree
<1>3. CASE PlanReconcile
  <2>1. PICK i \in Intents : i.kind = "plan reconcile" /\
          \E plan \in Candidates(i, Observed) : receipts' = receipts \cup {plan}
    BY <1>3 DEF PlanReconcile, Asked
  <2>2. PICK plan \in Candidates(i, Observed) : receipts' = receipts \cup {plan}
    BY <2>1
  <2>3. plan.kind = "reconcile" /\ plan.after \in Manifests
    BY <1>0, <2>1, ReconcileCandidate, CandidateIsSound
  <2>4. UNCHANGED <<manifest, borrowed>>
    BY <1>3 DEF PlanReconcile
  <2>. QED BY <2>2, <2>3, <2>4 DEF TypeInv, ReceiptsAreTyped, Existing, Observed, SeedFree
<1>4. CASE \E p \in Processes : Begin(p) \/ GiveUp(p)
  BY <1>1, <1>4, BeginHolds DEF GiveUp
<1>5. CASE Edit \/ CopierUpdate \/ AdvanceCheckout \/ UNCHANGED vars
  BY <1>1, <1>5 DEF Edit, CopierUpdate, AdvanceCheckout, vars
<1>. QED BY <1>2, <1>3, <1>4, <1>5 DEF Next

\* Types hold, and no manifest ever records a path that is seeded once.
THEOREM TypeCorrect == Spec => []TypeOK
<1>1. Init => TypeInv
  BY DEF Init, TypeInv, ReceiptsAreTyped, Existing, Observed
<1>2. ASSUME NEW m \in Manifests PROVE IsManifest(m)
  <2>1. \A p \in DOMAIN m.base : p \in Names /\ m.base[p] \in Contents \cup {Directory}
    BY DEF Manifests, Baselines
  <2>. QED BY <2>1, ContentMapIsContent DEF Manifests, IsManifest
<1>3. LifecycleInv /\ TypeInv => TypeOK
  <2>. SUFFICES ASSUME LifecycleInv, TypeInv PROVE TypeOK
    OBVIOUS
  <2>1. /\ tree \in Trees /\ version \in Versions /\ checkout \in Versions
        /\ DOMAIN commands = Processes
        /\ manifest = NoManifest \/ manifest \in Manifests
    BY DEF LifecycleInv, IsObservation, Observed, Existing, CommandsAreChecked
  <2>2. IsManifest(manifest)
    BY <1>2, <2>1 DEF IsManifest
  <2>3. \A r \in receipts : r.kind = "reconcile" /\ IsManifest(r.after)
    BY <1>2 DEF TypeInv, ReceiptsAreTyped
  <2>. QED BY <2>1, <2>2, <2>3 DEF TypeOK, TypeInv, SeedFree
<1>. QED BY <1>1, <1>3, StepPreservesTypes, Invariance, PTL DEF Spec

-----------------------------------------------------------------------------
\* A step that changes the manifest installs.
LEMMA ManifestChangesByInstall ==
  ASSUME [Next]_vars, manifest' # manifest
  PROVE  \E p \in Processes : Install(p)
BY BeginHolds DEF Next, GiveUp, PlanReconcile, Edit, CopierUpdate, AdvanceCheckout, vars

\* Under the plan of an existing project the recorded selection survives.
LEMMA PlanKeepsAdditions ==
  ASSUME NEW o, IsObservation(o), Existing(o), NEW i \in Intents, NEW plan \in Candidates(i, o)
  PROVE  /\ plan.after.profile = o.manifest.profile
         /\ o.manifest.additions \subseteq plan.after.additions
<1>1. Accepted(i, o) /\ plan \in Compile(i, o)
  BY DEF Candidates
<1>2. CASE i.kind \in {"apply", "adopt"}
  BY <1>1, <1>2 DEF Accepted, ApplyAccepted, AdoptAccepted
<1>3. CASE i.kind = "add"
  <2>1. /\ plan \in CompileAdd(o, i.root, i.capabilities)
        /\ i.root \in {"own", "checkout"} /\ i.capabilities \in SUBSET Capabilities
    BY <1>1, <1>3, IntentAssumption DEF Compile, LifecycleCandidates, IntentAssumption
  <2>. QED BY <2>1, AddRecords
<1>4. CASE i.kind = "restore"
  <2>1. plan \in CompileRestore(o, i.root, i.requested)
    BY <1>1, <1>4 DEF Compile, LifecycleCandidates
  <2>. QED BY <2>1, RestoreWrites
<1>5. CASE i.kind \in {"reconcile", "plan reconcile"}
  <2>1. ReconcileAccepted(o, "own") /\ plan \in CompileReconcile(o, "own", i.overwrite)
    BY <1>1, <1>5 DEF Accepted, Compile, LifecycleCandidates
  <2>. QED BY <2>1, ReconcileRecords
<1>. QED BY <1>2, <1>3, <1>4, <1>5, IntentAssumption DEF IntentAssumption

\* Whatever processes run commands beside each other, no recorded capability
\* is lost (compile_add_plan, _reconcile_candidate_manifest).
THEOREM AdditionsSurvive == Spec => AdditionsAreKept
<1>1. LifecycleInv /\ [Next]_vars =>
        (Existing(Observed) =>
           /\ Existing(Observed')
           /\ manifest'.profile = manifest.profile
           /\ manifest.additions \subseteq manifest'.additions)
  <2>. SUFFICES ASSUME LifecycleInv, [Next]_vars, Existing(Observed)
                PROVE  /\ Existing(Observed')
                       /\ manifest'.profile = manifest.profile
                       /\ manifest.additions \subseteq manifest'.additions
    OBVIOUS
  <2>1. CASE manifest' = manifest
    BY <2>1 DEF Existing, Observed
  <2>2. CASE manifest' # manifest
    <3>1. PICK p \in Processes : Install(p)
      BY <2>2, ManifestChangesByInstall
    <3>2. PICK plan \in Candidates(commands[p].intent, Observed) :
            commands[p].intent \in Intents /\ manifest' = plan.after
      BY <3>1, InstallFacts
    <3>3. plan.after \in Manifests
      BY <3>2, CandidateIsSound DEF LifecycleInv
    <3>4. /\ plan.after.profile = Observed.manifest.profile
          /\ Observed.manifest.additions \subseteq plan.after.additions
      BY <3>2, PlanKeepsAdditions DEF LifecycleInv
    <3>5. Existing(Observed')
      BY <3>2, <3>3, ManifestExists DEF Existing, Observed
    <3>. QED BY <3>2, <3>4, <3>5 DEF Observed
  <2>. QED BY <2>1, <2>2
<1>. QED BY <1>1, Invariance, PTL DEF Spec, AdditionsAreKept

\* restore writes recorded identities to recorded paths, whatever the adopter,
\* Copier and the checkout do meanwhile (compile_restore_plan).
THEOREM RestoreIsExact == Spec => RestoreWritesTheRecord
<1>1. LifecycleInv /\ [Next]_vars =>
        \A p \in Processes : Installs(p, {"restore"}) =>
          /\ manifest' = manifest
          /\ \A q \in Paths : tree'[q] # tree[q] =>
               q \in DOMAIN manifest.managed /\ Normalized(tree'[q]) = manifest.managed[q]
  <2>. SUFFICES ASSUME LifecycleInv, [Next]_vars, NEW p \in Processes, Installs(p, {"restore"})
                PROVE  /\ manifest' = manifest
                       /\ \A q \in Paths : tree'[q] # tree[q] =>
                            q \in DOMAIN manifest.managed /\ Normalized(tree'[q]) = manifest.managed[q]
    OBVIOUS
  <2>1. Install(p) /\ commands[p].intent.kind = "restore"
    BY OnlyInstallInstalls DEF Installs
  <2>. DEFINE i == commands[p].intent
  <2>2. PICK plan \in Candidates(i, Observed) :
          i \in Intents /\ tree' = Overlay(tree, plan) /\ manifest' = plan.after
    BY <2>1, InstallFacts
  <2>3. RestoreAccepted(Observed, i.root) /\ plan \in CompileRestore(Observed, i.root, i.requested)
    BY <2>1, <2>2 DEF Candidates, Accepted, Compile, LifecycleCandidates
  <2>4. IsObservation(Observed) /\ Existing(Observed)
    BY <2>3 DEF LifecycleInv, RestoreAccepted, SourceSame, Comparable
  <2>5. /\ plan.after = manifest
        /\ \A q \in DOMAIN plan.ops :
             q \in DOMAIN manifest.managed /\ Normalized(plan.ops[q].new) = manifest.managed[q]
    BY <2>3, <2>4, RestoreWrites DEF Observed
  <2>. QED BY <2>2, <2>5 DEF Overlay
<1>. QED BY <1>1, Invariance, PTL DEF Spec, RestoreWritesTheRecord

\* The content a reconcile destroys in spite of drift is the content some
\* published receipt shows, for every edit after the receipt
\* (_verify_reconcile_receipt); add destroys none.
THEOREM ReceiptsBindDrift == Spec => DriftNeedsItsReceipt
<1>1. LifecycleInv /\ [Next]_vars =>
        \A p \in Processes : Installs(p, {"add", "reconcile"}) =>
          \A q \in Drifted(Observed) : tree'[q] # tree[q] =>
            \E r \in receipts : q \in DOMAIN r.ops /\ r.ops[q] = [old |-> tree[q], new |-> tree'[q]]
  <2>. SUFFICES ASSUME LifecycleInv, [Next]_vars, NEW p \in Processes,
                       Installs(p, {"add", "reconcile"}),
                       NEW q \in Drifted(Observed), tree'[q] # tree[q]
                PROVE  \E r \in receipts :
                         q \in DOMAIN r.ops /\ r.ops[q] = [old |-> tree[q], new |-> tree'[q]]
    OBVIOUS
  <2>1. Install(p) /\ commands[p].intent.kind \in {"add", "reconcile"}
    BY OnlyInstallInstalls DEF Installs
  <2>. DEFINE i == commands[p].intent
  <2>2. PICK plan \in Candidates(i, Observed) :
          i \in Intents /\ ReceiptMatches(i, plan) /\ tree' = Overlay(tree, plan)
    BY <2>1, InstallFacts
  <2>3. i.kind = "reconcile"
    <3>1. i.kind # "add"
      BY <2>2 DEF Candidates, Accepted, AddAccepted
    <3>. QED BY <2>1, <3>1
  <2>4. ReconcileAccepted(Observed, "own") /\ plan \in CompileReconcile(Observed, "own", i.overwrite)
    BY <2>2, <2>3 DEF Candidates, Accepted, Compile, LifecycleCandidates
  <2>5. plan \in receipts
    BY <2>2, <2>3, <2>4 DEF CompileReconcile, ReceiptMatches
  <2>6. q \in Paths
    <3>1. Observed.manifest \in Manifests
      BY <2>4 DEF LifecycleInv, IsObservation, ReconcileAccepted, SourceChanged, Comparable
    <3>. QED BY <3>1 DEF Drifted, Manifests, ContentMaps
  <2>7. q \in DOMAIN plan.ops /\ tree'[q] = plan.ops[q].new
    BY <2>2, <2>6 DEF Overlay
  <2>8. WellWritten(tree, plan.ops)
    BY <2>2, CandidateIsSound DEF LifecycleInv, Observed
  <2>9. plan.ops[q] = [old |-> tree[q], new |-> tree'[q]]
    BY <2>7, <2>8 DEF WellWritten
  <2>. QED BY <2>5, <2>7, <2>9
<1>. QED BY <1>1, Invariance, PTL DEF Spec, DriftNeedsItsReceipt

\* adopt replaces what it finds only where its bundle says so, and nothing
\* legal (_partition_adoption_collisions).
THEOREM AdoptionAsksFirst == Spec => AdoptionIsDeclared
<1>1. LifecycleInv /\ [Next]_vars =>
        \A p \in Processes : Installs(p, {"adopt"}) =>
          \A q \in Files(tree) : tree'[q] # tree[q] =>
            /\ q \notin LegalPaths
            /\ q \in DOMAIN commands[p].intent.collisions
            /\ commands[p].intent.collisions[q] = "replace"
  <2>. SUFFICES ASSUME LifecycleInv, [Next]_vars, NEW p \in Processes, Installs(p, {"adopt"}),
                       NEW q \in Files(tree), tree'[q] # tree[q]
                PROVE  /\ q \notin LegalPaths
                       /\ q \in DOMAIN commands[p].intent.collisions
                       /\ commands[p].intent.collisions[q] = "replace"
    OBVIOUS
  <2>1. Install(p) /\ commands[p].intent.kind = "adopt"
    BY OnlyInstallInstalls DEF Installs
  <2>. DEFINE i == commands[p].intent
  <2>2. PICK plan \in Candidates(i, Observed) : i \in Intents /\ tree' = Overlay(tree, plan)
    BY <2>1, InstallFacts
  <2>3. plan \in CompileAdopt(Observed, i.selection, i.collisions) /\ i.selection \in SUBSET Capabilities
    BY <2>1, <2>2, IntentAssumption DEF Candidates, Compile, AdoptCandidates, IntentAssumption
  <2>4. q \in Paths /\ IsFile(tree[q])
    BY DEF Files, LifecycleInv, IsObservation, Observed, Trees
  <2>5. q \in DOMAIN plan.ops
    BY <2>2, <2>4 DEF Overlay
  <2>6. q \in DOMAIN i.collisions /\ i.collisions[q] # "keep-existing" /\ q \notin LegalPaths
    <3>1. IsFile(Observed.tree[q])
      BY <2>4 DEF Observed
    <3>2. IsObservation(Observed)
      BY DEF LifecycleInv
    <3>. HIDE DEF i
    <3>. QED BY <2>3, <2>4, <2>5, <3>1, <3>2, AdoptRecords
  <2>7. i.collisions[q] \in {"keep-existing", "replace"}
    BY <2>1, <2>2, <2>6, IntentAssumption DEF IntentAssumption
  <2>. QED BY <2>6, <2>7
<1>. QED BY <1>1, Invariance, PTL DEF Spec, AdoptionIsDeclared

\* The baseline an adoption records is the checkout at the installation, however
\* far the checkout moved since the plan (_revalidate_initial).
THEOREM AdoptionBindsTheCheckout == Spec => AdoptionIsCurrent
<1>1. LifecycleInv /\ [Next]_vars =>
        \A p \in Processes : Installs(p, {"adopt"}) =>
          \A q \in DOMAIN manifest'.base : manifest'.base[q] = CheckoutFile(checkout, q)
  <2>. SUFFICES ASSUME LifecycleInv, [Next]_vars, NEW p \in Processes, Installs(p, {"adopt"}),
                       NEW q \in DOMAIN manifest'.base
                PROVE  manifest'.base[q] = CheckoutFile(checkout, q)
    OBVIOUS
  <2>1. Install(p) /\ commands[p].intent.kind = "adopt"
    BY OnlyInstallInstalls DEF Installs
  <2>. DEFINE i == commands[p].intent
  <2>2. PICK plan \in Candidates(i, Observed) : i \in Intents /\ manifest' = plan.after
    BY <2>1, InstallFacts
  <2>3. plan \in CompileAdopt(Observed, i.selection, i.collisions) /\ i.selection \in SUBSET Capabilities
    BY <2>1, <2>2, IntentAssumption DEF Candidates, Compile, AdoptCandidates, IntentAssumption
  <2>. HIDE DEF i
  <2>4. \A x \in DOMAIN plan.after.base : plan.after.base[x] = TemplateFile(Observed, "checkout", x)
    <3>1. IsObservation(Observed)
      BY DEF LifecycleInv
    <3>2. /\ plan.after \in Manifests
          /\ \A x \in DOMAIN plan.after.base : plan.after.base[x] = TemplateFile(Observed, "checkout", x)
          /\ \A x \in DOMAIN plan.ops : IsFile(Observed.tree[x]) /\ x \in Paths =>
               x \in DOMAIN i.collisions /\ i.collisions[x] # "keep-existing" /\ x \notin LegalPaths
      BY <2>3, <3>1, AdoptRecords, Zenon
    <3>. QED BY <3>2
  <2>. QED BY <2>2, <2>4 DEF TemplateFile, Observed
<1>. QED BY <1>1, Invariance, PTL DEF Spec, AdoptionIsCurrent

\* No installation ends without the files of the template contract: what is
\* installed is what the contract was evaluated for before the lock.
THEOREM ContractSurvives == Spec => ContractIsKept
<1>1. LifecycleInv /\ [Next]_vars =>
        \A p \in Processes :
          Installs(p, {"apply", "adopt", "add", "restore", "reconcile"}) =>
            Required \subseteq Files(tree')
  <2>. SUFFICES ASSUME LifecycleInv, [Next]_vars, NEW p \in Processes, NEW kinds, Installs(p, kinds)
                PROVE  Required \subseteq Files(tree')
    OBVIOUS
  <2>1. Install(p)
    BY OnlyInstallInstalls
  <2>. QED BY <2>1, InstallFacts DEF ContractHolds
<1>. QED BY <1>1, Invariance, PTL DEF Spec, ContractIsKept

-----------------------------------------------------------------------------
\* Where an initial install is recognized, a file at a seed-once slot is the
\* scaffold (recognize_generation).
LEMMA RecognizedSlots ==
  ASSUME NEW o, Generation(o) # "none", NEW q \in SlotPaths, IsFile(o.tree[q])
  PROVE  o.tree[q] = Scaffold[q]
<1>. DEFINE scaffold == {p \in SlotPaths : o.tree[p] = Scaffold[p]}
            missing == {p \in SlotPaths : ~IsFile(o.tree[p])}
<1>1. scaffold \cup missing = SlotPaths \/ scaffold = SlotPaths
  BY DEF Generation
<1>2. q \notin missing
  OBVIOUS
<1>3. q \in scaffold
  BY <1>1, <1>2
<1>. QED BY <1>3

\* A lifecycle plan of an existing project writes no seed-once path.
LEMMA LifecyclePlansAvoidSeeds ==
  ASSUME NEW o, IsObservation(o), Existing(o), SeedFree(o.manifest),
         NEW i \in Intents, i.kind \in {"add", "restore", "reconcile"},
         NEW plan \in Candidates(i, o)
  PROVE  SeedPaths \cap DOMAIN plan.ops = {}
<1>1. Accepted(i, o) /\ plan \in Compile(i, o) /\ o.manifest \in Manifests
  BY DEF Candidates, IsObservation
<1>. DEFINE m == o.manifest
<1>2. CASE i.kind = "add"
  <2>1. plan \in CompileAdd(o, i.root, i.capabilities) /\ i.root \in {"own", "checkout"}
    BY <1>1, <1>2, IntentAssumption DEF Compile, LifecycleCandidates, IntentAssumption
  <2>. DEFINE v == CodeVersion(o, i.root)
              additions == Additions(m, i.capabilities)
              outputs == Outputs(v, m.profile \cup additions)
  <2>2. plan = AddPlan(o, additions, outputs) /\ Resolvable(v, m.profile \cup additions)
    BY <2>1 DEF CompileAdd
  <2>3. SeedPaths \cap DOMAIN outputs = {}
    BY <2>1, <2>2, OutputsAvoidSeeds DEF CodeVersion, IsObservation
  <2>. QED BY <2>2, <2>3 DEF AddPlan, Operations
<1>3. CASE i.kind = "restore"
  <2>1. plan \in CompileRestore(o, i.root, i.requested)
    BY <1>1, <1>3 DEF Compile, LifecycleCandidates
  <2>2. DOMAIN plan.ops \subseteq DOMAIN m.managed
    BY <2>1, RestoreWrites
  <2>. QED BY <2>2 DEF SeedFree
<1>4. CASE i.kind = "reconcile"
  <2>1. ReconcileAccepted(o, "own") /\ plan \in CompileReconcile(o, "own", i.overwrite)
    BY <1>1, <1>4 DEF Accepted, Compile, LifecycleCandidates
  <2>. DEFINE v == CodeVersion(o, "own")
              render == Outputs(v, Selected(m))
  <2>2. PICK b : plan = ReconcilePlan(o, render, b)
    BY <2>1 DEF CompileReconcile
  <2>3. SeedPaths \cap DOMAIN render = {}
    BY <2>1, OutputsAvoidSeeds
       DEF ReconcileAccepted, SourceChanged, Comparable, CodeVersion, IsObservation
  <2>4. Retired(o, render) \subseteq DOMAIN m.managed
    BY DEF Retired
  <2>5. DOMAIN plan.ops = DOMAIN render \cup Retired(o, render)
    BY <2>2 DEF ReconcilePlan, Operations, Over, Gone
  <2>. QED BY <2>3, <2>4, <2>5 DEF SeedFree
<1>. QED BY <1>2, <1>3, <1>4

\* add, restore and reconcile run on an existing project only.
LEMMA LifecycleNeedsAProject ==
  ASSUME NEW o, NEW i, i.kind \in {"add", "restore", "reconcile"}, NEW plan \in Candidates(i, o)
  PROVE  Existing(o)
BY DEF Candidates, Accepted, AddAccepted, RestoreAccepted, ReconcileAccepted,
       SourceSame, SourceChanged, Comparable

\* No command but a declared adoption destroys what the adopter filled into a
\* seed-once file: apply recognizes the scaffold in it, the others record and
\* render none (recognize_generation, _validate_managed).
THEOREM SeedsAreTheAdopters == Spec => SeedsAreSeededOnce
<1>1. LifecycleInv /\ TypeInv /\ [Next]_vars =>
        \A p \in Processes : Installs(p, {"apply", "add", "restore", "reconcile"}) =>
          \A q \in SlotPaths : IsFile(tree[q]) /\ tree'[q] # tree[q] => tree[q] = Scaffold[q]
  <2>. SUFFICES ASSUME LifecycleInv, TypeInv, [Next]_vars, NEW p \in Processes,
                       Installs(p, {"apply", "add", "restore", "reconcile"}),
                       NEW q \in SlotPaths, IsFile(tree[q]), tree'[q] # tree[q]
                PROVE  tree[q] = Scaffold[q]
    OBVIOUS
  <2>1. Install(p) /\ commands[p].intent.kind \in {"apply", "add", "restore", "reconcile"}
    BY OnlyInstallInstalls DEF Installs
  <2>. DEFINE i == commands[p].intent
  <2>2. PICK plan \in Candidates(i, Observed) : i \in Intents /\ tree' = Overlay(tree, plan)
    BY <2>1, InstallFacts
  <2>3. q \in Paths /\ q \in SeedPaths
    BY TemplateAssumption DEF TemplateAssumption, IsContent, SeedPaths
  <2>4. q \in DOMAIN plan.ops
    BY <2>2, <2>3 DEF Overlay
  <2>5. CASE i.kind = "apply"
    <3>1. Generation(Observed) # "none"
      BY <2>2, <2>5 DEF Candidates, Accepted, ApplyAccepted
    <3>2. Observed.tree = tree
      BY DEF Observed
    <3>. QED BY <3>1, <3>2, RecognizedSlots
  <2>6. CASE i.kind \in {"add", "restore", "reconcile"}
    <3>1. Existing(Observed)
      BY <2>2, <2>6, LifecycleNeedsAProject
    <3>2. SeedFree(Observed.manifest) /\ IsObservation(Observed)
      BY <3>1 DEF TypeInv, LifecycleInv, Observed
    <3>. QED BY <2>2, <2>3, <2>4, <2>6, <3>1, <3>2, LifecyclePlansAvoidSeeds
  <2>. QED BY <2>1, <2>5, <2>6
<1>2. Init => TypeInv
  BY DEF Init, TypeInv, ReceiptsAreTyped, Existing, Observed
<1>. QED BY <1>1, <1>2, StepPreservesTypes, Invariance, PTL DEF Spec, SeedsAreSeededOnce

\* What an initial install deletes is the inventory, or has the content the
\* inventory records (classify_cleanup, _cleanup_operations).
LEMMA CleanupIsRecorded ==
  ASSUME NEW o, IsObservation(o), NEW selection, NEW leave, ApplyAccepted(o, leave),
         NEW plan \in CompileApply(o, selection, leave),
         NEW q \in DOMAIN plan.ops, plan.ops[q].new = Absent
  PROVE  \/ q \in DOMAIN Cleanup /\ o.tree[q] = Cleanup[q]
         \/ q = Inventory /\ o.tree[q] = InventoryBytes
<1>. DEFINE managed == Outputs(o.version, selection)
            deletes == CleanupDeletes(o, managed, leave)
            written == Over(Bundle, managed)
            new == Over(written, Gone(deletes))
<1>1. plan.ops = Operations(o.tree, new) /\ Resolvable(o.version, selection)
  BY DEF CompileApply, ApplyPlan
<1>2. q \in DOMAIN new /\ new[q] = Absent
  BY <1>1 DEF Operations
<1>3. IsContent(written)
  BY <1>1, OutputsAreContent, OverIsContent, TemplateAssumption DEF TemplateAssumption, IsObservation
<1>4. q \notin DOMAIN written
  BY <1>2, <1>3, TemplateAssumption DEF Over, IsContent, TemplateAssumption
<1>5. q \in deletes
  BY <1>2, <1>4 DEF Over, Gone
<1>6. CleanupContract(o) # "none" /\ ~ leave /\ (q \in DOMAIN Cleanup \/ q = Inventory)
  BY <1>5 DEF CleanupDeletes
<1>7. CleanupContract(o) # "mismatch"
  BY <1>6 DEF ApplyAccepted
<1>8. ClassifyCleanup(o) # "mismatch"
  BY <1>6, <1>7 DEF CleanupContract
<1>9. o.tree[Inventory] = InventoryBytes /\ \A x \in DOMAIN Cleanup : o.tree[x] = Cleanup[x]
  BY <1>8 DEF ClassifyCleanup
<1>. QED BY <1>6, <1>9

\* The cleanup takes template content only, whatever the adopter edits between
\* the plan and the lock (classify_cleanup).
THEOREM CleanupIsAuthorized == Spec => CleanupTakesTemplateBytes
<1>1. LifecycleInv /\ [Next]_vars =>
        \A p \in Processes : Installs(p, {"apply"}) =>
          \A q \in Files(tree) : tree'[q] = Absent =>
            \/ q \in DOMAIN Cleanup /\ tree[q] = Cleanup[q]
            \/ q = Inventory /\ tree[q] = InventoryBytes
  <2>. SUFFICES ASSUME LifecycleInv, [Next]_vars, NEW p \in Processes, Installs(p, {"apply"}),
                       NEW q \in Files(tree), tree'[q] = Absent
                PROVE  \/ q \in DOMAIN Cleanup /\ tree[q] = Cleanup[q]
                       \/ q = Inventory /\ tree[q] = InventoryBytes
    OBVIOUS
  <2>1. Install(p) /\ commands[p].intent.kind = "apply"
    BY OnlyInstallInstalls DEF Installs
  <2>. DEFINE i == commands[p].intent
  <2>2. PICK plan \in Candidates(i, Observed) : i \in Intents /\ tree' = Overlay(tree, plan)
    BY <2>1, InstallFacts
  <2>3. ApplyAccepted(Observed, i.leave) /\ plan \in CompileApply(Observed, i.selection, i.leave)
    BY <2>1, <2>2 DEF Candidates, Accepted, Compile, InitialCandidates
  <2>4. q \in Paths /\ tree[q] # Absent
    BY DEF Files, IsFile, LifecycleInv, IsObservation, Observed, Trees
  <2>5. q \in DOMAIN plan.ops /\ plan.ops[q].new = Absent
    BY <2>2, <2>4 DEF Overlay
  <2>6. IsObservation(Observed) /\ Observed.tree = tree
    BY DEF LifecycleInv, Observed
  <2>. HIDE DEF i
  <2>7. \/ q \in DOMAIN Cleanup /\ Observed.tree[q] = Cleanup[q]
        \/ q = Inventory /\ Observed.tree[q] = InventoryBytes
    BY <2>3, <2>5, <2>6, CleanupIsRecorded
  <2>. QED BY <2>6, <2>7
<1>. QED BY <1>1, Invariance, PTL DEF Spec, CleanupTakesTemplateBytes

\* A reconcile that retires an output leaves nothing at its path: a file it
\* deletes, a directory it does not accept (compile_reconcile_plan).
THEOREM ReconcileLeavesNoOrphan == Spec => RetiredOutputsGo
<1>1. LifecycleInv /\ [Next]_vars =>
        \A p \in Processes : Installs(p, {"reconcile"}) =>
          \A q \in DOMAIN manifest.managed \ DOMAIN manifest'.managed : tree'[q] = Absent
  <2>. SUFFICES ASSUME LifecycleInv, [Next]_vars, NEW p \in Processes, Installs(p, {"reconcile"}),
                       NEW q \in DOMAIN manifest.managed \ DOMAIN manifest'.managed
                PROVE  tree'[q] = Absent
    OBVIOUS
  <2>1. Install(p) /\ commands[p].intent.kind = "reconcile"
    BY OnlyInstallInstalls DEF Installs
  <2>. DEFINE i == commands[p].intent
              render == Outputs(CodeVersion(Observed, "own"), Selected(manifest))
  <2>2. PICK plan \in Candidates(i, Observed) :
          i \in Intents /\ tree' = Overlay(tree, plan) /\ manifest' = plan.after
    BY <2>1, InstallFacts
  <2>3. ReconcileAccepted(Observed, "own") /\ plan \in CompileReconcile(Observed, "own", i.overwrite)
    BY <2>1, <2>2 DEF Candidates, Accepted, Compile, LifecycleCandidates
  <2>4. manifest \in Manifests /\ ~ Unsafe(Observed) /\ tree \in Trees
    BY <2>3 DEF ReconcileAccepted, SourceChanged, Comparable, LifecycleInv, IsObservation, Observed
  <2>5. PICK b : plan = ReconcilePlan(Observed, render, b)
    BY <2>3 DEF CompileReconcile, Observed
  <2>6. DOMAIN manifest'.managed = DOMAIN render
    BY <2>2, <2>4, <2>5 DEF ReconcilePlan, Identities, Manifests, Observed
  <2>7. q \in Paths /\ q \in DOMAIN manifest.managed /\ q \notin DOMAIN render
    BY <2>4, <2>6 DEF Manifests, ContentMaps
  <2>8. plan.ops = Operations(tree, Over(render, Gone(Retired(Observed, render))))
    BY <2>5 DEF ReconcilePlan, Observed
  <2>9. q \in DOMAIN plan.ops <=> q \in Retired(Observed, render)
    BY <2>7, <2>8 DEF Operations, Over, Gone
  <2>10. CASE IsFile(tree[q])
    <3>1. q \in Retired(Observed, render)
      BY <2>7, <2>10 DEF Retired, Observed
    <3>2. plan.ops[q].new = Absent
      BY <2>7, <2>8, <2>9, <3>1 DEF Operations, Over, Gone
    <3>. QED BY <2>2, <2>7, <2>9, <3>1, <3>2 DEF Overlay
  <2>11. CASE ~ IsFile(tree[q])
    <3>1. q \notin Retired(Observed, render)
      BY <2>11 DEF Retired, Observed
    <3>2. tree[q] # Directory
      BY <2>4, <2>7 DEF Unsafe, Observed
    <3>3. tree[q] = Absent
      BY <2>11, <3>2 DEF IsFile
    <3>. QED BY <2>2, <2>7, <2>9, <3>1, <3>3 DEF Overlay
  <2>. QED BY <2>10, <2>11
<1>. QED BY <1>1, Invariance, PTL DEF Spec, RetiredOutputsGo

-----------------------------------------------------------------------------
\* What a plan records of the outputs, it leaves in the tree.

\* The overlay of a plan has the content of every operation at a path.
LEMMA OverlayWrites ==
  ASSUME NEW t, NEW plan, NEW q \in Paths, q \in DOMAIN plan.ops
  PROVE  Overlay(t, plan)[q] = plan.ops[q].new
BY DEF Overlay

\* apply records what it renders; the seeds and the cleanup are other paths
\* (compile_initial_install).
LEMMA ApplyInstallsItsInventory ==
  ASSUME NEW o, IsObservation(o), NEW selection, NEW leave,
         NEW plan \in CompileApply(o, selection, leave),
         NEW q \in DOMAIN plan.after.managed
  PROVE  q \in Paths /\ Normalized(Overlay(o.tree, plan)[q]) = plan.after.managed[q]
<1>. DEFINE managed == Outputs(o.version, selection)
            deletes == CleanupDeletes(o, managed, leave)
            new == Over(Over(Bundle, managed), Gone(deletes))
<1>1. /\ plan.ops = Operations(o.tree, new)
      /\ plan.after.managed = Identities(managed)
      /\ Resolvable(o.version, selection)
  BY DEF CompileApply, ApplyPlan, InitialManifest
<1>2. q \in DOMAIN managed /\ plan.after.managed[q] = Normalized(managed[q])
  BY <1>1 DEF Identities
<1>3. q \in Paths
  BY <1>1, <1>2, OutputsAreContent DEF IsContent, IsObservation
<1>4. q \notin DOMAIN Bundle
  BY <1>1, <1>2, OutputsAvoidSeeds DEF SeedPaths, IsObservation
<1>5. q \in DOMAIN new /\ new[q] = managed[q]
  BY <1>2, <1>4 DEF Over
<1>6. q \in DOMAIN plan.ops /\ plan.ops[q].new = managed[q]
  BY <1>1, <1>5 DEF Operations
<1>. QED BY <1>2, <1>3, <1>6, OverlayWrites

\* adopt records what it writes: a kept file it neither records nor touches
\* (_partition_adoption_collisions).
LEMMA AdoptInstallsItsInventory ==
  ASSUME NEW o, IsObservation(o), NEW selection, NEW collisions,
         NEW plan \in CompileAdopt(o, selection, collisions),
         NEW q \in DOMAIN plan.after.managed
  PROVE  q \in Paths /\ Normalized(Overlay(o.tree, plan)[q]) = plan.after.managed[q]
<1>1. PICK b \in SourceEntries(o, "checkout", SlotPaths \cup DOMAIN Outputs(o.checkout, selection)) :
        /\ plan = AdoptPlan(o, selection, collisions, b)
        /\ Resolvable(o.checkout, selection)
        /\ Agents \in Files(b)
  BY DEF CompileAdopt
<1>. DEFINE managed == AdoptManaged(o, selection, b)
            new == Written(Over(Bundle, managed), collisions)
<1>2. /\ plan.ops = Operations(o.tree, new)
      /\ plan.after.managed = Identities(Recorded(managed, collisions))
  BY <1>1 DEF AdoptPlan, InitialManifest
<1>3. /\ q \in DOMAIN managed /\ q \notin Kept(collisions)
      /\ plan.after.managed[q] = Normalized(managed[q])
  BY <1>2 DEF Identities, Recorded, Restrict
<1>4. /\ DOMAIN LifecycleInstallSet(b) \subseteq DOMAIN b \cup {Claude}
      /\ DOMAIN managed = DOMAIN Outputs(o.checkout, selection) \cup DOMAIN LifecycleInstallSet(b)
  BY DEF AdoptManaged, LifecycleInstallSet, Over, Restrict, Files
<1>5. q \in Paths
  <2>1. DOMAIN LifecycleInstallSet(b) \subseteq Paths
    BY <1>1, InstallSetIsContent DEF IsContent
  <2>2. DOMAIN Outputs(o.checkout, selection) \subseteq Paths
    BY <1>1, OutputsAreContent DEF IsContent, IsObservation
  <2>. QED BY <1>3, <1>4, <2>1, <2>2
<1>6. q \notin DOMAIN Bundle
  <2>1. SeedPaths \cap DOMAIN b = {}
    BY <1>1, SourceAvoidsSeeds
  <2>2. SeedPaths \cap DOMAIN Outputs(o.checkout, selection) = {}
    BY <1>1, OutputsAvoidSeeds DEF IsObservation
  <2>. QED BY <1>3, <1>4, <2>1, <2>2, DisjointAssumption DEF DisjointAssumption, SeedPaths
<1>7. q \in DOMAIN new /\ new[q] = managed[q]
  BY <1>3, <1>6 DEF Over, Written, Restrict
<1>8. q \in DOMAIN plan.ops /\ plan.ops[q].new = managed[q]
  BY <1>2, <1>7 DEF Operations
<1>. QED BY <1>3, <1>5, <1>8, OverlayWrites

\* add and reconcile record what they render (compile_add_plan,
\* compile_reconcile_plan); the outputs reconcile deletes are not among it.
LEMMA LifecycleInstallsItsInventory ==
  ASSUME NEW o, IsObservation(o), Existing(o),
         NEW i \in Intents, i.kind \in {"add", "reconcile"},
         NEW plan \in Candidates(i, o),
         NEW q \in DOMAIN plan.after.managed
  PROVE  q \in Paths /\ Normalized(Overlay(o.tree, plan)[q]) = plan.after.managed[q]
<1>1. Accepted(i, o) /\ plan \in Compile(i, o) /\ o.manifest \in Manifests
  BY DEF Candidates, IsObservation
<1>. DEFINE m == o.manifest
<1>2. CASE i.kind = "add"
  <2>1. plan \in CompileAdd(o, i.root, i.capabilities) /\ i.root \in {"own", "checkout"}
    BY <1>1, <1>2, IntentAssumption DEF Compile, LifecycleCandidates, IntentAssumption
  <2>. DEFINE v == CodeVersion(o, i.root)
              additions == Additions(m, i.capabilities)
              outputs == Outputs(v, m.profile \cup additions)
  <2>2. plan = AddPlan(o, additions, outputs) /\ Resolvable(v, m.profile \cup additions)
    BY <2>1 DEF CompileAdd
  <2>3. plan.after = [m EXCEPT !.additions = additions, !.managed = Identities(outputs)]
    BY <2>2 DEF AddPlan, Extended
  <2>4. q \in DOMAIN outputs /\ plan.after.managed[q] = Normalized(outputs[q])
    BY <1>1, <2>3 DEF Identities, Manifests
  <2>5. q \in Paths
    BY <2>1, <2>2, <2>4, OutputsAreContent DEF IsContent, CodeVersion, IsObservation
  <2>6. q \in DOMAIN plan.ops /\ plan.ops[q].new = outputs[q]
    BY <2>2, <2>4 DEF AddPlan, Operations
  <2>. QED BY <2>4, <2>5, <2>6, OverlayWrites
<1>3. CASE i.kind = "reconcile"
  <2>1. ReconcileAccepted(o, "own") /\ plan \in CompileReconcile(o, "own", i.overwrite)
    BY <1>1, <1>3 DEF Accepted, Compile, LifecycleCandidates
  <2>. DEFINE v == CodeVersion(o, "own")
              render == Outputs(v, Selected(m))
  <2>2. PICK b : plan = ReconcilePlan(o, render, b)
    BY <2>1 DEF CompileReconcile
  <2>3. plan.after = [m EXCEPT !.base = b, !.managed = Identities(render)]
    BY <2>2 DEF ReconcilePlan
  <2>4. q \in DOMAIN render /\ plan.after.managed[q] = Normalized(render[q])
    BY <1>1, <2>3 DEF Identities, Manifests
  <2>5. q \in Paths
    BY <2>1, <2>4, OutputsAreContent
       DEF IsContent, CodeVersion, IsObservation, ReconcileAccepted, SourceChanged, Comparable
  <2>6. q \in DOMAIN plan.ops /\ plan.ops[q].new = render[q]
    BY <2>2, <2>4 DEF ReconcilePlan, Operations, Over
  <2>. QED BY <2>4, <2>5, <2>6, OverlayWrites
<1>. QED BY <1>2, <1>3

\* Whatever the adopter keeps, edits or removes meanwhile, the tree has what the
\* inventory records when apply, adopt, add or reconcile is done.
THEOREM TheRecordIsInstalled == Spec => InventoryIsInstalled
<1>1. LifecycleInv /\ [Next]_vars =>
        \A p \in Processes : Installs(p, {"apply", "adopt", "add", "reconcile"}) =>
          \A q \in DOMAIN manifest'.managed : Normalized(tree'[q]) = manifest'.managed[q]
  <2>. SUFFICES ASSUME LifecycleInv, [Next]_vars, NEW p \in Processes,
                       Installs(p, {"apply", "adopt", "add", "reconcile"}),
                       NEW q \in DOMAIN manifest'.managed
                PROVE  Normalized(tree'[q]) = manifest'.managed[q]
    OBVIOUS
  <2>1. Install(p) /\ commands[p].intent.kind \in {"apply", "adopt", "add", "reconcile"}
    BY OnlyInstallInstalls DEF Installs
  <2>. DEFINE i == commands[p].intent
  <2>2. PICK plan \in Candidates(i, Observed) :
          i \in Intents /\ tree' = Overlay(tree, plan) /\ manifest' = plan.after
    BY <2>1, InstallFacts
  <2>3. IsObservation(Observed) /\ Observed.tree = tree /\ q \in DOMAIN plan.after.managed
    BY <2>2 DEF LifecycleInv, Observed
  <2>. HIDE DEF i
  <2>4. CASE i.kind = "apply"
    <3>1. plan \in CompileApply(Observed, i.selection, i.leave)
      BY <2>2, <2>4 DEF Candidates, Compile, InitialCandidates
    <3>. QED BY <2>2, <2>3, <3>1, ApplyInstallsItsInventory
  <2>5. CASE i.kind = "adopt"
    <3>1. plan \in CompileAdopt(Observed, i.selection, i.collisions)
      BY <2>2, <2>5 DEF Candidates, Compile, AdoptCandidates
    <3>. QED BY <2>2, <2>3, <3>1, AdoptInstallsItsInventory
  <2>6. CASE i.kind \in {"add", "reconcile"}
    <3>1. Existing(Observed)
      BY <2>2, <2>6, LifecycleNeedsAProject
    <3>. QED BY <2>2, <2>3, <2>6, <3>1, LifecycleInstallsItsInventory
  <2>. QED BY <2>1, <2>4, <2>5, <2>6 DEF i
<1>. QED BY <1>1, Invariance, PTL DEF Spec, InventoryIsInstalled

-----------------------------------------------------------------------------
\* A reconcile settles the source, but for outputs and generated state.

\* What a resolvable selection renders is an output.
LEMMA RenderedAreOutputs ==
  ASSUME NEW v \in Versions, NEW s, Resolvable(v, s)
  PROVE  DOMAIN Outputs(v, s) \subseteq OutputPaths
<1>1. Effective(s) \in SUBSET Capabilities
  BY TemplateAssumption DEF Resolvable, TemplateAssumption
<1>. QED BY <1>1 DEF Outputs, OutputPaths

\* The paths a version may render for some selection are outputs
\* (_declared_managed_paths).
LEMMA DeclaredManagedAreOutputs ==
  ASSUME NEW v \in Versions
  PROVE  DeclaredManaged(v) \subseteq OutputPaths
<1>1. Catalog[v] \subseteq Capabilities
  BY TemplateAssumption DEF TemplateAssumption
<1>2. \A s \in SUBSET Catalog[v] : s \in SUBSET Capabilities
  BY <1>1
<1>. QED BY <1>2 DEF DeclaredManaged, OutputPaths

\* A reconcile writes what its version may render and deletes what it retires.
LEMMA ReconcileTouchesOutputs ==
  ASSUME NEW o, IsObservation(o), ReconcileAccepted(o, "own"), NEW overwrite,
         NEW plan \in CompileReconcile(o, "own", overwrite),
         NEW q \in Paths, Overlay(o.tree, plan)[q] # o.tree[q]
  PROVE  \/ q \in DeclaredManaged(o.version)
         \/ /\ q \in DOMAIN o.manifest.managed \ DOMAIN plan.after.managed
            /\ Overlay(o.tree, plan)[q] = Absent
<1>. DEFINE m == o.manifest
            render == Outputs(o.version, Selected(m))
            gone == Gone(Retired(o, render))
<1>1. m \in Manifests /\ Effective(Selected(m)) \subseteq Catalog[o.version]
  BY DEF ReconcileAccepted, SourceChanged, Comparable, Resolvable, IsObservation, CodeVersion
<1>2. PICK b : plan = ReconcilePlan(o, render, b)
  BY DEF CompileReconcile, CodeVersion
<1>3. plan.ops = Operations(o.tree, Over(render, gone))
  BY <1>2 DEF ReconcilePlan
<1>4. DOMAIN plan.after.managed = DOMAIN render
  <2>1. plan.after = [m EXCEPT !.base = b, !.managed = Identities(render)]
    BY <1>2 DEF ReconcilePlan
  <2>. QED BY <1>1, <2>1 DEF Manifests, Identities
<1>5. DOMAIN render \subseteq DeclaredManaged(o.version)
  BY <1>1 DEF Outputs, DeclaredManaged
<1>6. q \in DOMAIN plan.ops /\ Overlay(o.tree, plan)[q] = plan.ops[q].new
  BY DEF Overlay
<1>7. CASE q \in DOMAIN render
  BY <1>5, <1>7
<1>8. CASE q \notin DOMAIN render
  <2>1. q \in Retired(o, render) /\ plan.ops[q].new = Absent
    <3>. HIDE DEF render
    <3>. QED BY <1>3, <1>6, <1>8 DEF Operations, Over, Gone
  <2>. QED BY <1>4, <1>6, <2>1 DEF Retired
<1>. QED BY <1>7, <1>8

\* What a declared path stands for is source, unless it is reserved.
LEMMA VisitedIsCollected ==
  ASSUME NEW o, NEW root, NEW reserved,
         NEW r \in Declares[TemplateFile(o, root, Ownership)] \ reserved,
         NEW q \in Visit(o, root, r), q \notin reserved
  PROVE  q \in SourcePaths(o, root, reserved)
<1>1. q \in Visited(o, root, Declares[TemplateFile(o, root, Ownership)] \ reserved)
  BY DEF Visited
<1>. QED BY <1>1 DEF SourcePaths

\* What is there, below a declared path, neither generated nor reserved, is
\* collected (visit).
LEMMA PresentIsCollected ==
  ASSUME NEW o, NEW reserved, NEW r \in Declares[o.tree[Ownership]] \ reserved,
         NEW q \in Below(r), At(o.tree, q) # Absent, q \notin Generated \cup reserved
  PROVE  q \in SourcePaths(o, "own", reserved)
<1>1. \A x : TemplateFile(o, "own", x) = At(o.tree, x)
  BY DEF TemplateFile
<1>2. TemplateFile(o, "own", Ownership) = o.tree[Ownership]
  BY <1>1, AtPath, TemplateAssumption DEF TemplateAssumption
<1>3. CASE q = r
  <2>1. q \in Visit(o, "own", r)
    BY <1>1, <1>3 DEF Visit, Below
  <2>. QED BY <1>2, <2>1, VisitedIsCollected
<1>4. CASE q # r
  <2>1. r \in Folders /\ q \in Inside[r]
    BY <1>4 DEF Below
  <2>2. \E x \in Inside[r] \cap Paths : o.tree[x] # Absent
    <3>1. CASE q \notin Folders
      <4>1. q \in Paths /\ At(o.tree, q) = o.tree[q]
        BY <2>1, <3>1, FolderAssumption DEF FolderAssumption, Names, At
      <4>. QED BY <2>1, <4>1
    <3>2. CASE q \in Folders
      <4>1. \E x \in Inside[q] \cap Paths : o.tree[x] # Absent
        BY <3>2 DEF At
      <4>2. Inside[q] \subseteq Inside[r]
        BY <2>1, <3>2, FolderAssumption DEF FolderAssumption
      <4>. QED BY <4>1, <4>2
    <3>. QED BY <3>1, <3>2
  <2>3. At(o.tree, r) = Directory
    BY <2>1, <2>2 DEF At
  <2>4. q \in Visit(o, "own", r)
    BY <1>1, <2>3 DEF Visit
  <2>. QED BY <1>2, <2>4, VisitedIsCollected
<1>. QED BY <1>3, <1>4

\* After a reconcile nothing of the source is different from its record but
\* generated state, outputs that are declared as source or just retired, and
\* folders the reconcile itself made or emptied, whatever the template
\* (collect_template_source_entries, _source_delta).
THEOREM TheSourceSettles == Spec => ReconcileSettles
<1>1. LifecycleInv /\ [Next]_vars =>
        \A p \in Processes : Installs(p, {"reconcile"}) =>
          \A q \in SourceDelta(Observed') :
            \/ q \in Generated
            \/ q \in DeclaredManaged(version) \cup (DOMAIN manifest.managed \ DOMAIN manifest'.managed)
            \/ q \in Folders /\ At(tree', q) # At(tree, q)
  <2>. DEFINE outputs ==
                DeclaredManaged(version) \cup (DOMAIN manifest.managed \ DOMAIN manifest'.managed)
  <2>. SUFFICES ASSUME LifecycleInv, [Next]_vars, NEW p \in Processes,
                       Installs(p, {"reconcile"}), NEW q \in SourceDelta(Observed'),
                       q \notin Generated \cup outputs,
                       q \in Folders => At(tree', q) = At(tree, q)
                PROVE  FALSE
    OBVIOUS
  <2>. DEFINE i == commands[p].intent
              o == Observed
              reserved == SlotPaths \cup DeclaredManaged(version)
  <2>1. Install(p) /\ i.kind = "reconcile"
    BY OnlyInstallInstalls DEF Installs
  <2>2. PICK plan \in Candidates(i, o) :
          i \in Intents /\ tree' = Overlay(tree, plan) /\ manifest' = plan.after
    BY <2>1, InstallFacts
  <2>3. ReconcileAccepted(o, "own") /\ plan \in CompileReconcile(o, "own", i.overwrite)
    BY <2>1, <2>2 DEF Candidates, Accepted, Compile, LifecycleCandidates
  <2>4. /\ IsObservation(o) /\ o.manifest \in Manifests
        /\ o.tree = tree /\ o.version = version /\ o.manifest = manifest /\ version \in Versions
        /\ Observed'.tree = tree' /\ Observed'.manifest = manifest'
    BY <2>3 DEF LifecycleInv, IsObservation, ReconcileAccepted, SourceChanged, Comparable, Observed
  <2>5. PICK b \in SourceEntries(o, "own", reserved) :
          plan = ReconcilePlan(o, Outputs(version, Selected(manifest)), b)
    BY <2>3, <2>4 DEF CompileReconcile, CodeVersion
  <2>6. manifest'.base = b
    <3>1. plan.after = [manifest EXCEPT !.base = b,
                          !.managed = Identities(Outputs(version, Selected(manifest)))]
      BY <2>4, <2>5 DEF ReconcilePlan
    <3>. QED BY <2>2, <2>4, <3>1 DEF Manifests
  <2>7. /\ b \in Baselines /\ DOMAIN b = SourcePaths(o, "own", reserved)
        /\ \A x \in DOMAIN b : b[x] = At(tree, x)
    <3>1. b \in Baselines /\ \A x \in DOMAIN b : b[x] = TemplateFile(o, "own", x)
      <4>. HIDE DEF o, reserved
      <4>. QED BY <2>4, <2>5, SourceEntriesAreTyped
    <3>2. DOMAIN b = SourcePaths(o, "own", reserved)
      BY <2>5 DEF SourceEntries
    <3>. QED BY <2>4, <3>1, <3>2 DEF TemplateFile
  <2>8. ASSUME NEW x \in Paths, tree'[x] # tree[x]
        PROVE  /\ x \in outputs
               /\ x \in DeclaredManaged(version) \/ tree'[x] = Absent
    <3>. HIDE DEF i, o
    <3>. QED BY <2>2, <2>3, <2>4, <2>8, ReconcileTouchesOutputs
  <2>9. q \in Names => At(tree', q) = At(tree, q)
    <3>1. CASE q \in Paths
      BY <2>8, <3>1, AtPath
    <3>. QED BY <3>1 DEF Names
  <2>10. q \notin DOMAIN b
    <3>1. ASSUME q \in DOMAIN b PROVE FALSE
      <4>1. At(tree', q) # b[q]
        BY <2>4, <2>6, <3>1 DEF SourceDelta, NewlyDeclared
      <4>2. q \in Names
        BY <2>7, <3>1 DEF Baselines
      <4>. QED BY <2>7, <2>9, <3>1, <4>1, <4>2
    <3>. QED BY <3>1
  <2>11. /\ tree'[Ownership] \in DOMAIN Declares
         /\ q \notin SlotPaths /\ At(tree', q) # Absent
         /\ \E r \in Declares[tree'[Ownership]] \cup {Ownership} : q \in Below(r)
    BY <2>4, <2>6, <2>10 DEF SourceDelta, NewlyDeclared
  <2>12. DeclaredManaged(version) \subseteq OutputPaths /\ OutputPaths \subseteq Paths
    BY <2>4, DeclaredManagedAreOutputs, TemplateAssumption
       DEF TemplateAssumption, OutputPaths, IsContent
  <2>13. tree'[Ownership] = tree[Ownership]
    <3>1. Ownership \in Paths /\ Ownership \notin OutputPaths /\ Absent \notin DOMAIN Declares
      BY TemplateAssumption, DisjointAssumption DEF TemplateAssumption, DisjointAssumption
    <3>. QED BY <2>8, <2>11, <2>12, <3>1
  <2>14. PICK r \in Declares[tree[Ownership]] \cup {Ownership} : q \in Below(r)
    BY <2>11, <2>13
  <2>15. q # Ownership
    BY <2>7, <2>10 DEF SourcePaths
  <2>16. r \in Declares[tree[Ownership]]
    <3>1. Below(Ownership) = {Ownership}
      BY AtPath, TemplateAssumption DEF Below, TemplateAssumption
    <3>. QED BY <2>14, <2>15, <3>1
  <2>17. r \notin reserved
    <3>1. r \notin SlotPaths
      BY <2>11, <2>13, <2>16, TemplateAssumption, DisjointAssumption
         DEF TemplateAssumption, DisjointAssumption
    <3>2. r \in DeclaredManaged(version) => q = r
      BY <2>12, <2>14, AtPath DEF Below
    <3>. QED BY <3>1, <3>2
  <2>18. q \in Names
    BY <2>11, <2>13, <2>14, <2>16, TemplateAssumption, FolderAssumption
       DEF TemplateAssumption, FolderAssumption, Below
  <2>19. At(o.tree, q) # Absent /\ q \notin Generated \cup reserved
    BY <2>4, <2>9, <2>11, <2>18
  <2>20. q \in SourcePaths(o, "own", reserved)
    <3>1. r \in Declares[o.tree[Ownership]] \ reserved
      BY <2>4, <2>16, <2>17
    <3>. HIDE DEF o, reserved
    <3>. QED BY <2>14, <2>19, <3>1, PresentIsCollected
  <2>. QED BY <2>7, <2>10, <2>20
<1>. QED BY <1>1, Invariance, PTL DEF Spec, ReconcileSettles

-----------------------------------------------------------------------------
(* Drift is repairable.                                                     *)
(*                                                                          *)
(* What the project's own copy of the template renders is what the manifest *)
(* records, as long as the source is the recorded one: the record is that   *)
(* of a version, the source names it, and nothing but Copier has changed    *)
(* the files that decide what is rendered.                                  *)

\* The tree has the engine of version v.
HasEngine(engine, t, v) == \A p \in engine : t[p] = SourceFile(v, p)

\* The baseline has the declared engine of version v.
BaselineOf(engine, base, v) ==
  /\ Ownership \in DOMAIN base /\ base[Ownership] \in DOMAIN Declares
  /\ engine \cap Declares[base[Ownership]] \subseteq DOMAIN base
  /\ \A p \in engine \cap DOMAIN base : base[p] = SourceFile(v, p)

\* The manifest records the render of the version whose baseline it has, unless
\* another version has lent it one.
RecordsRender(engine, m, lent) ==
  /\ DOMAIN m.managed \subseteq OutputPaths
  /\ \E v \in Versions :
       /\ BaselineOf(engine, m.base, v)
       /\ lent \/ m.managed = Identities(Outputs(v, Selected(m)))

\* Whether the record is lent after a command that found it so, or not.
Lent(o, i, lent) ==
  \/ i.kind = "add" /\ CodeVersion(o, i.root) # o.version
  \/ i.kind = "restore" /\ lent

\* Installed or not, a project that did not adopt the template has its engine.
Supported(engine, o, lent) ==
  IF Existing(o)
    THEN o.manifest.generation # "adopted" =>
           HasEngine(engine, o.tree, o.version) /\ RecordsRender(engine, o.manifest, lent)
    ELSE \/ HasEngine(engine, o.tree, o.version)
         \/ ~IsFile(o.tree[Answers]) /\ ~IsFile(o.tree[Ownership])

\* The source of an own copy that has the engine of its version is a baseline
\* of that version (collect_template_source_entries).
LEMMA OwnBaseline ==
  ASSUME NEW engine, EngineDecides(engine), NEW o,
         HasEngine(engine, o.tree, o.version) \/ ~IsFile(o.tree[Ownership]),
         NEW reserved, engine \cap reserved = {}, NEW b \in SourceEntries(o, "own", reserved)
  PROVE  HasEngine(engine, o.tree, o.version) /\ BaselineOf(engine, b, o.version)
<1>0. Ownership \in Paths /\ engine \subseteq Paths /\ DOMAIN Declares \subseteq Contents
  BY TemplateAssumption DEF TemplateAssumption, EngineDecides
<1>1. \A p \in Paths : TemplateFile(o, "own", p) = o.tree[p]
  BY AtPath DEF TemplateFile
<1>2. /\ o.tree[Ownership] \in DOMAIN Declares
      /\ DOMAIN b = SourcePaths(o, "own", reserved)
      /\ \A p \in DOMAIN b : b[p] = TemplateFile(o, "own", p)
      /\ \A p \in Declares[o.tree[Ownership]] \ reserved : TemplateFile(o, "own", p) # Absent
  BY <1>0, <1>1 DEF SourceEntries
<1>3. Ownership \in DOMAIN b /\ b[Ownership] = o.tree[Ownership]
  BY <1>0, <1>1, <1>2 DEF SourcePaths
<1>4. HasEngine(engine, o.tree, o.version)
  BY <1>0, <1>2, TemplateAssumption DEF IsFile, TemplateAssumption
<1>5. ASSUME NEW p \in engine \cap Declares[b[Ownership]] PROVE p \in DOMAIN b
  <2>1. p \in Declares[TemplateFile(o, "own", Ownership)] \ reserved
    BY <1>0, <1>1, <1>3
  <2>2. p \notin Generated /\ p \in Below(p)
    BY DEF EngineDecides, Below
  <2>3. p \in Visit(o, "own", p)
    BY <1>2, <1>3, <2>1, <2>2 DEF Visit
  <2>. QED BY <1>2, <2>1, <2>3, VisitedIsCollected
<1>6. \A p \in engine \cap DOMAIN b : b[p] = SourceFile(o.version, p)
  BY <1>0, <1>1, <1>2, <1>4 DEF HasEngine
<1>. QED BY <1>2, <1>3, <1>4, <1>5, <1>6 DEF BaselineOf

\* A source that is as recorded renders what the version of the record renders.
LEMMA SameSourceRendersAlike ==
  ASSUME NEW engine, EngineDecides(engine), NEW o, IsObservation(o),
         HasEngine(engine, o.tree, o.version), SourceDelta(o) = {},
         NEW v \in Versions, BaselineOf(engine, o.manifest.base, v)
  PROVE  Alike(v, o.version)
<1>. DEFINE base == o.manifest.base
<1>1. \A p \in DOMAIN base : At(o.tree, p) = base[p]
  BY DEF SourceDelta
<1>2. Ownership \in engine /\ base[Ownership] = SourceFile(v, Ownership)
  BY DEF BaselineOf, EngineDecides
<1>3. SourceFile(v, Ownership) \in DOMAIN Declares
  BY <1>2 DEF BaselineOf
<1>4. ASSUME NEW p \in engine \cap (Declares[SourceFile(v, Ownership)] \cup {Ownership})
      PROVE  SourceFile(o.version, p) = SourceFile(v, p)
  <2>1. p \in Paths /\ p \in DOMAIN base
    BY <1>2 DEF BaselineOf, EngineDecides
  <2>2. base[p] = SourceFile(v, p)
    BY <2>1 DEF BaselineOf
  <2>3. o.tree[p] = SourceFile(o.version, p)
    BY DEF HasEngine
  <2>4. At(o.tree, p) = o.tree[p]
    BY <2>1, AtPath
  <2>. QED BY <1>1, <2>1, <2>2, <2>3, <2>4
<1>5. o.version \in Versions
  BY DEF IsObservation
<1>. QED BY <1>3, <1>4, <1>5 DEF EngineDecides

\* What is rendered, seeded and cleaned up is not the engine.
LEMMA EngineStands ==
  ASSUME NEW engine, EngineDecides(engine), NEW o, IsObservation(o),
         NEW lent, Supported(engine, o, lent), Existing(o) => o.manifest.generation # "adopted",
         NEW i \in Intents, i.kind \notin {"adopt", "plan reconcile"},
         NEW plan \in Candidates(i, o), NEW q \in engine
  PROVE  Overlay(o.tree, plan)[q] = o.tree[q]
<1>. DEFINE m == o.manifest
<1>1. /\ Accepted(i, o) /\ plan \in Compile(i, o)
      /\ i.kind \in {"apply", "add", "restore", "reconcile"}
  BY IntentAssumption DEF Candidates, IntentAssumption
<1>2. /\ q \in Paths
      /\ q \notin SeedPaths \cup OutputPaths \cup DOMAIN Cleanup \cup {Inventory}
  BY DEF EngineDecides
<1>3. Existing(o) => DOMAIN m.managed \subseteq OutputPaths
  BY DEF Supported, RecordsRender
<1>4. q \notin DOMAIN plan.ops
  <2>1. CASE i.kind = "apply"
    <3>. DEFINE managed == Outputs(o.version, i.selection)
    <3>1. plan \in CompileApply(o, i.selection, i.leave)
      BY <1>1, <2>1 DEF Compile, InitialCandidates
    <3>0. PICK base : /\ plan = ApplyPlan(o, i.selection, i.leave, base)
                      /\ Resolvable(o.version, i.selection)
      BY <3>1 DEF CompileApply
    <3>2. plan.ops = Operations(o.tree, Over(Over(Bundle, managed),
                                             Gone(CleanupDeletes(o, managed, i.leave))))
      BY <3>0 DEF ApplyPlan
    <3>3. DOMAIN managed \subseteq OutputPaths
      BY <3>0, RenderedAreOutputs DEF IsObservation
    <3>4. CleanupDeletes(o, managed, i.leave) \subseteq DOMAIN Cleanup \cup {Inventory}
      BY DEF CleanupDeletes
    <3>5. DOMAIN plan.ops = SeedPaths \cup DOMAIN managed \cup CleanupDeletes(o, managed, i.leave)
      <4>. HIDE DEF managed
      <4>. QED BY <3>2 DEF Operations, Over, Gone, SeedPaths
    <3>. QED BY <1>2, <3>3, <3>4, <3>5
  <2>2. CASE i.kind = "add"
    <3>1. plan \in CompileAdd(o, i.root, i.capabilities) /\ i.root \in {"own", "checkout"}
      BY <1>1, <2>2, IntentAssumption DEF Compile, LifecycleCandidates, IntentAssumption
    <3>. DEFINE v == CodeVersion(o, i.root)
                additions == Additions(m, i.capabilities)
                outputs == Outputs(v, m.profile \cup additions)
    <3>2. plan = AddPlan(o, additions, outputs) /\ Resolvable(v, m.profile \cup additions)
      BY <3>1 DEF CompileAdd
    <3>3. v \in Versions
      BY DEF CodeVersion, IsObservation
    <3>4. DOMAIN outputs \subseteq OutputPaths
      BY <3>2, <3>3, RenderedAreOutputs
    <3>5. DOMAIN plan.ops = DOMAIN outputs
      <4>. HIDE DEF outputs
      <4>. QED BY <3>2 DEF AddPlan, Operations
    <3>. QED BY <1>2, <3>4, <3>5
  <2>3. CASE i.kind = "restore"
    <3>1. Existing(o) /\ plan \in CompileRestore(o, i.root, i.requested)
      BY <1>1, <2>3 DEF Accepted, RestoreAccepted, SourceSame, Comparable, Compile, LifecycleCandidates
    <3>. QED BY <1>2, <1>3, <3>1, RestoreWrites
  <2>4. CASE i.kind = "reconcile"
    <3>1. ReconcileAccepted(o, "own") /\ plan \in CompileReconcile(o, "own", i.overwrite)
      BY <1>1, <2>4 DEF Accepted, Compile, LifecycleCandidates
    <3>2. Existing(o) /\ Resolvable(o.version, Selected(m))
      BY <3>1 DEF ReconcileAccepted, SourceChanged, Comparable, CodeVersion
    <3>. DEFINE render == Outputs(CodeVersion(o, "own"), Selected(m))
    <3>3. DOMAIN plan.ops = DOMAIN render \cup Retired(o, render)
      <4>1. PICK b : plan = ReconcilePlan(o, render, b)
        BY <3>1 DEF CompileReconcile
      <4>. QED BY <4>1 DEF ReconcilePlan, Operations, Over, Gone
    <3>4. DOMAIN render \subseteq OutputPaths
      BY <3>2, RenderedAreOutputs DEF CodeVersion, IsObservation
    <3>5. Retired(o, render) \subseteq OutputPaths
      BY <1>3, <3>2 DEF Retired
    <3>. QED BY <1>2, <3>3, <3>4, <3>5
  <2>. QED BY <1>1, <2>1, <2>2, <2>3, <2>4
<1>. QED BY <1>2, <1>4 DEF Overlay

\* The record of an initial install is that of the project's own version
\* (compile_initial_plan).
LEMMA ApplyRecordsRender ==
  ASSUME NEW engine, EngineDecides(engine), NEW o, IsObservation(o), ~Existing(o),
         NEW lent, Supported(engine, o, lent), NEW selection, NEW leave, NEW next,
         NEW plan \in CompileApply(o, selection, leave)
  PROVE  HasEngine(engine, o.tree, o.version) /\ RecordsRender(engine, plan.after, next)
<1>. DEFINE managed == Outputs(o.version, selection)
            reserved == SlotPaths \cup DOMAIN managed
<1>1. PICK b \in SourceEntries(o, "own", reserved) :
        plan = ApplyPlan(o, selection, leave, b) /\ Resolvable(o.version, selection)
  BY DEF CompileApply
<1>2. DOMAIN managed \subseteq OutputPaths
  BY <1>1, RenderedAreOutputs DEF IsObservation
<1>3. engine \cap reserved = {}
  BY <1>2, TemplateAssumption DEF EngineDecides, TemplateAssumption
<1>4. HasEngine(engine, o.tree, o.version) /\ BaselineOf(engine, b, o.version)
  <2>. HIDE DEF reserved
  <2>. QED BY <1>1, <1>3, OwnBaseline DEF Supported
<1>5. /\ plan.after.managed = Identities(managed) /\ plan.after.base = b
      /\ Selected(plan.after) = selection
  BY <1>1 DEF ApplyPlan, InitialManifest, Selected
<1>6. DOMAIN plan.after.managed = DOMAIN managed
  BY <1>5 DEF Identities
<1>. QED BY <1>2, <1>4, <1>5, <1>6 DEF RecordsRender, IsObservation

\* add extends the record by what the rendering version renders: that is what the
\* recorded one renders too when it is the project's own, whose source is as
\* recorded (verify_old_render_oracle, compile_add_plan).
LEMMA AddRecordsRender ==
  ASSUME NEW engine, EngineDecides(engine), NEW o, IsObservation(o), Existing(o),
         HasEngine(engine, o.tree, o.version), SourceDelta(o) = {},
         NEW lent, RecordsRender(engine, o.manifest, lent),
         NEW root \in {"own", "checkout"}, NEW capabilities \in SUBSET Capabilities,
         NEW plan \in CompileAdd(o, root, capabilities)
  PROVE  RecordsRender(engine, plan.after, CodeVersion(o, root) # o.version)
<1>. DEFINE m == o.manifest
            w == CodeVersion(o, root)
            additions == Additions(m, capabilities)
            outputs == Outputs(w, m.profile \cup additions)
<1>1. plan = AddPlan(o, additions, outputs) /\ Resolvable(w, m.profile \cup additions)
  BY DEF CompileAdd
<1>2. m \in Manifests /\ w \in Versions
  BY DEF IsObservation, CodeVersion
<1>3. m.profile \cup additions \in SUBSET Capabilities
  BY <1>2 DEF Additions, Manifests
<1>4. PICK v \in Versions : BaselineOf(engine, m.base, v)
  BY DEF RecordsRender
<1>5. w = o.version => Identities(outputs) = Identities(Outputs(v, m.profile \cup additions))
  BY <1>3, <1>4, SameSourceRendersAlike DEF Alike
<1>6. plan.after = [m EXCEPT !.additions = additions, !.managed = Identities(outputs)]
  BY <1>1 DEF AddPlan, Extended
<1>7. /\ plan.after.managed = Identities(outputs) /\ plan.after.base = m.base
      /\ plan.after.profile = m.profile /\ plan.after.additions = additions
  <2>. HIDE DEF m, additions, outputs
  <2>. QED BY <1>2, <1>6 DEF Manifests
<1>8. DOMAIN plan.after.managed \subseteq OutputPaths
  <2>1. DOMAIN outputs \subseteq OutputPaths
    BY <1>1, <1>2, RenderedAreOutputs
  <2>. QED BY <1>7, <2>1 DEF Identities
<1>9. Selected(plan.after) = m.profile \cup additions
  BY <1>7 DEF Selected
<1>. QED BY <1>4, <1>5, <1>7, <1>8, <1>9 DEF RecordsRender

\* The record of a reconcile is that of the version Copier brought
\* (compile_reconcile_plan, _reconcile_candidate_manifest).
LEMMA ReconcileRecordsRender ==
  ASSUME NEW engine, EngineDecides(engine), NEW o, IsObservation(o),
         HasEngine(engine, o.tree, o.version), ReconcileAccepted(o, "own"), NEW overwrite,
         NEW next, NEW plan \in CompileReconcile(o, "own", overwrite)
  PROVE  RecordsRender(engine, plan.after, next)
<1>. DEFINE m == o.manifest
            render == Outputs(o.version, Selected(m))
            reserved == SlotPaths \cup DeclaredManaged(o.version)
<1>1. m \in Manifests /\ o.version \in Versions /\ Resolvable(o.version, Selected(m))
  BY DEF ReconcileAccepted, SourceChanged, Comparable, CodeVersion, IsObservation
<1>2. PICK b \in SourceEntries(o, "own", reserved) : plan = ReconcilePlan(o, render, b)
  BY DEF CompileReconcile, CodeVersion
<1>3. engine \cap reserved = {}
  BY <1>1, DeclaredManagedAreOutputs, TemplateAssumption DEF EngineDecides, TemplateAssumption
<1>4. BaselineOf(engine, b, o.version)
  <2>. HIDE DEF reserved
  <2>. QED BY <1>2, <1>3, OwnBaseline
<1>5. plan.after = [m EXCEPT !.base = b, !.managed = Identities(render)]
  BY <1>2 DEF ReconcilePlan
<1>6. /\ plan.after.managed = Identities(render) /\ plan.after.base = b
      /\ plan.after.profile = m.profile /\ plan.after.additions = m.additions
  <2>. HIDE DEF m, render
  <2>. QED BY <1>1, <1>5 DEF Manifests
<1>7. DOMAIN plan.after.managed \subseteq OutputPaths
  <2>1. DOMAIN render \subseteq OutputPaths
    BY <1>1, RenderedAreOutputs
  <2>. QED BY <1>6, <2>1 DEF Identities
<1>8. Selected(plan.after) = Selected(m)
  BY <1>6 DEF Selected
<1>. QED BY <1>1, <1>4, <1>6, <1>7, <1>8 DEF RecordsRender

\* Every plan but that of an adoption leaves a supported project supported.
LEMMA PlanKeepsSupport ==
  ASSUME NEW engine, EngineDecides(engine), NEW o, IsObservation(o),
         NEW lent, Supported(engine, o, lent), Existing(o) => o.manifest.generation # "adopted",
         NEW i \in Intents, i.kind \notin {"adopt", "plan reconcile"},
         NEW plan \in Candidates(i, o)
  PROVE  /\ HasEngine(engine, Overlay(o.tree, plan), o.version)
         /\ RecordsRender(engine, plan.after, Lent(o, i, lent))
<1>1. /\ Accepted(i, o) /\ plan \in Compile(i, o)
      /\ i.kind \in {"apply", "add", "restore", "reconcile"}
  BY IntentAssumption DEF Candidates, IntentAssumption
<1>2. Existing(o) =>
        HasEngine(engine, o.tree, o.version) /\ RecordsRender(engine, o.manifest, lent)
  BY DEF Supported
<1>3. HasEngine(engine, o.tree, o.version) /\ RecordsRender(engine, plan.after, Lent(o, i, lent))
  <2>1. CASE i.kind = "apply"
    <3>1. ~Existing(o) /\ plan \in CompileApply(o, i.selection, i.leave)
      BY <1>1, <2>1 DEF Accepted, ApplyAccepted, Compile, InitialCandidates
    <3>. QED BY <3>1, ApplyRecordsRender
  <2>2. CASE i.kind = "add"
    <3>1. /\ Existing(o) /\ SourceDelta(o) = {} /\ plan \in CompileAdd(o, i.root, i.capabilities)
          /\ i.root \in {"own", "checkout"} /\ i.capabilities \in SUBSET Capabilities
      BY <1>1, <2>2, IntentAssumption
         DEF Accepted, AddAccepted, SourceSame, Comparable, Compile, LifecycleCandidates,
             IntentAssumption
    <3>2. Lent(o, i, lent) = (CodeVersion(o, i.root) # o.version)
      BY <2>2 DEF Lent
    <3>3. RecordsRender(engine, plan.after, CodeVersion(o, i.root) # o.version)
      BY <1>2, <3>1, AddRecordsRender
    <3>. QED BY <1>2, <3>1, <3>2, <3>3
  <2>3. CASE i.kind = "restore"
    <3>1. Existing(o) /\ plan \in CompileRestore(o, i.root, i.requested)
      BY <1>1, <2>3 DEF Accepted, RestoreAccepted, SourceSame, Comparable, Compile, LifecycleCandidates
    <3>. PICK render, selected : plan = RestorePlan(o, render, selected)
      BY <3>1 DEF CompileRestore
    <3>2. plan.after = o.manifest
      BY DEF RestorePlan
    <3>3. RecordsRender(engine, o.manifest, lent) => RecordsRender(engine, o.manifest, Lent(o, i, lent))
      BY <2>3 DEF Lent, RecordsRender
    <3>. QED BY <1>2, <3>1, <3>2, <3>3
  <2>4. CASE i.kind = "reconcile"
    <3>1. ReconcileAccepted(o, "own") /\ plan \in CompileReconcile(o, "own", i.overwrite)
      BY <1>1, <2>4 DEF Accepted, Compile, LifecycleCandidates
    <3>2. Existing(o)
      BY <3>1 DEF ReconcileAccepted, SourceChanged, Comparable
    <3>. QED BY <1>2, <3>1, <3>2, ReconcileRecordsRender
  <2>. QED BY <1>1, <2>1, <2>2, <2>3, <2>4
<1>4. \A q \in engine : Overlay(o.tree, plan)[q] = o.tree[q]
  BY EngineStands
<1>. QED BY <1>3, <1>4 DEF HasEngine

\* An adoption, and whatever follows it, leaves an adopted project.
LEMMA AdoptedStaysAdopted ==
  ASSUME NEW o, IsObservation(o), NEW i \in Intents, i.kind # "plan reconcile",
         NEW plan \in Candidates(i, o),
         i.kind = "adopt" \/ (Existing(o) /\ o.manifest.generation = "adopted")
  PROVE  plan.after.generation = "adopted"
<1>1. Accepted(i, o) /\ plan \in Compile(i, o)
  BY DEF Candidates
<1>2. CASE i.kind = "adopt"
  <2>1. PICK b : plan = AdoptPlan(o, i.selection, i.collisions, b)
    BY <1>1, <1>2 DEF Compile, AdoptCandidates, CompileAdopt
  <2>. QED BY <2>1 DEF AdoptPlan, InitialManifest
<1>3. CASE i.kind # "adopt" /\ Existing(o) /\ o.manifest.generation = "adopted"
  <2>. DEFINE m == o.manifest
  <2>1. m \in Manifests /\ i.kind \in {"add", "restore"}
    BY <1>1, <1>3, IntentAssumption
       DEF Accepted, ApplyAccepted, ReconcileAccepted, IsObservation, IntentAssumption
  <2>2. CASE i.kind = "add"
    <3>1. PICK additions, outputs : plan = AddPlan(o, additions, outputs)
      BY <1>1, <2>2 DEF Compile, LifecycleCandidates, CompileAdd
    <3>2. plan.after = [m EXCEPT !.additions = additions, !.managed = Identities(outputs)]
      BY <3>1 DEF AddPlan, Extended
    <3>. QED BY <1>3, <2>1, <3>2 DEF Manifests
  <2>3. CASE i.kind = "restore"
    <3>1. plan \in CompileRestore(o, i.root, i.requested)
      BY <1>1, <2>3 DEF Compile, LifecycleCandidates
    <3>. QED BY <1>3, <3>1, RestoreWrites
  <2>. QED BY <2>1, <2>2, <2>3
<1>. QED BY <1>2, <1>3

SupportInv(engine) == borrowed \in BOOLEAN /\ Supported(engine, Observed, borrowed)

\* Copier replaces the engine as a whole, for the adopter has not changed it.
LEMMA CopierBringsTheEngine ==
  ASSUME NEW engine, EngineDecides(engine), LifecycleInv, HasEngine(engine, tree, version),
         CopierUpdate
  PROVE  HasEngine(engine, tree', version')
<1>1. PICK kept \in SUBSET {p \in DOMAIN Source[version] : tree[p] # Source[version][p]} :
        tree' = [p \in Paths |->
          IF p \in kept \/ p \notin DOMAIN Source[version] \cup DOMAIN Source[version + 1]
          THEN tree[p]
          ELSE IF p \in DOMAIN Source[version + 1] THEN Source[version + 1][p] ELSE Absent]
  BY DEF CopierUpdate
<1>2. version' = version + 1
  BY DEF CopierUpdate
<1>3. ASSUME NEW p \in engine PROVE tree'[p] = SourceFile(version + 1, p)
  <2>1. p \in Paths /\ tree[p] = SourceFile(version, p)
    BY DEF EngineDecides, HasEngine
  <2>2. p \notin kept
    BY <2>1 DEF SourceFile
  <2>. QED BY <1>1, <2>1, <2>2 DEF SourceFile
<1>. QED BY <1>2, <1>3 DEF HasEngine

\* Every step keeps a project supported: the commands record what they render,
\* and nobody but Copier touches the engine.
LEMMA StepPreservesSupport ==
  ASSUME NEW engine, EngineDecides(engine), EngineIsKept(engine)
  PROVE  LifecycleInv /\ SupportInv(engine) /\ [Next]_vars => SupportInv(engine)'
<1>. SUFFICES ASSUME LifecycleInv, SupportInv(engine), [Next]_vars PROVE SupportInv(engine)'
  OBVIOUS
<1>. DEFINE o == Observed
<1>0. /\ o.tree = tree /\ o.manifest = manifest /\ o.version = version
      /\ o'.tree = tree' /\ o'.manifest = manifest' /\ o'.version = version'
      /\ IsObservation(o) /\ borrowed \in BOOLEAN /\ Supported(engine, o, borrowed)
      /\ Existing(o) <=> manifest # NoManifest
      /\ Existing(o)' <=> manifest' # NoManifest
  BY DEF Observed, LifecycleInv, SupportInv, Existing
<1>1. ASSUME UNCHANGED <<tree, manifest, version, borrowed>> PROVE SupportInv(engine)'
  BY <1>0, <1>1 DEF SupportInv, Supported
<1>2. ASSUME NEW p \in Processes, Install(p) PROVE SupportInv(engine)'
  <2>. DEFINE i == commands[p].intent
  <2>1. PICK plan \in Candidates(i, o) :
          /\ i \in Intents /\ i.kind # "plan reconcile"
          /\ tree' = Overlay(tree, plan) /\ manifest' = plan.after
    BY <1>2, InstallFacts
  <2>2. manifest' # NoManifest
    BY <1>0, <2>1, CandidateIsSound, ManifestExists
  <2>5. borrowed' \in BOOLEAN
    BY <1>2 DEF Install, Borrows
  <2>3. CASE i.kind = "adopt" \/ (Existing(o) /\ o.manifest.generation = "adopted")
    <3>1. plan.after.generation = "adopted"
      <4>. HIDE DEF i, o
      <4>. QED BY <1>0, <2>1, <2>3, AdoptedStaysAdopted
    <3>. QED BY <1>0, <2>1, <2>2, <2>5, <3>1 DEF SupportInv, Supported
  <2>4. CASE i.kind # "adopt" /\ (Existing(o) => o.manifest.generation # "adopted")
    <3>1. /\ HasEngine(engine, Overlay(o.tree, plan), o.version)
          /\ RecordsRender(engine, plan.after, Lent(o, i, borrowed))
      <4>. HIDE DEF i, o
      <4>. QED BY <1>0, <2>1, <2>4, PlanKeepsSupport
    <3>2. version' = version
      BY <1>2, <2>4 DEF Install
    <3>3. borrowed' = Lent(o, i, borrowed)
      BY <1>0, <1>2 DEF Install, Borrows, Lent
    <3>. QED BY <1>0, <2>1, <2>2, <2>5, <3>1, <3>2, <3>3 DEF SupportInv, Supported
  <2>. QED BY <2>3, <2>4
<1>3. CASE Edit
  <2>1. PICK e \in Edits : tree' = [tree EXCEPT ![e[1]] = e[2]]
    BY <1>3 DEF Edit
  <2>2. e[1] \notin engine /\ (e[1] = Answers => ~IsFile(e[2])) /\ Ownership \in engine
    BY DEF EngineIsKept, EngineDecides
  <2>3. DOMAIN tree = Paths /\ Answers \in Paths
    BY <1>0, TemplateAssumption DEF IsObservation, Trees, TemplateAssumption
  <2>4. \A q \in engine : tree'[q] = tree[q]
    BY <2>1, <2>2
  <2>5. ~IsFile(tree[Answers]) => ~IsFile(tree'[Answers])
    BY <2>1, <2>2, <2>3
  <2>6. UNCHANGED <<manifest, version, borrowed>>
    BY <1>3 DEF Edit
  <2>. QED BY <1>0, <2>2, <2>4, <2>5, <2>6 DEF SupportInv, Supported, HasEngine
<1>4. CASE CopierUpdate
  <2>1. IsFile(tree[Answers]) /\ UNCHANGED <<manifest, borrowed>>
    BY <1>4 DEF CopierUpdate
  <2>2. HasEngine(engine, tree, version) => HasEngine(engine, tree', version')
    BY <1>4, CopierBringsTheEngine
  <2>. QED BY <1>0, <2>1, <2>2 DEF SupportInv, Supported
<1>5. CASE AdvanceCheckout
  BY <1>1, <1>5 DEF AdvanceCheckout
<1>6. CASE PlanReconcile
  BY <1>1, <1>6 DEF PlanReconcile
<1>7. CASE \E p \in Processes : Begin(p) \/ GiveUp(p)
  BY <1>1, <1>7, BeginHolds DEF GiveUp
<1>8. CASE UNCHANGED vars
  BY <1>1, <1>8 DEF vars
<1>. QED BY <1>2, <1>3, <1>4, <1>5, <1>6, <1>7, <1>8 DEF Next

\* Where the source is the recorded one, the project's own version renders what
\* is recorded, and restore compiles.
LEMMA SupportedIsRepairable ==
  ASSUME NEW engine, EngineDecides(engine), NEW o, IsObservation(o), Supported(engine, o, FALSE),
         Existing(o), o.manifest.generation # "adopted", RestoreAccepted(o, "own")
  PROVE  CompileRestore(o, "own", {}) # {}
<1>. DEFINE m == o.manifest
            rendered == Outputs(o.version, Selected(m))
            render == CertifiedRender(o, "own")
<1>1. m \in Manifests /\ o.version \in Versions
  BY DEF IsObservation
<1>2. HasEngine(engine, o.tree, o.version) /\ RecordsRender(engine, m, FALSE)
  BY DEF Supported
<1>3. PICK v \in Versions :
        /\ BaselineOf(engine, m.base, v)
        /\ m.managed = Identities(Outputs(v, Selected(m)))
  BY <1>2 DEF RecordsRender
<1>4. SourceDelta(o) = {}
  BY DEF RestoreAccepted, SourceSame
<1>5. Alike(v, o.version)
  BY <1>2, <1>3, <1>4, SameSourceRendersAlike
<1>6. m.managed = Identities(rendered)
  <2>1. Selected(m) \in SUBSET Capabilities
    BY <1>1 DEF Selected, Manifests
  <2>. QED BY <1>3, <1>5, <2>1 DEF Alike
<1>7. /\ DOMAIN m.managed = DOMAIN rendered
      /\ \A p \in DOMAIN rendered : m.managed[p] = Normalized(rendered[p])
  BY <1>6 DEF Identities
<1>8. AdoptedLifecycle(m, rendered) = {}
  BY DEF AdoptedLifecycle
<1>9. DOMAIN render = DOMAIN rendered /\ \A p \in DOMAIN rendered : render[p] = rendered[p]
  <2>1. render = Over(rendered, [p \in AdoptedLifecycle(m, rendered) |-> TemplateFile(o, "own", p)])
    BY DEF CertifiedRender, CodeVersion
  <2>. HIDE DEF rendered, render
  <2>. QED BY <1>8, <2>1 DEF Over
<1>10. Certified(m, render, AdoptedLifecycle(m, rendered) \cup Drifted(o))
  <2>1. Drifted(o) \subseteq DOMAIN m.managed
    BY DEF Drifted
  <2>. HIDE DEF rendered, render
  <2>. QED BY <1>7, <1>8, <1>9, <2>1 DEF Certified
<1>11. CompileRestore(o, "own", {}) = {RestorePlan(o, render, Drifted(o))}
  <2>1. CodeVersion(o, "own") = o.version
    BY DEF CodeVersion
  <2>. QED BY <1>10, <2>1 DEF CompileRestore
<1>. QED BY <1>11

\* Managed drift can always be repaired from the project's own copy while the
\* source is the recorded one, through any sequence of commands, edits and
\* Copier updates, also after an add that a later reconcile follows; only the
\* record that an add from a checkout of another version has left is excepted.
\* The hypotheses are about the template and the adopter: some files of the
\* source decide what is rendered, and nobody but Copier changes them.
THEOREM DriftHasARemedy ==
  ASSUME NEW engine, EngineDecides(engine), EngineIsKept(engine)
  PROVE  Spec => []DriftIsRepairable
<1>1. Init => SupportInv(engine)
  <2>. SUFFICES ASSUME Init PROVE SupportInv(engine)
    OBVIOUS
  <2>1. PICK project \in Projects : tree = project.tree /\ version = project.version
    BY DEF Init
  <2>2. /\ ~Existing(Observed) /\ Observed.tree = tree /\ Observed.version = version
        /\ borrowed \in BOOLEAN
    BY DEF Init, Existing, Observed
  <2>. QED BY <2>1, <2>2 DEF SupportInv, Supported, HasEngine, EngineIsKept
<1>2. LifecycleInv /\ SupportInv(engine) /\ [Next]_vars => SupportInv(engine)'
  BY StepPreservesSupport
<1>3. LifecycleInv /\ SupportInv(engine) => DriftIsRepairable
  <2>. SUFFICES ASSUME LifecycleInv, SupportInv(engine), Existing(Observed),
                       manifest.generation # "adopted", ~borrowed,
                       RestoreAccepted(Observed, "own")
                PROVE  CompileRestore(Observed, "own", {}) # {}
    BY DEF DriftIsRepairable
  <2>1. /\ IsObservation(Observed) /\ Supported(engine, Observed, FALSE)
        /\ Observed.manifest.generation # "adopted"
    BY DEF LifecycleInv, SupportInv, Observed
  <2>. QED BY <2>1, SupportedIsRepairable
<1>. QED BY <1>1, <1>2, <1>3, Invariance, PTL DEF Spec
=============================================================================
