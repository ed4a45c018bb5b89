-------------------------- MODULE ProjectLifecycle --------------------------
(***************************************************************************)
(* A project over its commands: apply, adopt, add, restore, reconcile and  *)
(* plan reconcile, run by several processes, while the adopter edits       *)
(* files, Copier brings a new template version and the checkout moves on.  *)
(*                                                                         *)
(* A command observes, decides and compiles before it takes the            *)
(* transaction lock (Begin).  Under the lock it does all three again and   *)
(* installs only the plan it had (Install), or gives up (GiveUp).  The     *)
(* installation is one step here: InstallContract shows the transaction    *)
(* all or nothing, and BootstrapTransaction what becomes of its crashes.   *)
(***************************************************************************)
EXTENDS PlanCompilation

CONSTANTS
  Processes,
  Intents,      \* what the commands may be asked, see IntentAssumption
  Projects,     \* what there is before the first command: tree and version
  Edits,        \* the edits an adopter may make: pairs of path and content
  MaxEdits, MaxReceipts,
  Idle

ASSUME IntentAssumption ==
  \A i \in Intents :
    \/ i.kind = "apply" /\ i.selection \subseteq Capabilities /\ i.leave \in BOOLEAN
    \/ /\ i.kind = "adopt" /\ i.selection \subseteq Capabilities
       /\ DOMAIN i.collisions \subseteq Paths
       /\ \A p \in DOMAIN i.collisions : i.collisions[p] \in {"keep-existing", "replace"}
    \/ i.kind = "add" /\ i.root \in {"own", "checkout"} /\ i.capabilities \subseteq Capabilities
    \/ i.kind = "restore" /\ i.root \in {"own", "checkout"} /\ i.requested \subseteq Paths
    \/ i.kind \in {"reconcile", "plan reconcile"} /\ i.overwrite \in BOOLEAN

ASSUME ProjectAssumption ==
  /\ \A project \in Projects : project.tree \in Trees /\ project.version \in Versions
  /\ Edits \subseteq Paths \X (Contents \cup {Absent, Directory})

VARIABLES
  tree,      \* the project's files
  manifest,  \* what the manifest records, or NoManifest
  version,   \* the template version of the project's own copy
  checkout,  \* the template version of the checkout
  receipts,  \* the reconcile plans that were published
  commands,  \* what every process holds between Begin and Install
  edits,     \* how many edits the adopter has made
  borrowed   \* history: the record was extended by another version's render

vars == <<tree, manifest, version, checkout, receipts, commands, edits, borrowed>>

Observed == [tree |-> tree, manifest |-> manifest, version |-> version, checkout |-> checkout]

(* Observe, decide, compile.                                                 *)
Accepted(i, o) ==
  CASE i.kind = "apply" -> ApplyAccepted(o, i.leave)
    [] i.kind = "adopt" -> AdoptAccepted(o)
    [] i.kind = "add" -> AddAccepted(o, i.root)
    [] i.kind = "restore" -> RestoreAccepted(o, i.root)
    [] OTHER -> ReconcileAccepted(o, "own")

\* An initial install needs a recognized scaffold, and an inventory to retain
\* when it is to leave the maintenance artifacts.
InitialCandidates(i, o) ==
  {plan \in CompileApply(o, i.selection, i.leave) :
     /\ Generation(o) # "none"
     /\ i.leave => RetainedContract(o)}

AdoptCandidates(i, o) ==
  {plan \in CompileAdopt(o, i.selection, i.collisions) : AdoptAccepted(o)}

LifecycleCandidates(i, o) ==
  CASE i.kind = "add" -> CompileAdd(o, i.root, i.capabilities)
    [] i.kind = "restore" -> CompileRestore(o, i.root, i.requested)
    [] OTHER -> CompileReconcile(o, "own", i.overwrite)

Compile(i, o) ==
  CASE i.kind = "apply" -> InitialCandidates(i, o)
    [] i.kind = "adopt" -> AdoptCandidates(i, o)
    [] OTHER -> LifecycleCandidates(i, o)

Candidates(i, o) == IF Accepted(i, o) THEN Compile(i, o) ELSE {}

-----------------------------------------------------------------------------
Init ==
  /\ \E project \in Projects : tree = project.tree /\ version = project.version
  /\ manifest = NoManifest
  /\ checkout \in Versions
  /\ receipts = {}
  /\ commands = [p \in Processes |-> Idle]
  /\ edits = 0
  /\ borrowed = FALSE

Asked(kinds) == {i \in Intents : i.kind \in kinds}

(* A command goes for the lock with its plan and the target expected of it,  *)
(* which the template contract has to hold of.                               *)
DriveTransaction(p, i, plan) ==
  /\ ContractHolds(Overlay(tree, plan))
  /\ commands' = [commands EXCEPT ![p] =
       [intent |-> i, plan |-> plan, expected |-> Overlay(tree, plan)]]
  /\ UNCHANGED <<tree, manifest, version, checkout, receipts, edits, borrowed>>

(* The mutating commands before the lock.                                    *)
ExecuteMutation(p) ==
  /\ commands[p] = Idle
  /\ \E i \in Asked({"apply"}) :
     \E plan \in Candidates(i, Observed) : DriveTransaction(p, i, plan)

ExecuteAdoption(p) ==
  /\ commands[p] = Idle
  /\ \E i \in Asked({"adopt"}) :
     \E plan \in Candidates(i, Observed) : DriveTransaction(p, i, plan)

ExecuteLifecycle(p) ==
  /\ commands[p] = Idle
  /\ \E i \in Asked({"add", "restore", "reconcile"}) :
     \E plan \in Candidates(i, Observed) : DriveTransaction(p, i, plan)

Begin(p) == ExecuteMutation(p) \/ ExecuteAdoption(p) \/ ExecuteLifecycle(p)

(* plan reconcile publishes the receipt of the plan and changes nothing.     *)
PlanReconcile ==
  /\ Cardinality(receipts) < MaxReceipts
  /\ \E i \in Asked({"plan reconcile"}) :
     \E plan \in Candidates(i, Observed) : receipts' = receipts \cup {plan}
  /\ UNCHANGED <<tree, manifest, version, checkout, commands, edits, borrowed>>

(* Bug: any receipt will do.                                                 *)
ReceiptExists(i, plan) == i.kind = "reconcile" /\ i.overwrite => receipts # {}

(* --overwrite-drift needs a receipt of the plan as compiled under the lock. *)
ReceiptMatches(i, plan) == i.kind = "reconcile" /\ i.overwrite => plan \in receipts

(* Bug: the plan is compiled under the lock and not compared.                *)
AnyDigest(plan, fresh) == TRUE

(* The plan compiled under the lock has the digest of the one before it.     *)
SameDigest(plan, fresh) == fresh = plan

(* The command observes, decides and compiles again while it holds the lock. *)
RevalidateInitial(command) ==
  \E fresh \in Candidates(command.intent, Observed) : SameDigest(command.plan, fresh)

RevalidateLifecycle(command) ==
  \E fresh \in Candidates(command.intent, Observed) :
    /\ ReceiptMatches(command.intent, fresh)
    /\ SameDigest(command.plan, fresh)

Revalidated(command) ==
  IF command.intent.kind \in {"apply", "adopt"}
  THEN RevalidateInitial(command) ELSE RevalidateLifecycle(command)

(* What post validation observes is what the command expected before the     *)
(* lock, everywhere in the target.                                           *)
AsExpected(command, after) == after = command.expected

(* The next record is one the project's own copy may be unable to render.    *)
Borrows(i) ==
  \/ i.kind = "add" /\ CodeVersion(Observed, i.root) # version
  \/ i.kind = "restore" /\ borrowed

Install(p) ==
  /\ commands[p] # Idle
  /\ Revalidated(commands[p])
  /\ AsExpected(commands[p], Overlay(tree, commands[p].plan))
  /\ tree' = Overlay(tree, commands[p].plan)
  /\ manifest' = commands[p].plan.after
  /\ version' = IF commands[p].intent.kind = "adopt" THEN checkout ELSE version
  /\ borrowed' = Borrows(commands[p].intent)
  /\ commands' = [commands EXCEPT ![p] = Idle]
  /\ UNCHANGED <<checkout, receipts, edits>>

(* A refusal under the lock, a rollback, or the end of the process.          *)
GiveUp(p) ==
  /\ commands[p] # Idle
  /\ commands' = [commands EXCEPT ![p] = Idle]
  /\ UNCHANGED <<tree, manifest, version, checkout, receipts, edits, borrowed>>

-----------------------------------------------------------------------------
(* The adopter edits a file.                                                 *)
Edit ==
  /\ edits < MaxEdits
  /\ \E e \in Edits : tree[e[1]] # e[2] /\ tree' = [tree EXCEPT ![e[1]] = e[2]]
  /\ edits' = edits + 1
  /\ UNCHANGED <<manifest, version, checkout, receipts, commands, borrowed>>

(* copier update brings the source of the next version; of the files the     *)
(* adopter had changed it keeps the ones the adopter chooses to.             *)
CopierUpdate ==
  /\ version + 1 \in Versions
  /\ IsFile(tree[Answers])
  /\ LET old == Source[version]
         new == Source[version + 1]
     IN  \E kept \in SUBSET {p \in DOMAIN old : tree[p] # old[p]} :
           tree' = [p \in Paths |->
             IF p \in kept \/ p \notin DOMAIN old \cup DOMAIN new THEN tree[p]
             ELSE IF p \in DOMAIN new THEN new[p] ELSE Absent]
  /\ version' = version + 1
  /\ UNCHANGED <<manifest, checkout, receipts, commands, edits, borrowed>>

AdvanceCheckout ==
  /\ checkout + 1 \in Versions
  /\ checkout' = checkout + 1
  /\ UNCHANGED <<tree, manifest, version, receipts, commands, edits, borrowed>>

Next ==
  \/ \E p \in Processes : Begin(p) \/ Install(p) \/ GiveUp(p)
  \/ PlanReconcile
  \/ Edit \/ CopierUpdate \/ AdvanceCheckout

Spec == Init /\ [][Next]_vars

-----------------------------------------------------------------------------
(* Properties                                                               *)

IsManifest(m) ==
  \/ m = NoManifest
  \/ /\ m.generation \in {"github", "copier", "adopted"}
     /\ m.profile \subseteq Capabilities /\ m.additions \subseteq Capabilities
     /\ DOMAIN m.base \subseteq Names
     /\ \A p \in DOMAIN m.base : m.base[p] \in Contents \cup {Directory}
     /\ IsContent(m.managed)

\* Types; and the manifest never records a seed-once path, so that no lifecycle
\* operation can call an adopter's edit of one drift.
TypeOK ==
  /\ tree \in Trees
  /\ IsManifest(manifest)
  /\ version \in Versions /\ checkout \in Versions
  /\ \A r \in receipts : r.kind = "reconcile" /\ IsManifest(r.after)
  /\ DOMAIN commands = Processes
  /\ borrowed \in BOOLEAN
  /\ Existing(Observed) =>
       SeedPaths \cap (DOMAIN manifest.managed \cup DOMAIN manifest.base) = {}

\* The step in which process p finishes a command of this kind with a change.
Installs(p, kinds) ==
  /\ commands[p] # Idle /\ commands[p].intent.kind \in kinds
  /\ commands'[p] = Idle
  /\ <<tree, manifest>>' # <<tree, manifest>>

\* Whatever commands run beside each other, a recorded capability is never
\* lost: the manifest stays, its profile is fixed and its additions only grow
\* (design.md, "append-only"; compile_add_plan, _reconcile_candidate_manifest).
AdditionsAreKept ==
  [][Existing(Observed) =>
       /\ Existing(Observed')
       /\ manifest'.profile = manifest.profile
       /\ manifest.additions \subseteq manifest'.additions]_vars

\* add and reconcile destroy a drifted file only if a published receipt shows
\* exactly that content going and exactly the new one coming, also when the
\* adopter edits on after the receipt (_verify_reconcile_receipt).
DriftNeedsItsReceipt ==
  [][\A p \in Processes : Installs(p, {"add", "reconcile"}) =>
       \A q \in Drifted(Observed) : tree'[q] # tree[q] =>
         \E r \in receipts : q \in DOMAIN r.ops /\ r.ops[q] = [old |-> tree[q], new |-> tree'[q]]]_vars

\* restore changes recorded paths only, each to the identity the manifest
\* records, and leaves the manifest alone (compile_restore_plan).
RestoreWritesTheRecord ==
  [][\A p \in Processes : Installs(p, {"restore"}) =>
       /\ manifest' = manifest
       /\ \A q \in Paths : tree'[q] # tree[q] =>
            q \in DOMAIN manifest.managed /\ Normalized(tree'[q]) = manifest.managed[q]]_vars

\* adopt changes a file it finds only where the bundle declares replace, and
\* never a legal one (_partition_adoption_collisions).
AdoptionIsDeclared ==
  [][\A p \in Processes : Installs(p, {"adopt"}) =>
       \A q \in Files(tree) : tree'[q] # tree[q] =>
         /\ q \notin LegalPaths
         /\ q \in DOMAIN commands[p].intent.collisions
         /\ commands[p].intent.collisions[q] = "replace"]_vars

\* The source baseline an adoption records is the template of the checkout at
\* the moment of the installation, although the checkout can move between the
\* compilation and the lock (_revalidate_initial).
AdoptionIsCurrent ==
  [][\A p \in Processes : Installs(p, {"adopt"}) =>
       \A q \in DOMAIN manifest'.base : manifest'.base[q] = CheckoutFile(checkout, q)]_vars

\* No command but an adoption that declares it overwrites a seed-once file the
\* adopter has filled in (recognize_generation).
SeedsAreSeededOnce ==
  [][\A p \in Processes : Installs(p, {"apply", "add", "restore", "reconcile"}) =>
       \A q \in SlotPaths : IsFile(tree[q]) /\ tree'[q] # tree[q] => tree[q] = Scaffold[q]]_vars

\* The cleanup of an initial install deletes nothing but content the inventory
\* records, and the inventory (classify_cleanup, _cleanup_operations).
CleanupTakesTemplateBytes ==
  [][\A p \in Processes : Installs(p, {"apply"}) =>
       \A q \in Files(tree) : tree'[q] = Absent =>
         \/ q \in DOMAIN Cleanup /\ tree[q] = Cleanup[q]
         \/ q = Inventory /\ tree[q] = InventoryBytes]_vars

\* An output the new template no longer has is gone when it leaves the record:
\* reconcile leaves no orphan behind (compile_reconcile_plan).
RetiredOutputsGo ==
  [][\A p \in Processes : Installs(p, {"reconcile"}) =>
       \A q \in DOMAIN manifest.managed \ DOMAIN manifest'.managed : tree'[q] = Absent]_vars

\* After apply, adopt, add and reconcile the tree has what the inventory
\* records, kept and concurrent edits notwithstanding.
InventoryIsInstalled ==
  [][\A p \in Processes : Installs(p, {"apply", "adopt", "add", "reconcile"}) =>
       \A q \in DOMAIN manifest'.managed : Normalized(tree'[q]) = manifest'.managed[q]]_vars

\* A reconcile settles the source: what the next observation still finds
\* different is generated, or an output - declared as source although the
\* template renders or has just retired it - or a folder the reconcile made or
\* emptied (collect_template_source_entries and _source_delta walk by different
\* rules).
ReconcileSettles ==
  [][\A p \in Processes : Installs(p, {"reconcile"}) =>
       \A q \in SourceDelta(Observed') :
         \/ q \in Generated
         \/ q \in DeclaredManaged(version) \cup (DOMAIN manifest.managed \ DOMAIN manifest'.managed)
         \/ q \in Folders /\ At(tree', q) # At(tree, q)]_vars

\* Every installation leaves the files of the template contract in place, also
\* when the adopter removes one while the command runs (evaluate_expected).
ContractIsKept ==
  [][\A p \in Processes :
       Installs(p, {"apply", "adopt", "add", "restore", "reconcile"}) => Required \subseteq Files(tree')]_vars

\* Managed drift has a remedy: while the source is the recorded one, the own
\* copy restores everything that drifted, whatever was added, brought by Copier
\* and edited since (verify_old_render_oracle holds of the record).  An add from
\* a checkout of another version is excepted: it compares the outputs of the
\* recorded selection only, and then records outputs the own copy may not render.
DriftIsRepairable ==
  Existing(Observed) /\ manifest.generation # "adopted" /\ ~borrowed
    /\ RestoreAccepted(Observed, "own")
    => CompileRestore(Observed, "own", {}) # {}

-----------------------------------------------------------------------------
(* What no command checks, and a repair needs (ProjectLifecycle_proofs).    *)

\* What version v has at path p.
SourceFile(v, p) == IF p \in DOMAIN Source[v] THEN Source[v][p] ELSE Absent

\* The two versions render every selection with the same identities.
Alike(v, w) ==
  \A s \in SUBSET Capabilities : Identities(Outputs(v, s)) = Identities(Outputs(w, s))

\* The engine is the part of the source that decides what is rendered: it is
\* declared as lifecycle source, and neither rendered, seeded, cleaned up nor
\* generated.
EngineDecides(engine) ==
  /\ Ownership \in engine /\ engine \subseteq Paths
  /\ engine \cap (SeedPaths \cup OutputPaths \cup DOMAIN Cleanup \cup {Inventory} \cup Generated) = {}
  /\ \A v, w \in Versions :
       /\ SourceFile(v, Ownership) \in DOMAIN Declares
       /\ \A p \in engine \cap (Declares[SourceFile(v, Ownership)] \cup {Ownership}) :
            SourceFile(w, p) = SourceFile(v, p)
       => Alike(v, w)

\* The adopter leaves the engine alone, and the answers file to Copier; a
\* project has the engine of its version before the first command, or it has
\* neither an answers file nor an ownership declaration.
EngineIsKept(engine) ==
  /\ \A e \in Edits : e[1] \notin engine /\ (e[1] = Answers => ~IsFile(e[2]))
  /\ \A project \in Projects :
       \/ \A p \in engine : project.tree[p] = SourceFile(project.version, p)
       \/ ~IsFile(project.tree[Answers]) /\ ~IsFile(project.tree[Ownership])

-----------------------------------------------------------------------------
\* What the code breaks.

\* design.md:1738 says that reconcile may not modify adopter paths: a file that
\* is no recorded output stays as it is.
AdopterFilesSurviveReconcile ==
  [][\A p \in Processes : Installs(p, {"reconcile"}) =>
       \A q \in Files(tree) \ DOMAIN manifest.managed : tree'[q] = tree[q]]_vars

\* ADR 0003 says that a keep-existing lifecycle path is never drift-fatal: an
\* adopted project whose other source files are as recorded can be restored.
KeptPathsAreNeverFatal ==
  Existing(Observed) /\ manifest.generation = "adopted" /\ Comparable(Observed, "checkout")
    /\ SourceDelta(Observed) \cap DOMAIN manifest.managed = {}
    => RestoreAccepted(Observed, "checkout")
=============================================================================
