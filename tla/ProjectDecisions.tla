-------------------------- MODULE ProjectDecisions --------------------------
(***************************************************************************)
(* How a command classifies the project it observes and which operations   *)
(* it accepts.  An observation o has the fields tree, manifest, version    *)
(* and checkout (TemplateSource).  A target that is unavailable, protected *)
(* or has a journal refuses every operation, which changes nothing; those  *)
(* states belong to BootstrapTransaction.                                  *)
(***************************************************************************)
EXTENDS TemplateSource

(* A project that no command has installed.                                  *)
NoManifest == [generation |-> "none"]

Existing(o) == o.manifest # NoManifest
Selected(m) == m.profile \cup m.additions

(* Bug: an answers file alone makes a Copier project.                        *)
GenerationByAnswers(o) ==
  CASE IsFile(o.tree[Answers]) -> "copier"
    [] ~IsFile(o.tree[Answers]) /\ \A p \in SlotPaths : o.tree[p] = Scaffold[p] -> "github"
    [] OTHER -> "none"

(* The generation path of a project without a manifest.                      *)
Generation(o) ==
  LET scaffold == {p \in SlotPaths : o.tree[p] = Scaffold[p]}
      missing == {p \in SlotPaths : ~IsFile(o.tree[p])}
  IN  CASE IsFile(o.tree[Answers]) /\ scaffold \cup missing = SlotPaths -> "copier"
        [] ~IsFile(o.tree[Answers]) /\ scaffold = SlotPaths -> "github"
        [] OTHER -> "none"

(* Bug: the inventory is trusted by its own bytes.                           *)
CleanupContractByInventory(o) ==
  CASE ~IsFile(o.tree[Inventory]) -> "none"
    [] IsFile(o.tree[Inventory]) /\ o.tree[Inventory] = InventoryBytes -> "valid"
    [] OTHER -> "mismatch"

(* The maintenance inventory authorizes cleanup only when every path it      *)
(* declares has the content it records.                                      *)
ClassifyCleanup(o) ==
  IF /\ o.tree[Inventory] = InventoryBytes
     /\ \A p \in DOMAIN Cleanup : o.tree[p] = Cleanup[p]
  THEN "valid" ELSE "mismatch"

(* An inventory counts only beside an ownership declaration that decodes.    *)
CleanupContract(o) ==
  CASE ~IsFile(o.tree[Inventory]) -> "none"
    [] IsFile(o.tree[Inventory]) /\ o.tree[Ownership] \in DOMAIN Declares -> ClassifyCleanup(o)
    [] OTHER -> "mismatch"

(* An inventory that no longer matches can still be retained as it is.       *)
RetainedContract(o) == IsFile(o.tree[Inventory])

Drifted(o) ==
  {p \in DOMAIN o.manifest.managed : Normalized(o.tree[p]) # o.manifest.managed[p]}

(* A Copier project also compares what it has now at and below the paths its *)
(* current declaration names, so that a file a template update added is a    *)
(* change of the source.                                                     *)
NewlyDeclared(o) ==
  IF o.manifest.generation = "copier" /\ o.tree[Ownership] \in DOMAIN Declares
  THEN {p \in UNION {Below(q) : q \in Declares[o.tree[Ownership]] \cup {Ownership}} :
          p \notin SlotPaths /\ At(o.tree, p) # Absent} \ DOMAIN o.manifest.base
  ELSE {}

SourceDelta(o) ==
  {p \in DOMAIN o.manifest.base : At(o.tree, p) # o.manifest.base[p]} \cup NewlyDeclared(o)

(* An output is a directory, or a source entry changed between file and      *)
(* directory.                                                                *)
Unsafe(o) ==
  \/ \E p \in DOMAIN o.manifest.managed : o.tree[p] = Directory
  \/ \E p \in DOMAIN o.manifest.base :
       /\ Absent \notin {At(o.tree, p), o.manifest.base[p]}
       /\ (At(o.tree, p) = Directory) # (o.manifest.base[p] = Directory)

(* Existing projects whose topology is safe, whose selection this code can   *)
(* resolve and, for Copier, whose answers file is there.                     *)
Comparable(o, root) ==
  /\ Existing(o)
  /\ ~Unsafe(o)
  /\ Resolvable(CodeVersion(o, root), Selected(o.manifest))
  /\ o.manifest.generation = "copier" => IsFile(o.tree[Answers])

SourceSame(o, root) == Comparable(o, root) /\ SourceDelta(o) = {}
SourceChanged(o, root) == Comparable(o, root) /\ SourceDelta(o) # {}

ApplyAccepted(o, leave) ==
  /\ ~Existing(o)
  /\ Generation(o) # "none"
  /\ CleanupContract(o) = "mismatch" => leave

AdoptAccepted(o) == ~Existing(o) /\ Generation(o) = "none"

AddAccepted(o, root) == SourceSame(o, root) /\ Drifted(o) = {}

RestoreAccepted(o, root) == SourceSame(o, root)

ReconcileAccepted(o, root) ==
  SourceChanged(o, root) /\ o.manifest.generation = "copier"
=============================================================================
