--------------------------- MODULE PlanCompilation ---------------------------
(***************************************************************************)
(* The plan each operation compiles from an observation.  A compilation    *)
(* that the code refuses is the empty set, one that succeeds is a          *)
(* singleton.  A plan carries what its receipt digest binds: the manifest  *)
(* before and after, and for every path it writes the expected old and the *)
(* planned new content.                                                    *)
(***************************************************************************)
EXTENDS ProjectDecisions

Operations(tree, new) == [p \in DOMAIN new |-> [old |-> tree[p], new |-> new[p]]]

(* apply_plan: the expected target.                                          *)
Overlay(tree, plan) ==
  [p \in Paths |-> IF p \in DOMAIN plan.ops THEN plan.ops[p].new ELSE tree[p]]

(* Bug: the symlink is not looked at.                                        *)
ContractHoldsOfFiles(tree) == Required \ {Claude} \subseteq Files(tree)

ContractHolds(tree) == Required \subseteq Files(tree)

(* An output cannot be classified over a directory.                          *)
Writable(tree, paths) == \A p \in paths : tree[p] # Directory

Gone(paths) == [p \in paths |-> Absent]

(* Bug: the seed-once files are recorded too.                                *)
InitialManifestOfAll(generation, selection, base, managed) ==
  [generation |-> generation, profile |-> selection, additions |-> {},
   base |-> base, managed |-> Identities(Over(managed, Bundle))]

InitialManifest(generation, selection, base, managed) ==
  [generation |-> generation, profile |-> selection, additions |-> {},
   base |-> base, managed |-> Identities(managed)]

(***************************************************************************)
(* apply                                                                   *)
(***************************************************************************)
(* The cleanup deletes what the inventory names, except the paths a managed  *)
(* output replaces, and then the inventory.                                  *)
CleanupDeletes(o, managed, leave) ==
  IF CleanupContract(o) = "none" \/ leave
  THEN {} ELSE (DOMAIN Cleanup \ DOMAIN managed) \cup {Inventory}

ApplyPlan(o, selection, leave, base) ==
  LET managed == Outputs(o.version, selection)
      new == Over(Over(Bundle, managed), Gone(CleanupDeletes(o, managed, leave)))
  IN  [kind |-> "initial", before |-> NoManifest,
       after |-> InitialManifest(Generation(o), selection, base, managed),
       ops |-> Operations(o.tree, new)]

CompileApply(o, selection, leave) ==
  {plan \in {ApplyPlan(o, selection, leave, base) :
               base \in SourceEntries(o, "own", SlotPaths \cup DOMAIN Outputs(o.version, selection))} :
     /\ Resolvable(o.version, selection)
     /\ Writable(o.tree, DOMAIN plan.ops)
     /\ ContractHolds(Overlay(o.tree, plan))}

(***************************************************************************)
(* adopt: the lifecycle source is installed too, and every planned output  *)
(* that meets a file is declared keep-existing or replace.                 *)
(***************************************************************************)
LifecycleInstallSet(base) ==
  Over(Restrict(base, Files(base)), [p \in {Claude} |-> base[Agents]])

Colliding(o, planned) == {p \in DOMAIN planned : IsFile(o.tree[p])}

(* Bug: a collision the bundle does not mention is no collision.             *)
CollisionsAreReal(o, planned, collisions) ==
  /\ DOMAIN collisions \subseteq Colliding(o, planned)
  /\ \A p \in DOMAIN collisions \cap LegalPaths : collisions[p] = "keep-existing"

CollisionsDeclared(o, planned, collisions) ==
  /\ DOMAIN collisions = Colliding(o, planned)
  /\ \A p \in DOMAIN collisions \cap LegalPaths : collisions[p] = "keep-existing"

Kept(collisions) == {p \in DOMAIN collisions : collisions[p] = "keep-existing"}

Written(planned, collisions) == Restrict(planned, DOMAIN planned \ Kept(collisions))

(* Bug: a kept file is recorded with the template's identity.                *)
RecordedAll(managed, collisions) == managed

Recorded(managed, collisions) == Restrict(managed, DOMAIN managed \ Kept(collisions))

AdoptManaged(o, selection, base) ==
  Over(Outputs(o.checkout, selection), LifecycleInstallSet(base))

AdoptPlan(o, selection, collisions, base) ==
  LET managed == AdoptManaged(o, selection, base)
  IN  [kind |-> "initial", before |-> NoManifest,
       after |-> InitialManifest("adopted", selection, base, Recorded(managed, collisions)),
       ops |-> Operations(o.tree, Written(Over(Bundle, managed), collisions))]

CompileAdopt(o, selection, collisions) ==
  {AdoptPlan(o, selection, collisions, base) : base \in
     {b \in SourceEntries(o, "checkout", SlotPaths \cup DOMAIN Outputs(o.checkout, selection)) :
        LET planned == Over(Bundle, AdoptManaged(o, selection, b))
        IN  /\ Resolvable(o.checkout, selection)
            /\ Agents \in Files(b)
            /\ CollisionsDeclared(o, planned, collisions)
            /\ Writable(o.tree, DOMAIN planned)
            /\ ContractHolds(Overlay(o.tree, AdoptPlan(o, selection, collisions, b)))}}

(***************************************************************************)
(* add: the recorded selection must render the recorded inventory; then    *)
(* every output of the extended selection is written.                      *)
(***************************************************************************)
(* Bug: the new additions take the place of the old ones.                    *)
AdditionsOfThisCommand(m, capabilities) == capabilities \ Effective(Selected(m))

Additions(m, capabilities) == m.additions \cup (capabilities \ Effective(Selected(m)))

(* Bug: the inventory stays that of the smaller selection.                   *)
ExtendedSelection(m, additions, outputs) == [m EXCEPT !.additions = additions]

Extended(m, additions, outputs) ==
  [m EXCEPT !.additions = additions, !.managed = Identities(outputs)]

AddPlan(o, additions, outputs) ==
  [kind |-> "add", before |-> o.manifest,
   after |-> Extended(o.manifest, additions, outputs),
   ops |-> Operations(o.tree, outputs)]

CompileAdd(o, root, capabilities) ==
  LET m == o.manifest
      v == CodeVersion(o, root)
      additions == Additions(m, capabilities)
      outputs == Outputs(v, m.profile \cup additions)
  IN  IF /\ Resolvable(v, m.profile \cup additions)
         /\ Identities(Outputs(v, Selected(m))) = m.managed
         /\ Writable(o.tree, DOMAIN outputs)
      THEN {AddPlan(o, additions, outputs)} ELSE {}

(***************************************************************************)
(* restore: writes the certified render over what drifted, or over the     *)
(* paths asked for, and records nothing.                                   *)
(***************************************************************************)
(* Nothing renders the lifecycle files of an adopted project: they are read  *)
(* from the template root, all of them, and must be the recorded ones.       *)
AdoptedLifecycle(m, rendered) ==
  IF m.generation = "adopted" THEN DOMAIN m.managed \ DOMAIN rendered ELSE {}

(* Bug: what is rendered is not compared with the record.                    *)
CertifiedByName(m, render, paths) == paths \subseteq DOMAIN render

Certified(m, render, paths) ==
  paths \subseteq DOMAIN render /\ \A p \in paths : Normalized(render[p]) = m.managed[p]

CertifiedRender(o, root) ==
  LET rendered == Outputs(CodeVersion(o, root), Selected(o.manifest))
  IN  Over(rendered, [p \in AdoptedLifecycle(o.manifest, rendered) |-> TemplateFile(o, root, p)])

RestorePlan(o, render, selected) ==
  LET stale == {p \in selected : Normalized(o.tree[p]) # Normalized(render[p])}
  IN  [kind |-> "restore", before |-> o.manifest, after |-> o.manifest,
       ops |-> Operations(o.tree, Restrict(render, stale))]

CompileRestore(o, root, requested) ==
  LET m == o.manifest
      rendered == Outputs(CodeVersion(o, root), Selected(m))
      render == CertifiedRender(o, root)
      selected == IF requested = {} THEN Drifted(o) ELSE requested
  IN  IF /\ requested \subseteq DOMAIN m.managed
         /\ Certified(m, render, AdoptedLifecycle(m, rendered) \cup selected)
      THEN {RestorePlan(o, render, selected)} ELSE {}

(***************************************************************************)
(* reconcile: the recorded selection is rendered by the new template,      *)
(* outputs it no longer has are deleted, and the source the tree has now   *)
(* becomes the baseline.                                                   *)
(***************************************************************************)
(* Bug: an output that drifted is not deleted.                               *)
RetiredUnchanged(o, render) ==
  {p \in DOMAIN o.manifest.managed \ DOMAIN render : o.tree[p] = o.manifest.managed[p]}

Retired(o, render) == {p \in DOMAIN o.manifest.managed \ DOMAIN render : IsFile(o.tree[p])}

ReconcilePlan(o, render, base) ==
  [kind |-> "reconcile", before |-> o.manifest,
   after |-> [o.manifest EXCEPT !.base = base, !.managed = Identities(render)],
   ops |-> Operations(o.tree, Over(render, Gone(Retired(o, render))))]

CompileReconcile(o, root, overwrite) ==
  LET v == CodeVersion(o, root)
      render == Outputs(v, Selected(o.manifest))
  IN  {plan \in {ReconcilePlan(o, render, base) :
                   base \in SourceEntries(o, root, SlotPaths \cup DeclaredManaged(v))} :
         /\ Drifted(o) # {} => overwrite
         /\ Writable(o.tree, DOMAIN render)}
=============================================================================
