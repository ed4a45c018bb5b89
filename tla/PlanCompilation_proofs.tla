----------------------- MODULE PlanCompilation_proofs -----------------------
(***************************************************************************)
(* What the compiled plans are, for every template and every observation:  *)
(* the manifests they leave behind are manifests again, and each kind of   *)
(* plan writes only what its command may.                                  *)
(***************************************************************************)
EXTENDS PlanCompilation, TLAPS

ContentMaps == UNION {[d -> Contents] : d \in SUBSET Paths}

\* A source baseline also has directories.
Baselines == UNION {[d -> Contents \cup {Directory}] : d \in SUBSET Names}

Manifests ==
  [generation : {"github", "copier", "adopted"},
   profile : SUBSET Capabilities, additions : SUBSET Capabilities,
   base : Baselines, managed : ContentMaps]

IsObservation(o) ==
  /\ o.tree \in Trees
  /\ Existing(o) => o.manifest \in Manifests
  /\ o.version \in Versions /\ o.checkout \in Versions

\* A content map has paths as its domain and contents as its values.
LEMMA ContentMapIsContent ==
  ASSUME NEW f \in ContentMaps
  PROVE  IsContent(f)
BY DEF IsContent, ContentMaps

\* The recorded identities of contents are contents (derive_managed_inventory).
LEMMA IdentitiesAreContent ==
  ASSUME NEW f, IsContent(f)
  PROVE  Identities(f) \in ContentMaps
<1>1. Identities(f) \in [DOMAIN f -> Contents]
  BY TemplateAssumption DEF Identities, Normalized, IsFile, IsContent, TemplateAssumption
<1>. QED BY <1>1 DEF ContentMaps, IsContent

\* What a version renders for a selection it resolves has contents at paths
\* (_render_manifest_selection).
LEMMA OutputsAreContent ==
  ASSUME NEW v \in Versions, NEW s, Resolvable(v, s)
  PROVE  IsContent(Outputs(v, s))
BY TemplateAssumption DEF Outputs, Resolvable, TemplateAssumption

\* Contents over contents are contents.
LEMMA OverIsContent ==
  ASSUME NEW f, NEW g, IsContent(f), IsContent(g)
  PROVE  IsContent(Over(f, g))
BY DEF IsContent, Over

\* A path is no folder, and has what the tree says.
LEMMA AtPath ==
  ASSUME NEW t, NEW p \in Paths
  PROVE  p \notin Folders /\ At(t, p) = t[p]
BY FolderAssumption DEF FolderAssumption, At

\* Every name of a template root has contents, is a directory or is absent, and
\* no folder is a file (_read_template_file).
LEMMA TemplateFileIsTyped ==
  ASSUME NEW o, IsObservation(o), NEW root \in {"own", "checkout"}, NEW p \in Names
  PROVE  /\ TemplateFile(o, root, p) \in Contents \cup {Absent, Directory}
         /\ IsFile(TemplateFile(o, root, p)) => p \in Paths
<1>. p \in Paths \/ (p \in Folders /\ p \notin Paths)
  BY FolderAssumption DEF FolderAssumption, Names
<1>1. CASE root = "own"
  <2>1. TemplateFile(o, root, p) = At(o.tree, p)
    BY <1>1 DEF TemplateFile
  <2>2. CASE p \in Paths
    BY <2>1, <2>2, AtPath DEF IsObservation, Trees
  <2>3. CASE p \in Folders
    BY <2>1, <2>3 DEF At, IsFile
  <2>. QED BY <2>2, <2>3
<1>2. CASE root = "checkout"
  <2>1. TemplateFile(o, root, p) = CheckoutFile(o.checkout, p)
    BY <1>2 DEF TemplateFile
  <2>2. /\ IsContent(Source[o.checkout])
        /\ Agents \in DOMAIN Source[o.checkout]
    BY TemplateAssumption DEF TemplateAssumption, IsObservation
  <2>3. CASE p \in DOMAIN Source[o.checkout]
    BY <2>1, <2>2, <2>3 DEF CheckoutFile, IsContent
  <2>4. CASE p \notin DOMAIN Source[o.checkout] /\ p = Claude
    BY <2>1, <2>2, <2>4, TemplateAssumption DEF CheckoutFile, IsContent, TemplateAssumption
  <2>5. CASE p \notin DOMAIN Source[o.checkout] /\ p # Claude
    BY <2>1, <2>5 DEF CheckoutFile, IsFile
  <2>. QED BY <2>3, <2>4, <2>5
<1>. QED BY <1>1, <1>2

\* A declared path stands for names that are there (visit, read_file).
LEMMA VisitedAreThere ==
  ASSUME NEW o, NEW root, NEW p \in Names, TemplateFile(o, root, p) # Absent,
         NEW q \in Visit(o, root, p)
  PROVE  q \in Names /\ TemplateFile(o, root, q) # Absent
BY FolderAssumption DEF FolderAssumption, Visit, Below

\* The source entries are the root as it is (collect_template_source_entries).
LEMMA SourceEntriesAreTyped ==
  ASSUME NEW o, IsObservation(o), NEW root \in {"own", "checkout"}, NEW reserved,
         NEW b \in SourceEntries(o, root, reserved)
  PROVE  /\ b \in Baselines
         /\ \A p \in DOMAIN b : b[p] = TemplateFile(o, root, p)
<1>. DEFINE ownership == TemplateFile(o, root, Ownership)
            paths == SourcePaths(o, root, reserved)
<1>1. /\ ownership \in DOMAIN Declares
      /\ b = [p \in paths |-> TemplateFile(o, root, p)]
      /\ \A p \in Declares[ownership] \ reserved : TemplateFile(o, root, p) # Absent
  BY DEF SourceEntries
<1>2. Declares[ownership] \subseteq Names /\ ownership # Absent /\ Ownership \in Names
  BY <1>1, TemplateAssumption DEF TemplateAssumption, Names
<1>3. ASSUME NEW q \in paths PROVE q \in Names /\ TemplateFile(o, root, q) # Absent
  <2>1. CASE q = Ownership
    BY <1>2, <2>1
  <2>2. CASE q # Ownership
    <3>1. PICK p \in Declares[ownership] \ reserved : q \in Visit(o, root, p)
      BY <2>2 DEF SourcePaths, Visited
    <3>. QED BY <1>1, <1>2, <3>1, VisitedAreThere
  <2>. QED BY <2>1, <2>2
<1>4. \A q \in paths : TemplateFile(o, root, q) \in Contents \cup {Directory}
  BY <1>3, TemplateFileIsTyped
<1>. HIDE DEF paths
<1>5. b \in [paths -> Contents \cup {Directory}] /\ paths \in SUBSET Names
  BY <1>1, <1>3, <1>4
<1>. QED BY <1>1, <1>5 DEF Baselines

\* The files of a baseline are contents at paths, and what adopt installs of it.
LEMMA InstallSetIsContent ==
  ASSUME NEW o, IsObservation(o), NEW root \in {"own", "checkout"}, NEW reserved,
         NEW b \in SourceEntries(o, root, reserved), Agents \in Files(b)
  PROVE  IsContent(LifecycleInstallSet(b))
<1>1. b \in Baselines /\ \A p \in DOMAIN b : b[p] = TemplateFile(o, root, p)
  BY SourceEntriesAreTyped
<1>2. ASSUME NEW p \in Files(b) PROVE p \in Paths /\ b[p] \in Contents
  <2>1. p \in Names /\ p \in DOMAIN b /\ IsFile(b[p])
    BY <1>1 DEF Baselines, Files
  <2>. QED BY <1>1, <2>1, TemplateFileIsTyped DEF IsFile
<1>3. IsContent(Restrict(b, Files(b)))
  BY <1>2 DEF IsContent, Restrict
<1>4. IsContent([p \in {Claude} |-> b[Agents]])
  BY <1>2, TemplateAssumption DEF IsContent, TemplateAssumption
<1>. QED BY <1>3, <1>4, OverIsContent DEF LifecycleInstallSet

\* An initial manifest is a manifest.
LEMMA InitialManifestIsManifest ==
  ASSUME NEW generation \in {"github", "copier", "adopted"}, NEW selection \in SUBSET Capabilities,
         NEW base \in Baselines, NEW managed, IsContent(managed)
  PROVE  InitialManifest(generation, selection, base, managed) \in Manifests
BY IdentitiesAreContent DEF InitialManifest, Manifests

\* apply leaves a manifest (compile_initial_install).
LEMMA ApplyRecords ==
  ASSUME NEW o, IsObservation(o), NEW selection \in SUBSET Capabilities, NEW leave,
         ApplyAccepted(o, leave), NEW plan \in CompileApply(o, selection, leave)
  PROVE  plan.after \in Manifests
<1>. DEFINE managed == Outputs(o.version, selection)
<1>1. PICK b \in SourceEntries(o, "own", SlotPaths \cup DOMAIN managed) :
        plan = ApplyPlan(o, selection, leave, b)
  BY DEF CompileApply
<1>5. plan.after = InitialManifest(Generation(o), selection, b, managed)
  BY <1>1 DEF ApplyPlan
<1>6. Resolvable(o.version, selection)
  BY DEF CompileApply
<1>2. Generation(o) \in {"github", "copier", "adopted"}
  BY DEF ApplyAccepted, Generation
<1>3. b \in Baselines
  BY <1>1, SourceEntriesAreTyped
<1>4. IsContent(managed)
  BY <1>6, OutputsAreContent DEF IsObservation
<1>. QED BY <1>2, <1>3, <1>4, <1>5, InitialManifestIsManifest

\* adopt leaves a manifest whose baseline is the checkout as it is, and writes
\* over a file only where replace is declared, never over a legal one
\* (compile_adoption_install, _partition_adoption_collisions).
LEMMA AdoptRecords ==
  ASSUME NEW o, IsObservation(o), NEW selection \in SUBSET Capabilities, NEW collisions,
         NEW plan \in CompileAdopt(o, selection, collisions)
  PROVE  /\ plan.after \in Manifests
         /\ \A p \in DOMAIN plan.after.base : plan.after.base[p] = TemplateFile(o, "checkout", p)
         /\ \A p \in DOMAIN plan.ops : IsFile(o.tree[p]) /\ p \in Paths =>
              p \in DOMAIN collisions /\ collisions[p] # "keep-existing" /\ p \notin LegalPaths
<1>. DEFINE managed(b) == AdoptManaged(o, selection, b)
            planned(b) == Over(Bundle, managed(b))
<1>1. PICK b \in SourceEntries(o, "checkout", SlotPaths \cup DOMAIN Outputs(o.checkout, selection)) :
        /\ plan = AdoptPlan(o, selection, collisions, b)
        /\ Resolvable(o.checkout, selection)
        /\ Agents \in Files(b)
        /\ CollisionsDeclared(o, planned(b), collisions)
  BY DEF CompileAdopt
<1>2. b \in Baselines /\ \A p \in DOMAIN b : b[p] = TemplateFile(o, "checkout", p)
  BY <1>1, SourceEntriesAreTyped
<1>3. plan.after = InitialManifest("adopted", selection, b, Recorded(managed(b), collisions))
  BY <1>1 DEF AdoptPlan
<1>4. IsContent(managed(b))
  <2>1. IsContent(LifecycleInstallSet(b))
    BY <1>1, InstallSetIsContent
  <2>2. IsContent(Outputs(o.checkout, selection))
    BY <1>1, OutputsAreContent DEF IsObservation
  <2>. QED BY <2>1, <2>2, OverIsContent DEF AdoptManaged
<1>5. IsContent(Recorded(managed(b), collisions))
  BY <1>4 DEF Recorded, Restrict, IsContent
<1>6. plan.after \in Manifests
  BY <1>2, <1>3, <1>5, InitialManifestIsManifest
<1>7. plan.after.base = b
  BY <1>3 DEF InitialManifest
<1>8. ASSUME NEW p \in DOMAIN plan.ops, IsFile(o.tree[p])
      PROVE  p \in DOMAIN collisions /\ collisions[p] # "keep-existing" /\ p \notin LegalPaths
  <2>1. plan.ops = Operations(o.tree, Written(planned(b), collisions))
    BY <1>1 DEF AdoptPlan
  <2>2. p \in DOMAIN planned(b) \ Kept(collisions)
    BY <2>1 DEF Operations, Written, Restrict
  <2>3. p \in DOMAIN collisions
    BY <1>1, <1>8, <2>2 DEF CollisionsDeclared, Colliding
  <2>4. collisions[p] # "keep-existing"
    BY <2>2, <2>3 DEF Kept
  <2>5. p \in LegalPaths => collisions[p] = "keep-existing"
    BY <1>1, <2>3 DEF CollisionsDeclared
  <2>. QED BY <2>3, <2>4, <2>5
<1>. QED BY <1>2, <1>6, <1>7, <1>8

\* A selection recorded in a manifest extends by its additions (resolve_additions);
\* add leaves a manifest that keeps the profile and what was added before.
LEMMA AddRecords ==
  ASSUME NEW o, IsObservation(o), NEW root \in {"own", "checkout"},
         NEW capabilities \in SUBSET Capabilities, Existing(o),
         NEW plan \in CompileAdd(o, root, capabilities)
  PROVE  /\ plan.after \in Manifests
         /\ plan.after.profile = o.manifest.profile
         /\ o.manifest.additions \subseteq plan.after.additions
<1>. DEFINE m == o.manifest
            v == CodeVersion(o, root)
            additions == Additions(m, capabilities)
            outputs == Outputs(v, m.profile \cup additions)
<1>1. /\ plan = AddPlan(o, additions, outputs)
      /\ Resolvable(v, m.profile \cup additions)
  BY DEF CompileAdd
<1>2. m \in Manifests /\ v \in Versions
  BY DEF IsObservation, CodeVersion
<1>3. plan.after = [m EXCEPT !.additions = additions, !.managed = Identities(outputs)]
  BY <1>1 DEF AddPlan, Extended
<1>4. Identities(outputs) \in ContentMaps
  BY <1>1, <1>2, OutputsAreContent, IdentitiesAreContent
<1>5. additions \in SUBSET Capabilities /\ m.additions \subseteq additions
  BY <1>2 DEF Additions, Manifests
<1>. HIDE DEF m, outputs, additions, v
<1>6. plan.after \in Manifests
  BY <1>2, <1>3, <1>4, <1>5 DEF Manifests
<1>7. plan.after.profile = m.profile /\ plan.after.additions = additions
  BY <1>2, <1>3 DEF Manifests
<1>. QED BY <1>5, <1>6, <1>7 DEF m

\* reconcile leaves a manifest with the recorded selection (compile_reconcile_plan).
LEMMA ReconcileRecords ==
  ASSUME NEW o, IsObservation(o), ReconcileAccepted(o, "own"), NEW overwrite,
         NEW plan \in CompileReconcile(o, "own", overwrite)
  PROVE  /\ plan.after \in Manifests
         /\ plan.after.profile = o.manifest.profile
         /\ plan.after.additions = o.manifest.additions
<1>. DEFINE m == o.manifest
            v == CodeVersion(o, "own")
            render == Outputs(v, Selected(m))
<1>1. PICK b \in SourceEntries(o, "own", SlotPaths \cup DeclaredManaged(v)) :
        plan = ReconcilePlan(o, render, b)
  BY DEF CompileReconcile
<1>2. b \in Baselines
  BY <1>1, SourceEntriesAreTyped
<1>3. m \in Manifests /\ v \in Versions /\ Resolvable(v, Selected(m))
  BY DEF ReconcileAccepted, SourceChanged, Comparable, IsObservation, CodeVersion
<1>4. Identities(render) \in ContentMaps
  BY <1>3, OutputsAreContent, IdentitiesAreContent
<1>5. plan.after = [m EXCEPT !.base = b, !.managed = Identities(render)]
  BY <1>1 DEF ReconcilePlan
<1>. QED BY <1>2, <1>3, <1>4, <1>5 DEF Manifests

\* restore records nothing and writes recorded paths to their recorded
\* identities (compile_restore_plan, _adopted_lifecycle_render).
LEMMA RestoreWrites ==
  ASSUME NEW o, IsObservation(o), Existing(o), NEW root, NEW requested,
         NEW plan \in CompileRestore(o, root, requested)
  PROVE  /\ plan.after = o.manifest
         /\ \A p \in DOMAIN plan.ops :
              /\ p \in DOMAIN o.manifest.managed
              /\ Normalized(plan.ops[p].new) = o.manifest.managed[p]
<1>. DEFINE m == o.manifest
            render == CertifiedRender(o, root)
            selected == IF requested = {} THEN Drifted(o) ELSE requested
            stale == {p \in selected : Normalized(o.tree[p]) # Normalized(render[p])}
<1>1. /\ plan = RestorePlan(o, render, selected)
      /\ requested \subseteq DOMAIN m.managed
      /\ \A p \in selected : p \in DOMAIN render /\ Normalized(render[p]) = m.managed[p]
  BY DEF CompileRestore, Certified
<1>2. selected \subseteq DOMAIN m.managed
  BY <1>1 DEF Drifted
<1>3. plan.after = m /\ plan.ops = Operations(o.tree, Restrict(render, stale))
  BY <1>1 DEF RestorePlan
<1>4. \A p \in DOMAIN plan.ops : p \in selected /\ plan.ops[p].new = render[p]
  BY <1>3 DEF Operations, Restrict
<1>. QED BY <1>1, <1>2, <1>3, <1>4

-----------------------------------------------------------------------------
\* The operations of a plan: the content they expect is the one observed, and
\* they leave a content, nothing or (never, but that is not needed) a directory.
WellWritten(t, ops) ==
  \A p \in DOMAIN ops :
    /\ ops[p] = [old |-> t[p], new |-> ops[p].new]
    /\ ops[p].new \in Contents \cup {Absent, Directory}

\* Operations expect what is there and leave what they are given.
LEMMA OperationsAreWellWritten ==
  ASSUME NEW t, NEW f, \A p \in DOMAIN f : f[p] \in Contents \cup {Absent, Directory}
  PROVE  WellWritten(t, Operations(t, f))
BY DEF WellWritten, Operations

\* What two functions write, the one over the other writes.
LEMMA OverIsWritten ==
  ASSUME NEW f, NEW g, NEW S, \A p \in DOMAIN f : f[p] \in S, \A p \in DOMAIN g : g[p] \in S
  PROVE  \A p \in DOMAIN Over(f, g) : Over(f, g)[p] \in S
BY DEF Over

\* apply seeds, renders and deletes (compile_initial_plan).
LEMMA ApplyIsWellWritten ==
  ASSUME NEW o, IsObservation(o), NEW selection, NEW leave,
         NEW plan \in CompileApply(o, selection, leave)
  PROVE  WellWritten(o.tree, plan.ops)
<1>. DEFINE managed == Outputs(o.version, selection)
            gone == Gone(CleanupDeletes(o, managed, leave))
            new == Over(Over(Bundle, managed), gone)
            S == Contents \cup {Absent, Directory}
<1>1. plan.ops = Operations(o.tree, new)
  BY DEF CompileApply, ApplyPlan
<1>2. IsContent(Bundle) /\ IsContent(managed)
  BY OutputsAreContent, TemplateAssumption DEF CompileApply, IsObservation, TemplateAssumption
<1>3. \A p \in DOMAIN gone : gone[p] \in S
  BY DEF Gone
<1>4. \A p \in DOMAIN Over(Bundle, managed) : Over(Bundle, managed)[p] \in S
  BY <1>2, OverIsContent DEF IsContent
<1>5. \A p \in DOMAIN new : new[p] \in S
  <2>. HIDE DEF gone, S, managed
  <2>. QED BY <1>3, <1>4, OverIsWritten
<1>. QED BY <1>1, <1>5, OperationsAreWellWritten

\* adopt seeds, renders and installs the lifecycle source.
LEMMA AdoptIsWellWritten ==
  ASSUME NEW o, IsObservation(o), NEW selection, NEW collisions,
         NEW plan \in CompileAdopt(o, selection, collisions)
  PROVE  WellWritten(o.tree, plan.ops)
<1>1. PICK b \in SourceEntries(o, "checkout", SlotPaths \cup DOMAIN Outputs(o.checkout, selection)) :
        /\ plan = AdoptPlan(o, selection, collisions, b)
        /\ Resolvable(o.checkout, selection)
        /\ Agents \in Files(b)
  BY DEF CompileAdopt
<1>. DEFINE managed == AdoptManaged(o, selection, b)
            new == Written(Over(Bundle, managed), collisions)
<1>2. IsContent(managed)
  <2>1. IsContent(LifecycleInstallSet(b))
    BY <1>1, InstallSetIsContent
  <2>2. IsContent(Outputs(o.checkout, selection))
    BY <1>1, OutputsAreContent DEF IsObservation
  <2>. QED BY <2>1, <2>2, OverIsContent DEF AdoptManaged
<1>3. IsContent(Over(Bundle, managed))
  BY <1>2, OverIsContent, TemplateAssumption DEF TemplateAssumption
<1>4. \A p \in DOMAIN new : new[p] \in Contents \cup {Absent, Directory}
  BY <1>3 DEF Written, Restrict, IsContent
<1>5. plan.ops = Operations(o.tree, new)
  BY <1>1 DEF AdoptPlan
<1>. QED BY <1>4, <1>5, OperationsAreWellWritten

\* add renders the extended selection (compile_add_plan).
LEMMA AddIsWellWritten ==
  ASSUME NEW o, IsObservation(o), NEW root \in {"own", "checkout"}, NEW capabilities,
         NEW plan \in CompileAdd(o, root, capabilities)
  PROVE  WellWritten(o.tree, plan.ops)
<1>. DEFINE v == CodeVersion(o, root)
            selection == o.manifest.profile \cup Additions(o.manifest, capabilities)
<1>1. plan.ops = Operations(o.tree, Outputs(v, selection))
  BY DEF CompileAdd, AddPlan
<1>2. IsContent(Outputs(v, selection))
  BY OutputsAreContent DEF CompileAdd, IsObservation, CodeVersion
<1>. QED BY <1>1, <1>2, OperationsAreWellWritten DEF IsContent

\* restore writes what it renders or reads (compile_restore_plan).
LEMMA RestoreIsWellWritten ==
  ASSUME NEW o, IsObservation(o), NEW root \in {"own", "checkout"}, NEW requested,
         RestoreAccepted(o, root), NEW plan \in CompileRestore(o, root, requested)
  PROVE  WellWritten(o.tree, plan.ops)
<1>. DEFINE m == o.manifest
            rendered == Outputs(CodeVersion(o, root), Selected(m))
            lifecycle == [p \in AdoptedLifecycle(m, rendered) |-> TemplateFile(o, root, p)]
            render == CertifiedRender(o, root)
            selected == IF requested = {} THEN Drifted(o) ELSE requested
            stale == {p \in selected : Normalized(o.tree[p]) # Normalized(render[p])}
            S == Contents \cup {Absent, Directory}
<1>1. /\ plan.ops = Operations(o.tree, Restrict(render, stale))
      /\ selected \subseteq DOMAIN render
  BY DEF CompileRestore, RestorePlan, Certified
<1>2. m \in Manifests /\ Resolvable(CodeVersion(o, root), Selected(m))
  BY DEF RestoreAccepted, SourceSame, Comparable, IsObservation
<1>3. \A p \in DOMAIN rendered : rendered[p] \in S
  BY <1>2, OutputsAreContent DEF IsObservation, CodeVersion, IsContent
<1>4. \A p \in DOMAIN lifecycle : lifecycle[p] \in S
  <2>. SUFFICES ASSUME NEW p \in DOMAIN lifecycle PROVE lifecycle[p] \in S
    OBVIOUS
  <2>1. p \in DOMAIN m.managed
    BY DEF AdoptedLifecycle
  <2>2. p \in Paths
    BY <1>2, <2>1 DEF Manifests, ContentMaps
  <2>. QED BY <2>2, TemplateFileIsTyped DEF Names
<1>5. \A p \in DOMAIN render : render[p] \in S
  <2>1. render = Over(rendered, lifecycle)
    BY DEF CertifiedRender
  <2>. HIDE DEF rendered, lifecycle, S, render
  <2>. QED BY <2>1, <1>3, <1>4, OverIsWritten
<1>6. \A p \in DOMAIN Restrict(render, stale) : Restrict(render, stale)[p] \in S
  BY <1>1, <1>5 DEF Restrict
<1>. QED BY <1>1, <1>6, OperationsAreWellWritten

\* reconcile renders and deletes (compile_reconcile_plan).
LEMMA ReconcileIsWellWritten ==
  ASSUME NEW o, IsObservation(o), ReconcileAccepted(o, "own"), NEW overwrite,
         NEW plan \in CompileReconcile(o, "own", overwrite)
  PROVE  WellWritten(o.tree, plan.ops)
<1>. DEFINE v == CodeVersion(o, "own")
            render == Outputs(v, Selected(o.manifest))
            gone == Gone(Retired(o, render))
            S == Contents \cup {Absent, Directory}
<1>1. plan.ops = Operations(o.tree, Over(render, gone))
  <2>1. PICK b : plan = ReconcilePlan(o, render, b)
    BY DEF CompileReconcile
  <2>. QED BY <2>1 DEF ReconcilePlan
<1>2. v \in Versions /\ Resolvable(v, Selected(o.manifest))
  BY DEF ReconcileAccepted, SourceChanged, Comparable, IsObservation, CodeVersion
<1>3. \A p \in DOMAIN render : render[p] \in S
  BY <1>2, OutputsAreContent DEF IsContent
<1>4. \A p \in DOMAIN gone : gone[p] \in S
  BY DEF Gone
<1>5. \A p \in DOMAIN Over(render, gone) : Over(render, gone)[p] \in S
  <2>. HIDE DEF render, gone, S
  <2>. QED BY <1>3, <1>4, OverIsWritten
<1>. QED BY <1>1, <1>5, OperationsAreWellWritten
=============================================================================
