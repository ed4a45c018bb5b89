--------------------------- MODULE TemplateSource ---------------------------
(***************************************************************************)
(* What the bootstrap knows of the template: which lifecycle files a       *)
(* version ships, what it renders for a selection of capabilities, the     *)
(* seed-once files, the cleanup inventory and the paths the contract       *)
(* requires.  Contents are opaque; two contents with one normal form       *)
(* differ in line endings only.  Modes and text/binary kinds belong to the *)
(* content.  A folder is there when a file below it is: empty ones, which  *)
(* neither Git nor Copier carries, do not exist.                           *)
(***************************************************************************)
EXTENDS Naturals, FiniteSets, Functions

CONSTANTS
  Paths,           \* the paths of a project a command can meet
  Contents,        \* file contents
  Absent, Directory,
  Inside,          \* folder -> the paths and the folders below it
  Generated,       \* what tools leave behind and no collection takes for source
  Versions,        \* template versions
  Capabilities,
  Source,          \* version -> its lifecycle files, with their contents
  Declares,        \* content of a decodable ownership file -> declared paths and folders
  Render,          \* version -> effective selection -> managed outputs
  Catalog,         \* version -> the capabilities it knows
  Needs,           \* capability -> its dependencies, transitively
  Scaffold,        \* seed-once slot -> the template's scaffold content
  Bundle,          \* seed-once and legal path -> content the bundle asks for
  Cleanup,         \* path of the maintenance inventory -> recorded content
  InventoryBytes,  \* the maintenance inventory the template ships
  Required,        \* the files of the template contract
  Normal,          \* content -> the content its normalized digest stands for
  Answers, Ownership, Inventory, Agents, Claude

SlotPaths == DOMAIN Scaffold
SeedPaths == DOMAIN Bundle
LegalPaths == SeedPaths \ SlotPaths
OutputPaths == UNION {DOMAIN Render[v][s] : v \in Versions, s \in SUBSET Capabilities}

Trees == [Paths -> Contents \cup {Absent, Directory}]
Folders == DOMAIN Inside
Names == Paths \cup Folders
IsContent(f) == DOMAIN f \subseteq Paths /\ \A p \in DOMAIN f : f[p] \in Contents

ASSUME TemplateAssumption ==
  /\ {Absent, Directory} \cap Contents = {}
  /\ {Answers, Ownership, Inventory, Agents, Claude} \subseteq Paths
  /\ \A v \in Versions : IsContent(Source[v]) /\ Catalog[v] \subseteq Capabilities
  /\ \A v \in Versions : Agents \in DOMAIN Source[v]
  /\ \A v \in Versions, s \in SUBSET Capabilities : IsContent(Render[v][s])
  /\ IsContent(Bundle) /\ SlotPaths \subseteq SeedPaths
  /\ Normal \in [Contents -> Contents]
  /\ DOMAIN Declares \subseteq Contents
  /\ \A c \in DOMAIN Declares : Declares[c] \subseteq Names

(* Folders are nested; what is in a generated folder is generated; and a     *)
(* declaration does not name a folder and something in it.                   *)
ASSUME FolderAssumption ==
  /\ Folders \cap Paths = {} /\ Generated \subseteq Names
  /\ \A d \in Folders : Inside[d] \subseteq Names
  /\ \A d \in Folders : \A e \in Inside[d] \cap Folders : Inside[e] \subseteq Inside[d]
  /\ \A d \in Folders \cap Generated : Inside[d] \subseteq Generated
  /\ \A c \in DOMAIN Declares : \A d \in Declares[c] \cap Folders : Declares[c] \cap Inside[d] = {}

(* Paths of different owners are disjoint: the ownership declaration rejects *)
(* administrative and reserved paths, the renderer rejects a seed path, and  *)
(* the administrative and seed paths are in no declared folder.              *)
ASSUME DisjointAssumption ==
  /\ {Ownership, Claude} \cap SeedPaths = {}
  /\ \A c \in DOMAIN Declares : Declares[c] \cap SeedPaths = {}
  /\ OutputPaths \cap (SeedPaths \cup {Answers, Ownership, Inventory, Claude}) = {}
  /\ \A v \in Versions : DOMAIN Source[v] \cap (SeedPaths \cup {Claude, Inventory}) = {}
  /\ \A d \in Folders : Inside[d] \cap (SeedPaths \cup {Answers, Ownership, Inventory, Claude}) = {}
  /\ DOMAIN Cleanup \cap (SeedPaths \cup {Ownership, Inventory}) = {}

(* The function f where it is defined, and g elsewhere.                      *)
Over(f, g) == [p \in DOMAIN f \cup DOMAIN g |-> IF p \in DOMAIN f THEN f[p] ELSE g[p]]

IsFile(c) == c \notin {Absent, Directory}
Files(t) == {p \in DOMAIN t : IsFile(t[p])}

(* What the inventory compares: line endings do not count.                   *)
Normalized(c) == IF IsFile(c) THEN Normal[c] ELSE c
Identities(f) == [p \in DOMAIN f |-> Normalized(f[p])]

(* The dependency closure, and whether this version can resolve it.          *)
Effective(selection) == selection \cup UNION {Needs[c] : c \in selection}
Resolvable(v, selection) == Effective(selection) \subseteq Catalog[v]
Outputs(v, selection) == Render[v][Effective(selection)]

DeclaredManaged(v) == UNION {DOMAIN Render[v][s] : s \in SUBSET Catalog[v]}

(***************************************************************************)
(* A command runs from a template root: the project's own copy of the      *)
(* template, or a checkout elsewhere.  An observation o carries the        *)
(* project's tree and manifest, the version its own copy has and the       *)
(* version of the checkout.                                                *)
(***************************************************************************)
CodeVersion(o, root) == IF root = "own" THEN o.version ELSE o.checkout

(* What is at a path or folder of tree t.                                    *)
At(t, p) ==
  IF p \notin Folders THEN t[p]
  ELSE IF \E q \in Inside[p] \cap Paths : t[q] # Absent THEN Directory ELSE Absent

CheckoutFile(v, p) ==
  CASE p \in DOMAIN Source[v] -> Source[v][p]
    [] p = Claude -> Source[v][Agents]      \* a symlink in the template
    [] p \in Folders /\ Inside[p] \cap DOMAIN Source[v] # {} -> Directory
    [] OTHER -> Absent

TemplateFile(o, root, p) ==
  IF root = "own" THEN At(o.tree, p) ELSE CheckoutFile(o.checkout, p)

Below(p) == {p} \cup (IF p \in Folders THEN Inside[p] ELSE {})

(* Bug: a declared directory is not entered.                                 *)
VisitNameOnly(o, root, p) == {p}

(* The entries a declared path stands for: a file for itself, a directory    *)
(* for what is in it and not generated.                                      *)
Visit(o, root, p) ==
  IF TemplateFile(o, root, p) = Directory
  THEN {q \in Below(p) : TemplateFile(o, root, q) # Absent} \ Generated
  ELSE {p}

Visited(o, root, paths) == UNION {Visit(o, root, p) : p \in paths}

SourcePaths(o, root, reserved) ==
  LET declared == Declares[TemplateFile(o, root, Ownership)] \ reserved
  IN  (Visited(o, root, declared) \ reserved) \cup {Ownership}

(* The declared source of the root, with the ownership declaration; no       *)
(* result when that cannot be read or a declared path is missing.            *)
SourceEntries(o, root, reserved) ==
  LET ownership == TemplateFile(o, root, Ownership)
  IN  IF /\ ownership \in DOMAIN Declares
         /\ \A p \in Declares[ownership] \ reserved : TemplateFile(o, root, p) # Absent
      THEN {[p \in SourcePaths(o, root, reserved) |-> TemplateFile(o, root, p)]} ELSE {}
=============================================================================
