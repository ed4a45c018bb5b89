SPECIFICATION Spec
CONSTANTS
  p1 = p1
  p2 = p2
  Absent = Absent
  Directory = Directory
  Idle = Idle
  Paths <- MCPaths
  Inside <- MCInside
  Generated = {"tools/cache"}
  Contents <- MCContents
  Versions = {1, 2}
  Capabilities = {"nix", "cachix"}
  Source <- MCSource
  Declares <- MCDeclares
  Render <- MCRender
  Catalog <- MCCatalog
  Needs <- MCNeeds
  Scaffold <- MCScaffold
  Bundle <- MCBundle
  Cleanup <- MCCleanup
  InventoryBytes = "inventory1"
  Required = {"README.md", "AGENTS.md", "CLAUDE.md", "ownership", "ci.yml"}
  Normal <- MCNormal
  Answers = "answers"
  Ownership = "ownership"
  Inventory = "inventory"
  Agents = "AGENTS.md"
  Claude = "CLAUDE.md"
  Processes <- Pair
  Intents <- MCIntents
  Projects <- AllProjects
  Edits <- MCEdits
  MaxEdits = 1
  MaxReceipts = 1
SYMMETRY Symmetry
INVARIANTS
  TypeOK
  DriftIsRepairable
PROPERTIES
  AdditionsAreKept
  DriftNeedsItsReceipt
  RetiredOutputsGo
  RestoreWritesTheRecord
  AdoptionIsDeclared
  AdoptionIsCurrent
  SeedsAreSeededOnce
  CleanupTakesTemplateBytes
  InventoryIsInstalled
  
  ContractIsKept
CHECK_DEADLOCK FALSE
