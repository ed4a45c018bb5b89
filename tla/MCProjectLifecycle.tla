------------------------- MODULE MCProjectLifecycle -------------------------
(* A small template for ProjectLifecycle: two versions, two capabilities of *)
(* which one needs the other, and which alone tell the versions' renders    *)
(* apart.  The second version declares a folder, with an output and         *)
(* generated state in it, and a path that the first one renders.            *)
EXTENDS ProjectLifecycle, TLC

CONSTANTS p1, p2

\* Paths of the real template, one of each class.
MCPaths ==
  {"README.md", "LICENSE", "AGENTS.md", "CLAUDE.md", "ownership", "resolver.py", "ci.yml",
   "flake.nix", "legacy.yml", "fresh.yml", "answers", "inventory", "tests",
   "shell.nix", "tools/gen.py", "tools/cache", "tools/ci/nix.yml"}

MCInside ==
  ("tools" :> {"tools/gen.py", "tools/cache", "tools/ci", "tools/ci/nix.yml"})
  @@ ("tools/ci" :> {"tools/ci/nix.yml"})

MCSource ==
  <<[p \in {"AGENTS.md", "ownership"} |-> IF p = "ownership" THEN "own1" ELSE "agents1"],
    ("AGENTS.md" :> "agents2") @@ ("ownership" :> "own2") @@ ("resolver.py" :> "resolver2")
    @@ ("shell.nix" :> "shell2") @@ ("tools/gen.py" :> "gen2")>>

MCDeclares ==
  ("own1" :> {"AGENTS.md"}) @@ ("own2" :> {"AGENTS.md", "resolver.py", "shell.nix", "tools"})

\* ci.yml has a slot for every capability; nix adds files of its own, of which
\* the versions have only one in common.
Ci(v, s) == CASE s = {} -> "ci"
              [] s = {"nix"} -> <<"ci1n", "ci2n">>[v]
              [] OTHER -> <<"ci1nc", "ci2nc">>[v]

Nix(v) ==
  ("flake.nix" :> "flake")
  @@ (IF v = 1 THEN ("legacy.yml" :> "legacy") @@ ("shell.nix" :> "shell1")
      ELSE ("fresh.yml" :> "fresh") @@ ("tools/ci/nix.yml" :> "fresh"))

MCRender ==
  [v \in 1..2 |-> [s \in SUBSET {"nix", "cachix"} |->
     ("ci.yml" :> Ci(v, s)) @@ (IF "nix" \in s THEN Nix(v) ELSE <<>>)]]

MCCatalog == [v \in 1..2 |-> {"nix", "cachix"}]
MCNeeds == ("nix" :> {}) @@ ("cachix" :> {"nix"})
MCScaffold == "README.md" :> "scaffold"
MCBundle == ("README.md" :> "readme") @@ ("LICENSE" :> "license")
MCCleanup == ("tests" :> "tests1") @@ ("flake.nix" :> "flake0")

MCContents ==
  {"own1", "own2", "agents1", "agents2", "resolver2", "ci", "shell1", "shell2", "gen2", "ci1n",
   "ci2n", "ci1nc", "ci2nc", "legacy", "fresh", "flake", "flake0", "scaffold", "readme", "license",
   "tests1", "inventory1", "answers1", "mine", "ci crlf", "agents1 crlf"}

\* Line endings are the only thing a normalized digest forgets.
MCNormal == [c \in MCContents |->
  CASE c = "ci crlf" -> "ci" [] c = "agents1 crlf" -> "agents1" [] OTHER -> c]

Tree(files) == [p \in MCPaths |-> IF p \in DOMAIN files THEN files[p] ELSE Absent]

GitHubScaffold ==
  Tree(MCSource[1] @@ ("README.md" :> "scaffold") @@ ("LICENSE" :> "license")
       @@ ("CLAUDE.md" :> "agents1") @@ ("inventory" :> "inventory1") @@ MCCleanup)

CopierScaffold ==
  Tree(MCSource[1] @@ ("answers" :> "answers1") @@ ("CLAUDE.md" :> "agents1")
       @@ ("ci.yml" :> "ci"))

Brownfield ==
  Tree(("README.md" :> "mine") @@ ("AGENTS.md" :> "mine") @@ ("ci.yml" :> "mine"))

Started(t) == [tree |-> t, version |-> 1]
GitHubProjects == {Started(GitHubScaffold)}
CopierProjects == {Started(CopierScaffold)}
AdoptedProjects == {Started(Brownfield)}
AllProjects == GitHubProjects \cup CopierProjects \cup AdoptedProjects

Declaration(readme, agents, ci) ==
  ("README.md" :> readme) @@ ("AGENTS.md" :> agents) @@ ("ci.yml" :> ci)

MCIntents ==
  {[kind |-> "apply", selection |-> s, leave |-> l] : s \in {{}, {"nix"}}, l \in BOOLEAN}
  \cup {[kind |-> "adopt", selection |-> {}, collisions |-> c] :
          c \in {Declaration("keep-existing", a, "replace") : a \in {"keep-existing", "replace"}}
                 \cup {Declaration("replace", "replace", "keep-existing")}}
  \cup {[kind |-> "add", root |-> r, capabilities |-> {c}] :
          r \in {"own", "checkout"}, c \in {"nix", "cachix"}}
  \cup {[kind |-> "restore", root |-> r, requested |-> s] :
          r \in {"own", "checkout"}, s \in {{}, {"ci.yml"}}}
  \cup {[kind |-> k, overwrite |-> w] : k \in {"reconcile", "plan reconcile"}, w \in BOOLEAN}

MCEdits ==
  {<<"ci.yml", "mine">>, <<"ci.yml", "ci crlf">>, <<"ci.yml", Absent>>, <<"ci.yml", Directory>>,
   <<"AGENTS.md", "mine">>, <<"flake.nix", "mine">>, <<"fresh.yml", "mine">>,
   <<"legacy.yml", "mine">>, <<"README.md", "mine">>, <<"CLAUDE.md", Absent>>,
   <<"LICENSE", "mine">>, <<"tests", "mine">>, <<"tools/cache", "mine">>}

\* The files that decide what this template renders.
Engine == {"ownership", "resolver.py"}

ASSUME RepairAssumption == EngineDecides(Engine) /\ EngineIsKept(Engine)

Pair == {p1, p2}
One == {p1}
Symmetry == Permutations(Pair)
=============================================================================
