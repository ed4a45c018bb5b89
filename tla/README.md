# Specifications of the bootstrap engine

The repository is a project template with a deterministic bootstrap command
(`scripts/bootstrap_project.py`, package `scripts/bootstrap`). A command plans a
set of file and directory operations on a Git worktree and applies them as one
recoverable transaction: a write-ahead journal with the phases PLANNED,
MUTATING, RESTORED and SEALED, a state-root lock, staged payloads, raw backups,
rollback, and a `recover` command that continues from whatever a crash left.
Around it stand the commands that use it over the life of a project: `apply` and
`adopt` install a first time, `add`, `restore` and `reconcile` change what a
manifest records.

These TLA+ modules model both, the transaction and the project over its
commands, and two things between them: how a command reads a project that others
write to, and what of a transaction a power failure leaves. TLC checks them on
small plans and a small template; TLAPS proves the promises of the transaction,
of its pure core and of its shell with crashes and recoveries, of the observation
and of durability for every plan, and the promises of the commands for every
template.

## Inventory

| Component | State | Operations | Interacts with | Hard behaviour | Correct when |
| --- | --- | --- | --- | --- | --- |
| Operation plan (`planner.py`, `transaction.py`, `rollback.py`) | an immutable list of operations | derive preparations, rollback containers, cleanup items; decide rollback and verification | read by machine, shell and recovery | order of children and the directory that is removed | the inventory names all evidence, once, the journal last |
| Transaction machine (`transaction.py`) | continuation, cursor, trace | `step_transaction` | asks the shell for one effect at a time | events out of order, failures at every effect, cursor bounds | nothing is mutated unprepared, SEALED and RESTORED are earned, it terminates |
| Transaction shell (`transaction_machine.py`, `fs_effects.py`) | the planned paths, stages, containers, backups, transaction directory | one executor per effect | machine, journal, lock, disk | crashes between and inside effects, edits by others, collisions with leftovers | the target is whole whenever no journal exists, a third state is never overwritten |
| Journal (`journal.py`) | `journal.json`, `journal.pending` | persist, classify | shell, recovery, decisions | crash between write and rename | the phases only go forward |
| Lock (`locking.py`) | a flock | acquire without blocking, release | every mutating command | what was observed before the lock | one writer at a time, never kept |
| Recovery (`decisions.py`, `recovery.py`, `transaction_machine.py`) | the journal and its evidence | discard, roll back, finish rollback cleanup, finish forward | all of the above | repeated recovery after a crash of recovery | every phase is left in its own direction |
| Hook (`process_effects.py`, `cli.py`) | none | run after an apply | shell | runs after the lock is released | runs only over an installation |
| Commands (`cli.py`, `bundles.py`) | the command's plan, expected target and receipt | observe, decide, compile, lock, do all three again, install | all below, the transaction | the target, the manifest and the template checkout change between the plan and the lock | what is installed is what was planned, previewed and declared |
| Classification (`observation.py`, `scaffold.py`) | none | generation, cleanup contract, drift, source delta, topology | decisions | what one command records and the next compares follow different rules | a fresh project is never mistaken, a settled one is seen as settled |
| Decisions (`decisions.py`, `state.py`) | none | one decision for each intent and state | observation, planner | many conditions in a fixed order | refuses whatever is not safe |
| Durability (`fs_effects.py`, the fsyncs of `transaction_machine.py`) | which directory entries are on the medium | fsync of a file, of its directory | shell, journal, recovery | power fails at any step and unsynced entries are lost or kept at will | the journal that survives never promises less damage than the target that survives shows |
| Coherent observation (`observation.py`, `journal.py`) | what the passes have read | double collect with three attempts, single advisory pass | target, state root | a writer within and between two passes | returns a state that existed, refuses only over a real change |
| Planner (`planner.py`, `plan_digest.py`) | none | compile the plan of each command: outputs, manifest, cleanup, order | decisions, manifest | outputs that meet files of the adopter, retired outputs, nested directories | writes what its command may, records what it writes, one operation for each path |
| Readiness (`readiness.py`, `readiness_rules.py`) | none | evaluate, gate | shell | findings as a multiset | introduces no blocking finding |
| Manifest, catalog, rendering, bundles, schemas, presentation, git resolution, validators | none | decode, render, print | the above | none of them concurrent | data in, data out |

The hazards of the code, each at its line and with the properties that would
catch it, are listed in `PROJECT.json`.

## Modules

| Module | Models |
| --- | --- |
| `OperationPlan` | The operation kinds; what each reserves (`_preparation_specs_for_operation`, `derive_rollback_specs`); the cleanup inventory (`derive_cleanup`); the decisions of `rollback.py` and `recovery.py`. |
| `TransactionStep` | `step_transaction` as a function of a machine and an event, one operator for each continuation. |
| `TransactionMachine` | That function under every event in every order. `history` records what accepted observations have established, so that promises about the past are state predicates. |
| `RecoveryStep` | The control of `_execute_recovery_phase`, in the same shape: a function from a state and the answer to its effect. |
| `BootstrapTransaction` | The shell: processes that observe, take the lock and execute effects, on one disk, with crashes, edits by others and `git clean`. `run` is the command that holds the lock, applying (`StepTransaction`) or recovering (`StepRecovery`). |
| `InstallContract` | The promise to the adopter: paths change one at a time and only while the transaction is open; abort over all old, commit over all new. |
| `TemplateSource` | What the bootstrap knows of the template: its versions, what they render, the seed-once files, the ownership declaration, the contract, and the folders paths lie in; reading them from the project's own copy or from a checkout. |
| `ProjectDecisions` | How a project is classified (`observation.py`, `scaffold.py`) and what each command accepts (`decisions.py`). |
| `PlanCompilation` | The plan each command compiles (`planner.py`, `bundles.py`, `resolver.py`), or its refusal. |
| `ProjectLifecycle` | Processes that run the commands on one project, with its adopter, Copier and the template checkout: `Begin` before the lock, `Install` or `GiveUp` under it. |
| `ObservedDisk` | What an observation reads, location by location in the order of a pass, which reads depend on others, and the verdict on the state root (`classify_state_root`). |
| `DoubleCollect` | One pass, and `collect_coherent_observation` over passes, on a disk any writer may change in any way. |
| `CoherentObservation` | `observe_system` beside the transactions of `InstallContract` and an adopter; an instance of `DoubleCollect` on the disk they make. |
| `PowerLoss` | The control of a transaction and its recovery, with the durable disk beside the current one: what each step fsyncs, what it does not, and power failures. |
| `MCTransactionMachine`, `MCBootstrapTransaction`, `MCProjectLifecycle`, `MCCoherentObservation`, `MCPowerLoss` | The plans, the processes and the template TLC checks. |
| `OperationPlan_proofs`, `TransactionMachine_proofs`, `BootstrapTransaction_proofs`, `PlanCompilation_proofs`, `ProjectLifecycle_proofs`, `DoubleCollect_proofs`, `CoherentObservation_proofs`, `PowerLoss_proofs` | The theorems. |

The parts meet at the contract. `ProjectLifecycle` installs a plan in one step;
`BootstrapTransaction` shows what that step is made of, and that it is all or
nothing (`InstallContract`); the writers of `CoherentObservation` are that
contract again, seen by somebody who reads while they write; and `PowerLoss`
takes the same control to a disk that forgets.

How the state of the transaction corresponds to the code:

* A plan is its sequence of kinds and the pairs `<<i, d>>` where operation `d`
  removes the directory of operation `i`. `WellFormed` is the order
  `planner.py` produces (files before directories, deeper directories first),
  restricted to one operation for each path.
* A planned path is `old`, `new` or `other`: expected pre-state, planned
  candidate, third state. All comparisons of contents and modes in the reducers
  come down to these. The one exception is a directory that is removed: rollback
  looks at it with everything in it (`Childless`), verification does not.
* A stage or rollback container is `none`, `bare` (no marker), `torn` (part of a
  marker), `marked`, `partial` (part of a payload) or `full`. Creating one moves
  up these levels, a crash may stop at any, and removal moves down.
* A preparation, an item of cleanup and an operation are addressed by their slot
  (`StageSlot`, `BackupSlot`, ...), whose order is the order of the inventory.
* `run.busy` says an effect is under way between two of its steps; `run.alloc`
  that the run has allocated identities for its containers, `run.mine` the
  containers whose markers carry its tokens; `journal.extra` that a RESTORED
  journal also lists containers.

An effect is as many actions as a crash can tell apart: `WritePending` and
`RenamePending`; one `PrepareStage` or `BuildContainer` for each level; one
removal for each level. A verification and the rename, unlink or rmdir that
follows it are one action, because the engine does not claim to defend against
somebody who writes between them (design, "Path safety and threat model"); for
the same reason `Edit` and `GitClean` happen only between effects. `Crash`
stands for the end of the process and for an I/O error of any effect: both end
the command and leave the disk. An effect that the code refuses (a third state,
a collision, a leftover file) reports `EffectFailed` and the machine decides.

How the state of the project corresponds to the code:

* `tree` maps every path to a content, `Absent` or `Directory`; modes and the
  text or binary kind belong to the content, and `Normal` is what the normalized
  digest keeps of it. The maintenance record and the manifest's own encoding are
  not in the tree: `manifest` is what the manifest decodes to, and `base` and
  `managed` are its source baseline and its inventory.
* `Inside` says what lies in a folder. A folder is there when something in it is
  (`At`), so empty ones do not exist. The declaration may name folders:
  `SourceEntries` is the walk of `collect_template_source_entries`, with the
  entries of the folders, without what is `Generated` (`__pycache__` and its like)
  and without the outputs of the running version; `NewlyDeclared` is the other
  enumeration, that of `_source_delta`, which leaves out neither.
* `borrowed` is history: it says that the record was made by an `add` from a
  checkout of another version (or restored from such a record).
* An observation is the tree, the manifest and the versions of the two places a
  template can be read from, the project's own copy and a checkout (`root` of an
  intent). It is one step; `CoherentObservation` says when that is justified.
* `Accepted` is the decision, `Compile` the plan. A refusal of either is a
  stutter, because it changes nothing. The refusals that depend on what is not
  modelled (protected targets, a journal, limits, settings conflicts, the
  readiness gate) only remove behaviours.
* A plan carries what its receipt digest binds, so that equal digests are equal
  plans (`SameDigest`), and `receipts` holds the plans `plan reconcile`
  published.
* `Begin` is one of `ExecuteMutation`, `ExecuteAdoption` and `ExecuteLifecycle`,
  which end in `DriveTransaction`.
* `Install` compiles again from the observation under the lock
  (`RevalidateInitial`, `RevalidateLifecycle`), compares the plan with the one of
  `Begin`, checks the receipt of an `--overwrite-drift`, and its post validation
  compares the whole target with what `Begin` expected.
* `GiveUp` is every way a command ends without a change: a refusal under the
  lock, a rollback, the end of the process.
* `Edit`, `CopierUpdate` and `AdvanceCheckout` happen at any time, also between
  `Begin` and `Install`. They are external: modelled from what the code reads.

How the state of an observation corresponds to the code:

* `disk` maps locations to what a read of them finds. A state-root file is two
  locations, the stat and the open of `_capture_child`; so is a path of the tree
  (`Mode`, `Content`). A tree is flat, its listing one read (`Names`). What a
  pass looks at depends on what it has read (`Looks`): only listed paths are
  stat'ed, only what stat found is opened.
* `cap` is what the current pass has read, `first` what the first one of the
  attempt did. A pass reads the state root before the tree.
* A path that is listed and then gone is `PathMissing`, which ends the
  observation at once (`_PassCaptureFailed`), whatever the attempt.
* `takenBack`, `existed`, `changes`, `changed`, `met` and `wasThere` are history:
  they record what the properties speak of and no action reads them.
* In `CoherentObservation`, `phase`, `target` and the actions on them are
  `InstallContract`'s; `pending`, `directory` and `tx` add what else of a
  transaction lies in the state root.

How the state of durability corresponds to the code:

* `journal`, `target` and `backups` are the disk as processes see it; `durable`
  is what a power failure leaves of it. `unsynced` holds the entries the code
  fsyncs before its next step, so `Ready` is the return of that fsync. An entry
  the code does not fsync never enters `unsynced`; like every other it may be
  written back at any time (`WriteBack`).
* Contents are fsynced before the rename that shows them
  (`write_file_exclusive`), and stages are not restored from; neither is in the
  model.
* `durable.directories` says whether the new directories between the state root
  and the backups would still be there. The code fsyncs the last of them only.

## Runs

| Run | Shows |
| --- | --- |
| `machine` (`TransactionMachine.cfg`) | Every promise of the pure machine, and its termination, under every event. |
| `shell` (`BootstrapTransaction.cfg`) | No mixed target without a journal; PLANNED, RESTORED and SEALED mean what they say; backups outlive MUTATING; no orphaned evidence; third states survive; the journal goes forward; an undisturbed transaction leaves nothing behind. |
| `contract` (`InstallContract.cfg`) | The shell refines `InstallContract`; a sealed transaction is finished; every command returns. |
| `lifecycle` (`ProjectLifecycle.cfg`) | Two processes run all commands on a GitHub scaffold, a Copier project and a project to be adopted. No recorded capability is lost; drift is destroyed only under its receipt; restore writes the record; adoption replaces only what its bundle declares, never a legal file, and records the checkout of its installation; seeds are seeded once; cleanup deletes template bytes; the inventory is what is installed; a reconcile leaves no orphan, and nothing of the source unsettled but what the two enumerations treat differently; the template contract survives every installation; the own copy can repair drift, whatever was added, updated and edited, except in a record borrowed from another version. |
| `observation` (`CoherentObservation.cfg`) | Two equal passes are the disk as it was between them, unless a location took its value back during the second (a rollback can); even then, if one transaction at most left a trace, a project without a journal is one that existed, neither half installed nor half rolled back, and nothing of a transaction in passing is taken for orphaned state; a refusal means a change. |
| `power` (`PowerLoss.cfg`) | After any three kills and power failures: a durable PLANNED journal stands over an untouched target; under a durable MUTATING journal whatever is durably changed durably has its backup; under a durable SEALED journal everything but created trees is durably installed. |

Six runs are expected to end in a violation. Each checks one sentence of
`docs/specs/2026-08-05-deterministic-project-bootstrap/design.md` or of an ADR
against the code; `PROJECT.json` quotes the sentence.

| Run | What the code does |
| --- | --- |
| `adopter_file` | A reconcile without `--overwrite-drift` replaces a file of the adopter's where the new template has a new output. |
| `kept_path` | An adopted project that kept a lifecycle file of its own cannot be restored. |
| `restored_list` | A RESTORED journal with rollback containers cannot be turned into a compiled transaction again. |
| `nonempty_directory` | A removed directory whose children are (still or again) there is a third state to rollback. |
| `hook_after_rollback` | An apply that was rolled back runs the hook and reports its operations as installed. |
| `stale_recover` | A recover that observed before another command finished takes back the finished installation. |

Because of these, MUTATING and RESTORED journals need not ever be finished, and
liveness of recovery is claimed for SEALED only. None of them breaks atomicity
except `stale_recover`: the safety runs include all the others.

### Differences without a run

The models contain more differences between code and documents; they follow from
the actions named, and the runs above hold in spite of them.

Of the transaction:

* A leftover `journal.pending` beside a MUTATING journal makes every recovery
  fail, because RESTORED is persisted through the same exclusive name
  (`transaction_machine.py:2642`); design.md:1481-1483 lets recovery remove it.
  `WritePending` has the guard.
* A marked rollback container left by an interrupted rollback makes the repeated
  rollback of its path fail (`transaction_machine.py:1474`); design.md:1539-1541
  calls the reducer idempotent. `MayBuild` has the guard.
* A failed effect under MUTATING stops the machine and leaves the rollback to
  `recover`; the machine, unlike recovery, persists RESTORED without observing
  the pre-state again; the discard of a PLANNED transaction refuses an
  interrupted payload.

Of the lifecycle: `add` on an adopted project is always refused, because the
render it verifies is not extended with the lifecycle files as that of `restore`
is; and there an edited lifecycle file is not only drift but also a change of
the source, so that `restore` refuses it (`tests/test_bootstrap_lifecycle.py`
says so, ADR 0003 says otherwise).

Of the source and its baseline, all of them exceptions of `ReconcileSettles`,
which says that there are no others:

* A path that one template version renders and the next declares as lifecycle
  source is recorded in the new baseline and deleted as a retired output by the
  same reconcile (`collect_template_source_entries` leaves out the outputs of the
  running version only, `planner.py:1948-1965` deletes every retired one). The
  project then misses a declared file and cannot be reconciled again.
  `shell.nix` of `MCProjectLifecycle` is such a path.
* Generated state below a declared folder is no source to the collection
  (`observation.py:1191-1195`; `test_generated_state_below_declared_root_is_skipped`)
  and a change to the comparison (`observation.py:542-551`), and so is an
  output below it. The project then counts as changed until the generated file
  goes, and with an output there for good. `tools/cache` and `tools/ci/nix.yml`
  are such paths.
* A reconcile records the folders it found, not those its outputs make or leave
  empty.

The ownership declaration the repository ships names files only, so that the last
two need a template that does otherwise; the code and the tests provide for it.

Of the record: `add` from a checkout compares the checkout's render with the record
for the recorded selection only (`verify_old_render_oracle`,
`planner.py:1384-1446`) and then records the checkout's render of the extended
one beside the old baseline. If two versions render the smaller selection alike
and the larger one differently, the project's own copy can no longer restore what
is recorded, although its source is the recorded one. design.md:1001 takes the
inventory to be an oracle under the source and the selection it was recorded for,
and design.md:1012-1014 has it fail only under unchanged ones. The versions of
`MCProjectLifecycle` are of that kind (they differ in what `nix` adds), and without
the exception of `borrowed` TLC violates `DriftIsRepairable` in five steps.

Of the observation: a path that vanishes within a pass ends the observation in
its first attempt (`_collect_pass` and `observe_system`, `observation.py:909-931`
and 1513-1514), while design.md:2579-2581 lets races be retried before
`CONCURRENT_TARGET_CHANGE`. `ReadFails` has no attempt in its guard.

Of durability, each an entry that `PowerLoss` never puts into `unsynced`:

* of the new directories that hold backups only `backups` itself is fsynced
  (`_ensure_directory_chain`, `transaction_machine.py:448-477`, 1108;
  design.md:1632-1633), hence `durable.directories` in `ChangesCanBeUndone`;
* the rename of a created tree is not followed by an fsync of its parent
  (`transaction_machine.py:1268-1287`; design.md:1635), hence the exception in
  `SealedIsInstalled`;
* no rename or unlink of a rollback is (1422-1445, 1509-1527, 1604-1668;
  design.md:1535-1537), so nothing is claimed of a durable RESTORED journal;
* no removal of cleanup is, journal excepted (design.md:1643);
* a recover acts on a journal whose rename a killed process had not fsynced yet
  and does not fsync it either, hence `slipped` in `ChangesCanBeUndone`: it may
  clean the backups up after a SEALED that a later power failure takes back to
  MUTATING.

Not in the model: the directories within a staged tree are not fsynced (1062),
and neither is the state root's own entry in the Git directory (1978, 2264;
`fs_effects.ensure_state_root`, which would, has no caller).

### Bounds

* Plans. `machine`: the empty plan, every kind alone, every pair of file and
  tree operations, and a removed directory behind a file; cursors therefore meet
  first, middle, last and no slot. `shell`: each kind in plans of two operations,
  and three operations with a removed directory. An operation interacts only
  with the directory that holds it and through the uniform outcome of the whole
  plan, for which two paths (one done, one not) are enough.
* `MaxTx` (transactions begun) 2: a second transaction meets what the first left.
* `MaxCrashes` 2: a crash of an apply, then a crash of its recovery.
* `MaxEdits` 2 in `shell` (edits by others, or `git clean`); 0 in `contract`,
  because the contract is about a target nobody else writes.
* Processes: 2. They are symmetric, and `shell` uses that. The lock admits one.
* `Overlap` is FALSE except in `stale_recover`: a recover then does not overlap
  other commands from its observation on, which is what the design promises and
  what the code leaves to chance.

* `lifecycle`: one path of each class the code tells apart (seed-once, legal,
  source, ownership, an output of all selections, of one capability, of the old
  and of the new template only, answers, inventory, a maintenance path that is
  also an output; a folder the new template declares, with a source file,
  generated state and an output in a folder of its own; a path the old template
  renders and the new one declares); two versions, because every comparison is of one version with
  another; two capabilities of which one needs the other; two contents that
  differ in line endings. `MaxEdits` 1 and `MaxReceipts` 1: an edit matters by
  falling before, between or after the steps of a command, and the two processes
  are symmetric. Which commands make sense from which root is left open.
* `observation`: three paths. Two are planned, because an operation matters by
  lying before or after another path in a pass, and one is the adopter's, whose
  edits are independent of both. Of the planned ones one changes and one goes, and
  appears again when the transaction is rolled back, which is all a reader can
  tell of an operation. One transaction and one edit: `met <= 1`
  is the case the strongest property is about, and a transaction that is rolled
  back writes every path twice. Two attempts stand for three: an attempt keeps
  nothing of the one before but its number. The proofs have none of these bounds.
* `power`: every plan of up to three operations, of every kind; three failures:
  a kill of the apply, another of its recovery, and the power failure that shows
  what is left.
* No run checks for deadlock, because in each the system may rest: a machine that
  is terminal, a disk whose bounds are used up, a command that has returned, a
  project whose commands are all refused and whose adopter is done.

### Fairness

`observation`, `power`, `shell` and `lifecycle` assume none: their properties are
safety. `machine`: `WF_vars(Next)`. `run_transaction_machine` feeds the answer of every
request back until the machine is terminal, and a request is one bounded system
interaction. `contract`: a command that holds the lock keeps executing
(`WF(Execute)`), a command that waits tries the lock, which does not block
(`WF(Lock)`), and as long as there is something to recover somebody runs
`recover` (`WF` of its observation). The last is an assumption about people, and
the one the design makes when it blocks every other command until then. The
violation runs of temporal properties use the same fairness.

## Proofs

`TransactionMachine_proofs` proves every safety property of `machine`, and two
that no run checks any more because the others are sharper (`CompletionIsSettled`,
`ShellAnswersAccepted`), for every set of well-formed plans (assumption
`PlansAssumption`) of any length.
None of them is inductive: `MutationIsPrepared`, for instance, does not
say what has been prepared while the machine is still preparing. The inductive
invariant `IInv` adds to the type invariant, for each continuation state, what
the history must contain by then: in `Preparing`, that every slot below the
cursor is prepared; in `Installing`, that exactly the operations before the cursor
are applied; in `RollingBack`, that those after it are restored; in cleanup,
that every slot below the cursor is clean. A step follows from `NextSlotIsLeast`
(`OperationPlan_proofs`): the next slot is the least above the cursor, so
"below the next slot" is "below the cursor, or the cursor". The proof has one
lemma for each group of continuations, and `Invariance` combines them.

`BootstrapTransaction_proofs` proves every safety property of `shell`, and the
refinement of `contract`, for every set of well-formed plans, any number of
processes, transactions, crashes and edits. The argument:

* Atomicity is not inductive. It holds because each phase of the journal says
  something of the target (`PlannedMeansUntouched`, `SealedMeansCandidate`,
  `RestoredMeansPreState`: together `JournalInv`), and because a journal is only
  persisted over a target that is so. What is true of the target between two
  phases is known to the command: `ControlInv` ties each continuation state to
  its phase, to the transaction the journal names, to its effect and to the
  inventory its cursor walks; `TargetInv` says what the command has made of the
  target (in `RollingBack`, that everything behind the cursor is old);
  `PreparedInv` and `CleanedInv` say the same of stages, backups and containers
  below the cursor. `EvidenceInv` is what keeps a command out of the evidence of
  another transaction.
* A crash leaves `JournalInv` and `EvidenceInv`, which speak of the disk only;
  that is why a recovery can start from them. `WaitingInv` says that what a
  waiting recover has observed is still so, and so `StartRecovery` enters a
  state that fits the journal (`RecoveryStarts`).
* One lemma for each action preserves `IInv`. Lemmas in between keep them short:
  `EffectKeepsInv` (an effect that changes only evidence of its own transaction),
  `ReportEnters` (a report that does not end the command enters its successor
  with everything else as it was), `EntersPlainState`, `EntersCleaning`,
  `EntersRollingBack` (what has to hold on entry of a state), and the successors
  of both machines as equations (`ApplySuccessors`, `RecoverySuccessors`).
* `UninterruptedLeavesNothing` speaks of a run without crashes and edits, and
  `IInv` is about all of them: below a cursor it says what is there, and nothing
  of what is not there any more above it. The second invariant, `QuietInv`, holds
  relative to `IInv`: as long as nobody has crashed or edited (`Calm`), everything
  on the disk is `Accounted` for. It belongs to the one run, and `Progress` says
  state by state where it stands: which stages are full, which containers are
  still empty, full or marked, before and behind the cursor of preparation,
  installation, rollback and cleanup. The other half is that nobody can start a
  recover, because a recover observed while the lock is free finds nothing to do.
  Revalidation and verification may refuse, so the rollback is included; an effect
  that fails for a reason outside the model counts as a crash.
* The action properties follow from `IInv` and the action. `ImplementsContract`
  maps every step to a step of `InstallContract` or a stutter: the renames of
  `journal.json` to `Announce`, `Open`, `Commit` and `Abort`, the one rename or
  unlink of an operation to a `Change`, and everything else to nothing. With the
  contract's own atomicity (`ContractIsAtomic`) it gives `Atomicity` a second
  time, for targets that nobody else writes.

The theorems have one hypothesis, `~ Overlap`, and the refinement `MaxEdits = 0`
besides, because the contract is about a target that nobody else writes. With
`Overlap`, TLC finds counterexamples to the atomicity of the target, the meaning
of SEALED, the backups and the ownership of evidence: `recover` decides from the
journal it read before the lock and never compares it with the one it finds under
it (the run `stale_recover`). The hypothesis is the promise of the design that the
code does not keep. That recovery writes under MUTATING only is therefore not among
the theorems: with the hypothesis it would say no more than the table of phases.

`ProjectLifecycle_proofs` proves all thirteen properties of `lifecycle` for every
template, every number of processes, receipts and edits. The assumptions are those
the modules state: `TemplateAssumption` (contents at paths, the ownership
declaration names paths and folders), `FolderAssumption` (folders are nested, what
is in a generated folder is generated, a declaration names no path twice),
`DisjointAssumption` (seed-once paths are neither rendered nor declared nor in a
declared folder, administrative ones not rendered, which `_validate_managed` and
`decode_source_ownership` enforce), `IntentAssumption` (what a decoded intent can
be) and `ProjectAssumption`. The argument has three parts. `OnlyInstallInstalls`: the
step in which a command finishes with a change is its `Install`. `InstallFacts`:
the plan it installs is compiled from the tree of that very step, because the
plan under the lock is equal to the one before it. And for each command a lemma
of `PlanCompilation_proofs` about every plan it can compile (`AddRecords`,
`AdoptRecords`, `RestoreWrites`, ...). The inductive invariant `LifecycleInv` is
small for that reason. It says that the state is one a plan can be compiled from
(trees, manifests and versions in their domains, which every plan preserves
because it writes contents: `WellWritten`), and that a waiting command has
checked the template contract of what it expects. Without the latter,
`ContractIsKept` does not follow from a step: the contract is evaluated in
`Begin`, and `Install` only compares the outcome with it. `TypeOK` needs more:
that no manifest records a seed-once path is a fact about every plan
(`CandidateAvoidsSeeds`, from `DisjointAssumption`) and about what `restore` and
`add` carry over, hence the second invariant `TypeInv`, which also types the
receipts; `SeedsAreSeededOnce` needs it too, for `restore` writes what is recorded.
`ReconcileSettles` needs no invariant but `LifecycleInv` and no hypothesis about
the template. `PresentIsCollected` says that the two enumerations of the source
agree: whatever is present at or below a declared path and neither generated nor
reserved has been collected (`VisitedIsCollected`). `ReconcileTouchesOutputs` says
that the reconcile then changes outputs only, of the new record or of the old.

`DriftIsRepairable` needs a third, `SupportInv`: unless the record is borrowed, the
record of a project that did not adopt the template is the render of the version
whose baseline it has (`RecordsRender`), and its tree has the engine of the version
it is at (`HasEngine`). The engine is the set of source files that decide what is
rendered. If the source is the recorded one, the two versions have the same engine,
so the project's own copy renders what is recorded and `restore` compiles. This is
not a fact about every template or every adopter, hence two hypotheses, each stated
in `ProjectLifecycle` and evaluated by TLC for the template it checks
(`RepairAssumption`):

* `EngineDecides`: versions with the same declared engine render alike, and the
  engine is neither rendered, seeded, cleaned up nor generated. Two versions with
  one source and two renders would violate the property; the code compares sources
  and trusts that they tell the renders apart.
* `EngineIsKept`: nobody but Copier changes the engine or brings an answers file,
  and a project starts with the engine of its version or without a copy of the
  template. In the model the version says what is rendered; an adopter who
  rewrites the resolver is outside it.

What versions have in common besides is left open: they may differ in the output of
a single capability, as ordinary releases do. `borrowed` starts with an `add` from a
checkout whose version is not the project's and ends with the next command that
records a render of the own copy.

`DoubleCollect_proofs` proves `ReturnedExisted` and `RefusalIsReal` for every
disk, any writer and any number of paths and attempts. Neither is inductive. For
the first, the invariant (`Existing`) says that if what the first pass read was
not the disk when it ended, then, as long as nothing took its value back, the
second pass still has ahead of it, or has met already, a location it looks at
and reads differently (`Visible`); so equal passes mean that there is none. What
a pass did not look at needs no care, because what is looked at depends on what
was read (`Agreement`, from `IsDisk`: what is listed is there and what is not
listed is not). For the second it says that while the attempt has met no change
every read agrees with the disk (`Quiet`), so that two passes cannot differ and no
listed path can be gone, and that `changes` counts the attempts (`Counted`).
`CoherentObservation_proofs` proves that the observer beside transactions and
edits implements that collector on the disk they make (`ImplementsCollector`: initial
states map to initial states, every step to a step or a stutter), which carries
both theorems over, and its type invariant. It also proves `ObservedProjectExisted`,
which is not a fact about every disk: it rests on the phases a transaction passes
between two reads of the state root. Its invariant (`Account`) says what a pass
knows of the part it has read (`ReadPass`): the adopter's paths are there and no
content is newer than the last edit, so an edit never looks like an earlier one;
until a transaction has announced itself the planned paths are as they were
read; and a directory without a journal means that a transaction is over or that
a second one has met the attempt (`SeenTwice`, for both passes). From that it
follows that if the project was not what the first pass read at the moment the
second one found no journal, then the second pass still has ahead of it, or has
met already, a difference (`Differs`): an edit, or, the only transaction being
over, anything else.

`PowerLoss_proofs` proves the four properties of `power` for every set of plans
and any number of failures. The properties speak of the durable disk only, and
are not inductive: they hold because of what the run knows at each step. The
invariant therefore relates the current and the durable disk to the step: which
phases may be durable beside which journal, that what has been prepared or
applied below the cursor is durable or waits in `unsynced`, that a rollback only
takes paths back, and that backups are removed only under a journal that settles
the target. One lemma for each action, fifteen in all, preserves it.

Only model-checked: all liveness (`EventuallyTerminal`, `SealedIsFinished`,
`CommandsReturn`), because TLAPS does not prove properties under fairness.

## Plan

1. Done: `OperationPlan`, `TransactionStep`, `TransactionMachine` and its
   proofs; `RecoveryStep`, `BootstrapTransaction`, `InstallContract` and the
   refinement.
2. Done: `TemplateSource`, `ProjectDecisions`, `PlanCompilation`,
   `ProjectLifecycle` and the first proofs about them.
3. Done: `ObservedDisk`, `DoubleCollect`, `CoherentObservation` with their
   refinement and proofs; `PowerLoss` and its proofs; the type invariant of the
   lifecycle.
4. The order of operations: classification of outputs, tree building and
   deletion order of `planner.py` as functions of a plan of `PlanCompilation`,
   against a reference definition, discharging `WellFormed`.
5. Done: the proofs about every action property of the lifecycle.
6. Done: `ObservedProjectExisted` for every plan.
7. Done: the proofs about `BootstrapTransaction`, of its invariants, action
   properties and the refinement, and of what an uninterrupted transaction leaves.
8. Done: `DriftIsRepairable`, with the hypotheses about the template it needs.

## Not modelled

Of the transaction: creation of the state root; a journal of another target, and
undecodable journals, which every command refuses without a change; reconcile
plans with two operations on one path; the intermediate directories between a
stage root and a stage, which are `bare` together with it; the hook's process.
`PowerLoss` follows one transaction, gives every path a parent of its own (an
fsync for one path never helps another), leaves the stages out, and takes the
state root to be durable.

Of the observation: nested directories (the listing is flat), links, irregular
and foreign entries of the state root, the lock entry and limits, whose refusals
change nothing; and the evidence about Git and the template, which
`observe_system` reads once after the passes. If two transactions are begun and
rolled back within one attempt, two equal passes can mix their states
(`takenBack`, `met <= 1`); the commands that install observe again under the
lock, where no other transaction runs.

Of the lifecycle: folders that are empty and the modes of folders (a recorded one
has the mode of `PosixMode.DIRECTORY`, `observation.py:1223`, and is compared with
the observed one, 538); links and unreadable entries below a declared folder, which
only refuse; directories between a file and the root unless they are folders of the
template, and the replacement of a directory of retired outputs by an output (a
directory that is not a folder is the whole content of its path);
limits and settings conflicts, which only refuse; `init`, `status` and
the other `plan` commands, which change nothing of a project.

The readiness gate. Its rules read the seed-once slots only
(`readiness_rules.py`), which `add`, `restore` and `reconcile` never write, so
the findings before and after are the same; and an initial install is compared
byte for byte with what was expected before the live findings are. In the
project model its verdict could not differ; in `BootstrapTransaction` it is a
free choice.

Git, the bytes a template renders, the encodings of bundles and manifests, and
presentation are inputs or outputs of the model; the repository's validators and
release scripts are stateless checks over files.
