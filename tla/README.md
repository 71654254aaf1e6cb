# Formal models of the agentic workflow generator

This directory holds TLA+ models of the generator in `src/`, the TLC
configurations that check them on small instances, and proofs, checked by
TLAPS, of the results that hold for every instance. Paths below are relative to
the repository; "filesystem.py:206" is line 206 of the file of that name under
`src/src/agentic_workflow_generator/`.

- `tlc -config FileTransaction.cfg MCFileTransaction.tla` checks one run,
- `tlapm FileTransactionProofs.tla` checks one module of proofs.

`PROJECT.json` lists the components, the runs, which source lines each
definition stands for, the hazards, and for every checked property a mutation
of the model that breaks it.

## 1. The system

The generator turns a registry of JSON records (bundles, workflows, agents,
skills, setups, ...) and the choice of one bundle into a set of files for
programming assistants (OpenCode, Copilot). It is a command line program: each
command is one process, without threads. What makes it hard is not parallelism
inside the program but

- the file system: a command writes several files that only make sense
  together, every system call may fail, the process may be killed in between;
- the developer: files are edited between two commands, between the plan and
  the commit of one command, and while a user answers a dialogue;
- rules written twice: a validator accepts a registry, and a compiler or a
  materializer computes with it later. They share no code, and each relies on
  what the other one checks;
- graphs: workflows and the dependencies between agents are cyclic graphs that
  hand-written traversals have to judge.

### Inventory

| Component | Code | State it keeps | Operations | Hard behaviour |
|---|---|---|---|---|
| File transactions | infrastructure/filesystem.py | the tree, snapshots, directories made, restoration errors | `transactional_write_bytes`, `transactional_update_files`, `atomic_write_bytes` | partial failure, failing rollback, kill between two steps |
| Target materialization and output validation | application/target_materialization.py, application/target_output_validation.py | active configuration, output trees, output manifest | `materialize_targets` (plan, commit), `validate_target_output` | stale plans, torn commits, disabled targets, links |
| Guided setups | validation/setups.py, validation/setup_profiles.py, application/setup_materialization.py, application/guided_init.py | setup registry, setup profile | validate registry, materialize answers, validate profile | two implementations of one fold, combinations of options |
| Initialization | cli/init.py, application/initialization.py, application/project_metadata.py | `.agentic/agentic.json`, `.agentic/setup-profile.json`, the dialogue | direct, scripted and interactive init, dry run | going back, edits during the dialogue, two files that must agree |
| Lockfile, idempotency and pipelines | application/lockfile.py, validation/lockfile.py, application/generation_idempotency.py, cli/main.py | lockfile, generated files, git index and head | `lock`, `validate-lockfile`, `generate`, `all`, `verify`, `doctor-strict`, `validate-idempotency` | inputs edited while they are read, steps that fail, untracked files |
| Workflow validation | validation/workflows.py | the graph of states, two traversals | validate one workflow | cycles, traps, rules in separate passes |
| Bundle validation and composition | validation/bundles.py, compiler/composition.py | bindings of roles, search for a cycle of inputs, the composition | validate a bundle, compile it for a choice of targets | cycle search, validator and compiler with different dictionaries |
| Target rendering | validation/targets.py, validation/permission_profiles.py, application/target_rendering.py | the rendered files | judge adapters and permission profiles, check that a target can represent a composition, render files per target | rules repeated in other terms, native permissions, routing turned into handoffs, file names from ids |
| Registry loading, index, snapshot | registry/\*, application/registry_snapshot.py, validation/pipeline_support.py | loaded sources by kind, the index | discover, load, index, judge kind after kind; the `validate-*` commands, each with sources of its own | files edited between two reads, projections of kinds that nobody has judged, two orders of the same validators |
| Validators of single kinds | validation/artifacts.py, agents.py, skills.py, profiles.py, capability_coverage.py | none | list diagnostics | references across kinds, names with blanks, generated schemas beside the sources |
| Target runtime validation | application/target_runtime_validation.py, cli/target_runtime.py | diagnostics so far | compare the output, build the plan again, ask the installed OpenCode twice | a tool that hangs, refuses or prints something else; settings outside the repository; edits between the steps |
| Input and output, schemas, records, diagrams | infrastructure/processes.py, json_io.py, validation/schema_support.py, domain/\*, tooling/\* | none | | |

How they interact: `init` (Initialization) asks Guided setups for a profile,
compiles the bundle (Composition) and writes both files in one file
transaction. `materialize-targets` reads the configuration, recompiles it and
refuses it if it differs from the canonical composition, renders it, and
commits files, removals and manifest in one file transaction.
`validate-generated` builds the same plan and compares it with the disk. The
pipelines call all of these as steps of one process, in an order fixed in
cli/main.py. Bundle validation uses the states of the workflow that Workflow
validation accepted; the compiled composition carries the routes the rendered
controller follows. All of them start from the registry snapshot, which runs
every validator; the pipelines also run the same validators as commands, one
kind at a time. `validate-target-runtime` first does what `validate-generated`
does, and then asks the tool itself.

What makes each of them correct:

- File transactions: all or nothing for whoever reads the files; if the
  rollback fails, every damaged path is named; no temporary file or directory
  is left without being mentioned, and an interruption leaves at most the
  temporary file being filled; the call ends.
- Materialization: what validation accepts is exactly what the configuration
  gives; a commit repairs whatever was there before, and touches no file outside
  the owned paths of its targets (which fails for a linked owned file: section 6).
- Guided setups: the materializer and the validator agree; an option the
  registry accepts can be chosen.
- Initialization: the profile holds what the user answered last, nothing is
  written without consent, the two files agree, project metadata survive.
- Pipelines: a command that passes says the truth about lockfile, outputs and
  repository.
- Workflows: the verdict is the documented one; every accepted workflow has
  one route for each result, everywhere, and never loses its way to an end.
- Composition: whatever the validator accepts compiles, and gives every gate
  exactly one owner able to satisfy it.
- Rendering: an accepted composition is refused only for what a target cannot
  express; an agent may natively do what its profile allows, no more and no
  less; targets write below their own paths only; the generated controller leads
  through the compiled workflow.
- Registry: what the snapshot accepts is closed under the references between its
  kinds, whatever is edited while it is read; a fault is reported as a
  diagnostic and not as an exception of a later projection; the commands for
  single kinds together see what the snapshot sees.
- Target runtime: a pass means that the tool works with what the inputs
  describe, a failure has a reason, and the command ends although the tool may
  not.

## 2. Modules

| Module | Models | Used by |
|---|---|---|
| `AtomicUpdate` | the contract of a multi-file write: commit, refuse or tear | `FileTransaction` implements it; `TargetMaterialization` and `GuidedInit` are composed with it |
| `FileTransaction` | filesystem.py, one system call per step | `FileTransactionProofs` |
| `TargetMaterialization` | plan, commit and check of the outputs, with the edits of others | `TargetMaterializationProofs` |
| `SetupRules` | setups as data: registry rules, materializer, profile validator | `GuidedSetup`, `GuidedInit`, `GuidedProofs` |
| `GuidedSetup` | the life of a profile: load, materialize, edit, validate | `GuidedProofs` |
| `GuidedInit` | the `init` command with its dialogue and its commit | `GuidedProofs` |
| `Pipeline` | the command sequences, the lockfile, git | `PipelineProofs` |
| `WorkflowValidation` | the rules, both traversals step by step, the controller that then runs | `WorkflowValidationProofs`, `TargetRendering` |
| `BundleComposition` | the rules, the depth-first cycle search, the compiler | `TargetRenderingProofs`, `TargetRendering` |
| `TargetRendering` | the rules for targets and permissions on single values, the checks and files of the renderer, a session led by the generated controller; extends `BundleComposition` and takes the rules of `WorkflowValidation` by INSTANCE | `TargetRenderingProofs` |
| `Registry` | discovery, reading, index, the validators with their projections, coverage; as the snapshot and as commands | `RegistryProofs` |
| `TargetRuntime` | `validate-target-runtime` with the two runs of OpenCode | `TargetRuntimeProofs` |

A module `MCx` gives the constants of `x` for TLC, and `x.cfg` the rest.

### How state and actions correspond to the code

**FileTransaction.** `fs` maps paths to a content, a directory, a link or
nothing. A call is a list of operations, the writes first and then the
removals, as `transactional_update_files` builds it; `kind` tells the two
functions apart (the first one makes no directories and reads through links).
`pc` is the statement reached: argument checks, the snapshot loop, missing
directories, writes (`mkstemp`, then `replace`), removals, and in the handler
restoration and `rmdir`. Each action has a twin in which the system call
raises; the argument checks and the end of loops cannot fail. The helper that
makes directories undoes its own work in `unmake`. `Interrupt` is possible at
any step, because the handlers catch `Exception` and `OSError` only: it
stands for a `KeyboardInterrupt` and for a killed process. A file whose
content is being written is `pc = "replace"`: the temporary file lies beside
its target, is never read, and becomes `litter` if nobody removes it.

**TargetMaterialization.** A composition is an opaque value, and rendering a
function of it. `BuildPlan`/`RefusePlan` are
`build_target_materialization_plan` (with the
checks for canonical form, known targets, disjoint owned paths, links in owned
directories), `BeginCommit` the checks between plan and transaction, and
`CommitSucceeds`, `CommitFails`, `CommitTears` the actions of `AtomicUpdate`.
Paths are resolved each time they are used, as `repository_path` does
(`Where`): in the plan, and again in the commit. A link at an owned file is
therefore followed before the plan asks for links, as in the code; one inside an
owned directory is seen and refused. `Diagnostics` is `validate_target_output`. `ReplaceConfig` and `EditFile` are other people.

**SetupRules, GuidedSetup.** A question is its id, its default and its options;
an option is its value, its classification and its patch. The recursive
function `Merging` is the loop of `_materialize_selection`: its value at `k` is
the selection after `k` questions. A second one, `Expecting`, is the loop of the
validator, which reports a conflict and goes on where the materializer raises.
`GuidedSetup` adds the order of events.

**GuidedInit.** One action per step of the dialogue: choosing the setup,
answering (Enter, a number, a value), going back, leaving, planning,
confirming, committing. `said` is a history variable that records what the
user last picked for a question as the screen showed it; `PlannedAsAnswered`
compares the plan with it.

**Pipeline.** `Steps` is the table of commands. Lock and validate-lockfile read
the inputs one by one, the size (`Stat`) before the content (`Hash`); all
other steps are one action each, because what they do inside is
`TargetMaterialization`. `work`, `index` and `head` are the
three trees git compares.

**WorkflowValidation.** The rules are sets of diagnostics, one `When` for each
message. The two traversals keep the stack of the code; the order in which a
list is pushed is left open, so that the results do not depend on sorting.
After acceptance `Route` lets the controller follow the routes.

**BundleComposition.** The rules as above. The recursive `visit` of
`_find_input_artifact_cycle` is a stack of calls, each with the consumers it
still has to look at; the colours are white (not seen), grey (on the stack)
and black (visited). `Compile` is `compile_bundle_composition` with each
`raise` as an element of `errors`. The compiler takes a dictionary of
bindings, so the *last* binding of a state owns it (`OwnerOf`), while the
validator keeps the first: the model keeps that difference.

**TargetRendering.** A behaviour is: `Load` (the snapshot judges workflow,
adapters and permission profiles), the steps of BundleComposition (validate the
bundle, compile it), `Render` (the five representation checks, then the files of
each target), and, if there are files, a session. A file is its path and the
part of its content that decides something: which instance it speaks for, its
native permissions, its handoffs and routes. `AgentFiles` keeps the *last*
instance of a path, as the dictionary of the code does. The session (`Begin`,
`Dispatch`) stands for the assistant and its user: they open the controller,
follow a handoff to the file it names, and come back with a result. It is
assumed that a handoff opens the file with the name it carries (the file also
states the instance id as its name, which differs from the file name for ids
that are no slugs; which of the two an assistant prefers is not in this
repository).

**Registry.** `disk` has the files of the nine kinds, the files beside them
(the text of a skill, the generated schema of an artifact) and nothing else. A
command is a list of passes; a pass loads some kinds and judges some. The
snapshot is one pass over all kinds in alphabetical order
(`RegistryIndex`, `RegistryLoader`) and then the validators in
`DependencyOrder`; `Validators` are the commands as the pipelines run them, most
of them starting from nothing. `Discover` is the listing of a folder, `Read`
one file, `Loaded` the end of a kind with its index, `Validate` one validator
and `Finish` the end of a pass; `Cover` is the coverage command, and `Edit` may
happen between any two of them. A source has a name, a form, and the names it
refers to. What the schema or an obsolete field says of one source alone is its
form `malformed`; what the other modules judge within one source is `unsound`.
In return, everything between two sources is spelled out: `ProjectionFails` says
which projections a validator makes before it looks at its own kind, and with
which of the three treatments of names (as written, stripped, required to be
trimmed); `Reportable` says when a diagnostic cannot even be constructed
(domain/diagnostics.py wants trimmed and different names), so that the command
raises.

**TargetRuntime.** `pc` is the step of the command, `tool` whether a subprocess
runs. `ValidateOutput` is the output validation (in detail
`TargetMaterialization`), `BuildPlan` the second plan with its contract,
`Which` the search for the executable, `Launch` the start of one of the two
runs. The tool then answers (`Answer`, from the files and settings as they are
at that moment), refuses or prints something else (`Reject`), prints bytes that
are no text (`Garble`), or is killed after 30 seconds (`TimeOut`). What it does
with the files is external: `Effective` merges the agents, skills and default of
the files with those of the user's settings, which take precedence and may
disable. Of a tree only what OpenCode reads is distinguished.

## 3. Runs

| Run | States it explores | Shows |
|---|---|---|
| file_transaction | seven calls on every tree of six paths | `OldOrNew`, `AllOrNothing`, `DamageNamed`, `NothingLeftBehind`, refinement of `AtomicUpdate`, `Termination` |
| target_materialization | four compositions, two edits, links | `AcceptedIsExact`, `CommitRepairs`, `OnlyLinkedFilesLeadOut` |
| guided_setup | a family of two-question registries, all overrides, one edit | `MaterializedIsValid`, `ValidIsMaterialized`, `SelectableOptionWorks` |
| guided_init | two setups, all dialogues, one edit | `PlannedAsAnswered`, `CommittedFilesAgree`, `WritesAreAuthorized`, `ProjectIsKept` |
| pipeline | two inputs, five commands in any order, two edits | `AcceptedLockDescribes`, `PassedGenerationAgrees`, `IdempotentWasGenerated`, `StrictIsCommitted` |
| workflow_validation | 1024 routing tables and variations | `ReachableIsExact`, `ReachingIsExact`, `VerdictIsRight`, `RoutingIsTotal`, `Termination` |
| target_rendering | bundles to validate: all 512 input relations and some 300 variations, with six selections of targets; bundles to render: 728 combinations of a permission profile with native settings of both targets, and ten bundles with some twenty registries | of BundleComposition `SearchIsExact`, `AcceptedCompiles`, `AuthorityResolved`, `Termination`; `ValidatedIsRepresentable`, `AuthorityIsPreserved`, `TargetsAreApart`, `SessionFollowsWorkflow` |
| registry | a registry with a file or two of every kind, two edits among 46 deviations, snapshot, coverage and commands in any order (some 298 000 states) | `SnapshotIsClosed`, `JudgedByDiagnostics`, `CoverageFindsOnlyUnused`, `ValidatorsSuffice` |
| target_runtime | five inputs, five trees, seven settings, the tool there or not, one edit (some 36 000 states) | `PassMeansEffective`, `FailureHasReason`, `Termination` |
| linked_output, conflicting_defaults, omitted_agent | as target_materialization, guided_setup and target_rendering | a document and the code disagree (section 6) |

### Bounds

| Bound | Value | Why it is enough |
|---|---|---|
| `Node` (FileTransaction) | a root, a directory in it, a directory in that, a file in each | both directories may be missing, so that two are made for one write; each may also be a file or a link, and removals hit a directory, a file beside a written one and a file below a directory |
| `Content` | an old and a new one | the code never looks into a file |
| `Calls` | seven | both functions, duplicates, an empty call, removals after writes, two writes below one missing directory |
| `MaxEdits` (TargetMaterialization) | 2 | one edit before the plan and one before the commit; or the configuration and a file |
| compositions | 4 | both targets; one; one with fewer files of the same target; one with an unknown target |
| `MaxChanges` (GuidedSetup) | 1 | each edit is one deviation from a materialized profile; two of them at one place are again one |
| `MaxEdits` (GuidedInit) | 1 | one edit before, during or after a dialogue; the commands repeat without bound |
| `MaxEdits` (Pipeline) | 2 | one edit between size and hash and one that undoes it, or one input and one output |
| contents of an input | 3 | two valid ones with different sizes and outputs, and an invalid one |
| workflows | two gated and two terminal states | the smallest graph with a loop, an unreachable state, a trap and a way out; the traversals are proved for all graphs |
| bundles | three owners, one controller | cycles of one, two and three roles, diamonds; the search is proved for all graphs |
| `MCInit` (TargetRendering) | one registry for the bundles to validate | the rules for bundles look at nothing the registries vary |
| `MCInit` (TargetRendering) | permission variations only with the first bundle | a native setting is judged per instance, and this bundle has an instance with the varied profile in each target |
| settings (TargetRendering) | one variation at a time of paths, mappings, statuses, routes, skills | each rule looks at one of them; the ones that could mask each other (profile and both mappings) are varied together |
| `MaxEdits` (Registry) | 2 | a fault needs one deviation of one source, a reference two (the name and its use); with two edits one may also come while the registry is read and one before |
| files of the registry | two skills, artifacts and permission profiles, one of each other kind | the rules between kinds need one source of each, the rules on repeated names and providers two |
| contents of a file | two to seven | each breaks one rule, or makes a name blank or untrimmed |
| `MaxEdits` (TargetRuntime) | 1 | every state of inputs, outputs and settings is already an initial one; the edit is the one during a command |
| settings of the user | seven | one deviation each: another default, mode, model, agent, skill, a disabled agent, a disabled skill |

Deadlock is checked in all runs but those of GuidedSetup, WorkflowValidation
and TargetRendering, whose behaviours end: when the profile is judged, the
workflow rejected or at a terminal state, or the bundle rejected or rendered.
Unbounded histories of commands are explored in full in every other run: a bound
limits the edits, never the steps of the program.

### Fairness

Safety needs none. `Termination` of FileTransaction assumes `WF_vars(Step)`: a
process that keeps running gets an answer (success or failure) to each system
call; nothing is assumed about `Interrupt`. `Termination` of the workflow
validation assumes `WF_vars(Validate)`: a function call that can go on goes on;
the controller's `Route` has no fairness. `Termination` of the bundle validation
is checked under `WF_renderVars(Prepare)`, for the same reason: validating and
compiling are one call that waits for nobody; nothing is assumed about the
session. It says that a validation once begun ends, since a registry that is not
loaded never begins one.
`Termination` of TargetRuntime assumes `WF_vars(Step)`, the steps of the command
itself and the timeout of `subprocess.run`, which the operating system delivers;
of `Answer`, `Reject` and `Garble`, the tool, nothing is assumed. Without the
timeout the property fails, which is its mutant.

## 4. What is proved

For every value of the constants, from the named assumptions only. In each
module the invariants come first (they hold initially and every action keeps
them: `Invariance`, `ProfileInvariance` for GuidedSetup, `RenderInvariance` for
TargetRendering), and the theorems are taken from them. Two components that share rules share a module of
proofs.

**FileTransactionProofs** (`TreeAssumption`: the tree is a tree;
`ValueAssumption`: the markers for absent, directory and link are no contents;
`CallsAssumption`: operations list writes before removals and never the root).
`TypeCorrect`, `ReadersSeeOldOrNew`, `TransactionIsAtomic`,
`RollbackErrorIsComplete`, `LeavesNothingBehind`, `ImplementsContract`. The
properties are not inductive: that a failed
call restored everything depends on what the snapshot holds, on which
operations have been carried out, and on how far restoration has come. `IInv`
says exactly that, per phase: the first `i - 1` entries of `previous` are what
`start` reads; during writing every operation from `i` on is untouched; during
restoration every operation before `i` reads as at the start or is in `named`;
what is not an operation's path reads as in `start`; the paths that became
directories are those in `made` and `created`. `LeavesNothingBehind` needs a
second invariant, `CleanInv`: each directory that was not there at the start is
on one of the lists the handlers work off, or has been reported; and no
temporary file lies about before the first failed clean-up, so that an
interruption adds the only one. `ImplementsContract` maps the last
step to `Commit`, `Refuse` or `Tear` and every other step to a stutter.

**TargetMaterializationProofs** (`RenderAssumption`: files are rendered below
the owned paths of their target, none of which is the manifest or the obsolete
file; `RootAssumption`: an owned path that is a file is itself an output, as in
the registered adapters; `EditsAssumption`, `ContentAssumption`).
`AcceptedOutputIsExact`, `CommitLeavesAccepted`, `ChangesStayInside`, for any
paths, links and contents. The invariant: a plan that nobody disturbed is the
one that would be built now, and a running commit aims at what that plan says of
the disk it found. `ChangesStayInside` says what holds of the rule that
`linked_output` refutes: a file outside the owned paths changes only where a
planned path is a link at the commit; if nobody disturbed it, only the link at an
owned file is left, because those in owned directories were refused, and the file
behind it gets that output and is not removed. The heart of all three is `StalePlaces`: what a plan removes is never what
a rendered path resolves to, so that writes and removals do not undo each other.

**GuidedProofs** (`BundleAssumption`: the marker for a missing value names no
bundle; `RegistriesAssumption`: setups, questions and options are lists, as the
loader leaves them; `SetupsAssumption`, for GuidedInit only: the setups are
registered ones, so their validation found nothing).

`ImplementationsAgree`: `_materialize_selection` and `_expected_selection`,
written apart, compute the same for any number of patches, namely `IsMerge`,
which knows no order: a conflict where two patches give a field different values,
otherwise the value the patches agree on, or that of the setup. After a conflict
one loop stops and the other goes on, so that they agree on the selection only
where there is none. The invariant of both, `Merges`, says for each position
which values are settled so far. Since the induction theorems
of the library cannot be used by the installed provers, `ByInduction` states
induction for a set instead of a predicate, and `FunctionByRecursion` that a
recursive function has the values its definition says; both are proved from the
least counterexample (`LeastNumber`).

`MaterializedProfilesAreValid`: what the materializer writes, the validator
accepts, but for targets outside the bundle, which the registry checks for one
option at a time. `SelectableOptionsWork`: where at most one answer touches the
selection there is no such exception (`OnePatchIsSound`).
`ValidProfilesAreMaterialized`: whatever has been edited, a profile the validator
accepts is what the materializer gives for the same answers. The invariant,
`ProfileInv`, remembers what the properties need of earlier steps: the registry
has been accepted, a profile keeps the shape of its schema under edits
(`EditsShaped`), and one that nobody changed is what the materializer made of the
overrides. That a merged selection names a registered bundle and registered
targets (`MergedIsRegistered`) needs the origin of each field (`FieldOrigin`),
because bundle and targets may come from two different options.

`PlanIsAsAnswered`, `CommittedFilesDescribeOneSetup`, `WritesNeedConsent`,
`CommitKeepsProject` are about GuidedInit, for any number of questions and of
ways back. The invariant: the answers to all questions before the current one are
what the user said last; it survives going back because the questions of an
accepted setup have ids of their own (`DistinctQuestions`).

**PipelineProofs** (`ContentAssumption`, `InputsAssumption`, `PathsAssumption`:
inputs, lockfile, manifest and outputs are different paths).
`PassedIsGenerated`, `IdempotentIsGenerated`, `StrictPassIsCommitted`,
`AcceptedLockIsDescription`, for any number of inputs and edits. The invariant
does not mention the table of commands but its order (`Follows`): what a step
establishes is true from then on in an undisturbed command, because each later
step that could destroy it is followed by another that establishes it again.

**WorkflowValidationProofs** (`WorkflowsAssumption`: states and transitions are
finite sequences, and a transition has a source, a target and one of the three
results, which the schema enforces).
`ForwardTraversalExact` and `BackwardTraversalExact`: what the loops return is
the least closed set. The invariant of each loop: what is visited or on the
stack lies in every closed set that holds the start, and every edge out of a
visited state leads to a visited state or one on the stack; when the stack is
empty the visited set is closed. `AcceptedRoutesTotally`: from these and from
the absence of diagnostics, the controller of an accepted workflow always has
exactly one route for each result and a way to the end. `VerdictIsExact`: the
validator accepts exactly the workflows the documents call valid. The documents
count (one transition for each state and result), the code looks for duplicates,
gaps and wrong sources in separate passes; `RoutesCounted` shows that the two are
the same by a bijection between transitions and pairs of state and result. That
every state can reach the end is a rule of the code and not a condition of the
documents: it follows, since "blocked" leads to the terminal failure state
(`BlockedLeadsOut`).

**TargetRenderingProofs**, on BundleComposition (`BundlesAssumption`: bindings
and instances are sequences and state owners name a state; `InputsAssumption`: a binding has finitely many
inputs, each an artifact and a role; `WorkflowsAssumption`: state names of a
registered workflow are unique, which its own validation enforces).
`CycleSearchExact`: the depth-first search returns a closed walk if it returns
one, and if it returns none the relation has no cycle. The invariant: the
stack is a path of grey roles; black roles have black consumers only; and every
non-empty set of black roles has one without a consumer in that set. The last
part is what makes "no cycle found" mean "no cycle", and it survives the
blackening of a role because all its consumers are black already, and none
of them has the role, still grey, among its own consumers.
`AcceptedBundlesCompile`: each error the compiler can raise is excluded by one
of the validator's diagnostics (lemma `NoDiagnosticsNoErrors`), except those
about the caller's choice of targets. `CompiledAuthorityIsResolved`: in what is
compiled, every gate has one owner with its artifacts and capabilities, every
input one producer, and supply has no cycle.

On TargetRendering, in addition (`SettingsAssumption`: there are adapters,
profiles, skills and statuses for what the registry names, and the workflow of a
composition is the registered one; `FormsAssumption`: what the schemas of
workflows and profiles fix; `PathsAssumption`: paths are sequences of names, and
a name found in a directory or made by `_slugify` is not ".."):

- `RendererRepeatsValidation`: what the validators accepted, the renderer refuses
  only where a target cannot express it. Each of its errors repeats a rule in
  other terms, and is excluded by a diagnostic, or by what the compiler
  established (`RoutingRepresentable`, `TestRepresentable`,
  `EvaluationRepresentable`, `ProductionRepresentable`, `NativeErrorsBound`).
- `RenderedTargetsAreApart`: every file lies below an owned path of its target
  (`Below`) and of no other. Two prefixes of one path overlap
  (`PrefixesOverlap`), and the owned paths of two accepted adapters do not.
- `RenderedAuthorityIsPreserved`: an agent file grants natively what the profile
  of its instance allows. An instance may have lost its file to a later one of
  the same path; with `Distinguishable` it has not (`AgentFileFacts`).
- `SessionIsRouted`: the session follows the workflow, because for each state and
  result exactly one handoff leads out of the controller (`OneWay`), to the file
  of the owner of the next state.

The invariant `RInv` adds to that of BundleComposition: past loading, the
snapshot found nothing, and what failed was the registry, the representation or a
file (`StageInv`); what is rendered are the files
of the composition and they had no errors (`RenderedInv`); the controller and
the worker of a session are the files of that composition for the state reached
(`SessionInv`). The properties alone are not inductive: they say nothing of the
registry that was judged at the first step, on which the later steps rest.

**RegistryProofs** (`FilesAssumption`, `SeedAssumption`: the nine kinds and
their files; `FormAssumption`: a source that is not malformed has the names and
lists its schema requires; `ImpliedAssumption`: no path ends in an empty name;
`NoneAssumption`: a missing list is not the empty one). `AcceptedIsClosed`,
`ProjectionsRead`, `CoverageIsOfUnused`, `ValidatorsAreEnough`, for any registry
and any edits. The first three rest on one invariant of the snapshot: what is
counted as loaded is indexed, what is counted as judged has no diagnostics, and
nothing is judged before everything is loaded; for each kind, the diagnostics
its predecessors in `DependencyOrder` did not give exclude what its projections
raise for. `ValidatorsAreEnough` shows for each pass that it sees, of the kinds
its validator consults, the same sources as the snapshot would (`Consulted`,
`SameRules`), so that the verdicts are the same.

**TargetRuntimeProofs** (`PlanAssumption`, `UnplannableAssumption`).
`PassIsEffective` and `FailureIsReasoned`, for any tool, settings and trees. The
invariant says what an undisturbed command has established at each step, and
that what the first run found is kept until the second has ended.

## 5. What is only model-checked, and what is not modelled

Only model-checked: liveness (`Termination` of FileTransaction,
WorkflowValidation, BundleComposition and TargetRuntime), which the prover cannot
treat. Every other property of a passing run is stated by a theorem. The three runs of section 6 end in counterexamples, so there is nothing to prove.

Simplifications inside the modelled parts: contents, texts, reasons, modes and
hashes are opaque; a lost power supply that reorders renames on disk is not
modelled; nobody else writes into the tree while a transaction runs; the
registry does not change during a command, except in Registry and TargetRuntime,
where that is the point; an owned directory stands for the
files in it, and is never itself a link (it would be followed like a linked file,
and what lies behind it would count as stale). TargetRendering leaves out what the
schemas fix to one value (evidence fields, fail-closed invariants) and the text
of the agents; `SessionFollowsWorkflow` and `AuthorityIsPreserved` are stated
for compositions whose ids have different file names and whose output paths do
not contain each other (`Distinguishable`): `omitted_agent` shows what happens
otherwise. Registry leaves out links that lead out of the repository, and the
schema files themselves, which are always there.

Not modelled, with the reason, in `PROJECT.json` "components": the command that
checks registry references (two operations modelled elsewhere, one after the
other), schema support, the serialization of compositions, the commands for init
idempotency and the active configuration (they print results of modelled
operations), the environment, processes and JSON input, the domain records, and
the tooling that draws diagrams.

## 6. Where documents and code disagree

Each of these is a run that ends in a counterexample.

| Run | Document | Code |
|---|---|---|
| linked_output | core-domain-model.md:684, target output remains inside declared owned paths | an owned file that is a link is resolved (paths.py:71) before it is asked whether it is a link (target_materialization.py:377); a commit overwrites the file it leads to |
| conflicting_defaults | guided-init.md:158, a recommended option is the default and represented in full | two recommended defaults may conflict, and the registry is accepted (setups.py:530) |
| omitted_agent | architecture.md:166, a target must not omit accepted semantics | instances whose ids differ only in case or punctuation have one file; the last one wins (target_rendering.py:166) |

Seen while modelling, without a run: an interruption between two renames leaves
one file new and one old (filesystem.py:116 catches `Exception` only, where
guided-init.md:298 says that there is no partial-success state); restoring a path can be reported as failed
although every path reads as before (filesystem.py:227); the confirmation of
`init` accepts "yes" as well as "y" (cli/init.py:535, guided-init.md:277);
metadata edited while the user is asked to confirm are overwritten
(initialization.py:252 reads them when planning); the output of a target that
has been disabled stays for ever, so what lies on disk depends on the order of
past commands (target_materialization.py:372, architecture.md:44);
`git diff` does not see generated files that were never added, which the
message of main.py:499 does not say (main.py:425); names of capabilities are
stripped for bundles (bundles.py:485) and compared as written elsewhere, so a
registry with untrimmed names passes some commands and not others, which is why
`ValidatorsSuffice` and `CoverageFindsOnlyUnused` speak of trimmed names.

## 7. Plan

Done, in this order: AtomicUpdate and FileTransaction with its proofs, because
everything else writes through it; TargetMaterialization; SetupRules,
GuidedSetup and GuidedInit; Pipeline; WorkflowValidation and BundleComposition
with their proofs; TargetRendering; Registry and TargetRuntime; then the proofs
of TargetMaterialization, GuidedInit, Pipeline, Registry and TargetRuntime, and
what was left of the first three; then those of GuidedSetup and TargetRendering.

Next, by weight:

1. The text of the rendered agents, as far as it repeats rules of the
   composition (artifacts, evidence, producers).
2. A composition of Pipeline with the plans of TargetMaterialization, if the
   state space allows it.
