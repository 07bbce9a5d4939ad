# Catalyst in TLA+

Catalyst is a declarative build system for C++: a `catalyst.yaml` manifest is
composed from profiles, dependencies are fetched, a build file for ninja, make
or the bundled backend *cob* is rendered, and the backend is run. Workspaces
hold several packages that depend on each other. This directory models the
parts of Catalyst in which *order* matters: threads, futures, processes that
share a directory, records on disk that outlive a process, and what is left
when a step in the middle fails. All source paths below are relative to the
repository's directory `src/`; line numbers are in `PROJECT.json` ("map").

## 1. Inventory

| Component | State | Operations | Talks to |
|---|---|---|---|
| **Workspace planning** `subcommands/build/action.cpp` (`workspaceBuildGraph`, `workspaceTargets`) | packages by name, `states`, `active_path`, `build_order`, the set of targets | load each manifest, depth-first visit, cycle report, closure of the selected package | reads manifests; hands its plan to the workspace build |
| **Workspace build** `buildWorkspace` | one `std::async` thread and one shared future per target | dispatch in build order, wait for dependencies, run a child `catalyst build`, collect | each child is a build pipeline in another process |
| **Build pipeline** `run_build` with `BuildFailureGuard` | `catalyst.build`/`build.ninja`/`Makefile`, the toolchain store, the state file, mtimes | hooks, fetch, decide whether to generate, generate, run the backend, compile commands | generation, fetch, hooks |
| **Generation** `subcommands/generate/action.cpp` | the three files above | compose the configuration, resolve the toolchain, render, post-generate hook, write the store and then the state | writers, dependency resolution |
| **Dependency fetching** `subcommands/fetch/action.cpp` | `catalyst-libs/`, `.catalyst_fetched`, what vcpkg and conan have installed | classify, install, parallel clones, serial local builds and links | child builds in other projects, lockfile |
| **Lockfile** `subcommands/lock/action.cpp` | `catalyst.lock` | resolve git revisions, write | read by fetch |
| **Invocation logs** `utils/log/log.cpp` | `.catalyst.logs/<n>.log`, `.catalyst.log`, lock files | choose a generation, publish, prune, lock | all processes of a directory, through file locks and an environment variable |
| **Explanation report** `utils/log/log.cpp` | the report, spool files of children | begin, record, end, collect | parent and child processes |
| **Watch mode** `utils/watcher.cpp`, `build/action.cpp:812-846` | pending events, a flag that the watcher stops | collect events, debounce, rebuild | watcher thread and build loop |
| **Hooks and dispatch** `hooks.cpp`, `utils/hooks/*`, `utils/dispatch.cpp` | depth of nesting, active features, working directory | run commands, scripts, code generators, nested subcommands | every subcommand |
| **Embedded cob** `utils/process_exec.cpp:54-114` | the extracted executable | install through a temporary file and a rename | concurrent processes of one user |
| **Configuration** `utils/yaml/*`, `generate/profile_comp.cpp` | `CATALYST.yaml` or `catalyst_<profile>.yaml`, the composed tree | find a profile, merge it, load and write one back | nearly everything; edited by `catalyst add` |
| **Feature flags** `generate/action.cpp:560-700` | none | resolve overrides, definitions and their union | manifests of the project and of local dependencies |
| **Dependency resolution** `generate/find_dep*` | none; reads the vcpkg database, what conan wrote, clones | libraries, definitions and artifacts of each dependency, in link order | manifests of local projects, external tools |
| **Source sets, module scan, writers** `generate/*` | none | choose the units, scan them, write edges | generation; the backend reads the edges |
| **Other subcommands** (clean, run, test, bench, pack, install, download, init, fmt, tidy, doc, doctor, ...) | none of their own | sequential input and output | configuration, hooks |

What makes each of them correct, and hard:

- *Planning.* The order must be topological and complete for whatever order the
  two `unordered_map`s are iterated in; a cycle must be reported exactly when
  there is one, and no member that has a name may be left out of a plan (one without a
  name is skipped with a warning, which is meant).
- *Workspace build.* No member before its dependencies, none after a failed
  one, every failure reported, no thread left behind, also when starting one
  throws. A wrong order of dispatch would be a deadlock of futures.
- *Pipeline and generation.* The decision to skip generation trusts two records
  that are written at different times. Crashes, torn writes, alternating
  backends or features, an edit while the build runs, and a second process must
  not leave a record that vouches for the wrong build file.
- *Fetching.* The sentinel makes later builds skip the fetch, so it must not
  appear too early; partial failures leave directories that are reused.
- *Logs.* Several processes derive file names from a directory listing, rename,
  prune and append, with only advisory locks between them.
- *Configuration.* Profiles override each other key by key, with rules of their own
  for sequences, versions, dependencies, null values and nulled sections; the
  files are edited in place by `catalyst add` while other commands read them, and
  a profile may be in two places.
- *What is generated.* The content is computed by algorithms over graphs and
  unordered sets: libraries must come in link order, features agree on all paths,
  importers wait for the modules that they import, and whatever is rebuilt must
  make out of date what was made from it, in the terms of three backends.
- *Report, watch, cob, hooks.* A parent collects what children still write, events
  arrive between two looks at a set, processes install one file, and nested
  commands must leave the process as they found it, after an exception too.

`PROJECT.json` lists the components with what is modelled of each, and under
"hazards" each place in the code where one of these things can go wrong, with
the properties that would notice.

## 2. Plan

Written, in this order:

1. `WorkspaceGraph` (with `WorkspacePlan`): planning.
2. `WorkspaceBuild`, an implementation of the abstract `WorkspaceContract`; it
   starts from any plan that satisfies what `WorkspaceGraph` is proved to deliver.
3. `BuildPipeline`: `run_build`, `generate::action` and their records.
4. `Fetch`: dependencies.
5. `LogRotation`: the logs of concurrent invocations.
6. `Manifests`: composition of profiles, and `catalyst add`.
7. `FeatureFlags`, `Dependencies` and, on top of them, `Generation`: what is
   written into the build file and what a backend makes of it.
8. `HookDispatch`, `ExplainReport`, `EmbeddedCob`, `Watcher`, each on its own.
9. Proofs for `LogRotation`, `EmbeddedCob`, `Fetch` and `HookDispatch`.
10. Proofs for `ExplainReport`, `Generation` with its dependencies, codegen hooks, the
    pruning of logs, and all of `Manifests`.
11. The order of libraries (`LinksInOrder`) proved, from facts about the visit of ports
    and the flattening of what it finds.

Next, in order of weight:

12. `LocalDeps`: the chain of child builds through `CATALYST_VISITED`, with the
    abstract statement that it ends and finds each cycle.
13. Requirements of a workspace (`validateWorkspaceRequirements`) and the
    resolution of a toolchain, as functions of composed configurations.

Abstract specifications worth stating: the contract of a workspace build (done),
"a build directory is a cache of its inputs" for the pipeline, and "an append-only
log per invocation" for the logs.

## 3. Modules

### WorkspacePlan, WorkspaceGraph

`WorkspacePlan` has the vocabulary that planning and build share: when a set is
closed under dependencies and when a sequence is a topological order.
`WorkspaceGraph` has one action per step of the code: `LoadMember` and its
failures for an iteration of the loop over the members, `VisitRoot`,
`VisitDependency`, `SkipDependency`, `FindCycle` and `Leave` for the recursive
`visit` with its stack as `active_path` and the loop positions as `todo`,
`SelectPackage` and `AddWithDependencies` for `workspaceTargets`. The order of an
`unordered_map` is a choice in each step. A manifest is a record of its name (or
the lack of one), its dependencies and whether it can be loaded.

### WorkspaceContract, WorkspaceBuild

`WorkspaceContract` says what a caller may rely on: a member runs once all its
dependencies are built, is passed over only when one of them failed, and the
report names failures exactly. `WorkspaceBuild` has the caller (`Dispatch`,
`DispatchThrows`, `Collect`, `Return`) and a thread per package
(`DependencyBuilt`, `DependencyFailed`, `StartMember`, `MemberExits`).
`dependency_futures` is what a thread has still to wait for, in the order of its
list, because `get` is called on one future after the other. `Progress` and the
INSTANCE at the end of the module are the refinement mapping.

### BuildPipeline

A configuration stands for the composed profiles of the project; the content of a
build file is the record of what it was rendered from, or `Partial`. The actions
of `run_build` are `PreBuild`, `PreGenerate`, `FetchDependencies`, `Decide`,
`Backend`, `CompileCommands`, `PostBuild`; those of `generate::action` are
`GenLoad`, `GenBegin`, `GenRender`, `GenWrite` or `GenUnchanged`, `GenPost`,
`StoreWrite`, `StateWrite`. The manifests of local dependencies are read apart from
the project's own, and twice by one generation: by `GenBegin` for the text of
the state file (`gen_locals`) and by `GenRender` for the build file (`drawn`). Each
write can be torn (`WriteTorn`), each step can fail by a returned error or by an
exception, which the code treats differently (`ReturnError`, `Throw`), and a
process can crash anywhere. `EditManifest`, `EditLocals` and `EditToolchain` may come
at any time. Two history variables remember that they did: `disturbed`, that an input changed
since a process started, so that a property can except the builds that edits raced with,
and `raced`, that local dependencies changed between the two readings of the last
generation, whose records may be wrong about them from then on. Timestamps are one bit,
`manifest_newer`: whether the code's comparison of mtimes would find a manifest newer;
the times of the manifests of local dependencies are not compared by the code.

### Fetch

One invocation at a time in a build directory that earlier ones have left their
traces in. `Sort` is the classification with its deduplication, `InstallVcpkg`
the single installation, `Launch`/`Collect`/`Unwind` the loop over futures,
`LinkMember`, `BuildLocal` and `SerialFails` the serial part, `InstallConan`,
`PostFetch`, `Stamp` the end. A thread checks for the directory (`Skip`,
`BeginClone`), clones and checks out in separate steps. `Kill` ends everything
at any step; the history variable `cut` has the clones that it has left in whatever
state and that nothing has removed or replaced since. `Selected` carries the difference between a full fetch and the one
that only looks at local dependencies.

### LogRotation

Processes of three kinds: top-level, machine (`CATALYST_MACHINE` without an
inherited log) and child. Each action is a step under `rotation.lock`, from the
lock (`AcquireRotation`) over `SelectNext`, `Create`, `Publish` and `Prune` to the
lock on its own log (`LockLog`), and then, outside the lock, `OpenGeneration` or
`OpenLatest`. A generation is a number; `latest` is the file that `.catalyst.log`
names. A child that inherits `.catalyst.log` takes its rotation lock in the
project directory and not in `.catalyst.logs`, hence the function `rotation`.

### Manifests

A profile and a composed configuration are functions on keys. Keys that the code
treats alike are there once: `name` for the scalars of `manifest`, `engine` for
those of `tooling.doc`, `source` for the sequences of `dirs`, and so on; `Above`
has the sections around each key, which may be null themselves. One command
composes (`Compose`, `MergeProfile`, `MergeDependency`, `ComposeThrows`,
`UseConfiguration`), reading the files again for each profile and merging
dependencies one by one, while another runs `catalyst add` (`Add`, `LoadProfile`,
`AddFails`, `OpenFile`, `WriteFile`, `WriteCut`, `Kill`), which truncates the file before it
writes it. `WriteCut` is a full disk: `profileWriteBack` does not look at the stream after
the opening, so the file stays cut off and the addition is reported all the same. `Found` is where composition finds a profile and `LoadedProfile` where
an edit does; they differ. `seen` and `added` are history variables: the profiles
merged, and the dependencies reported as added, less those whose file was cut off
(`Spared` has what is left of them). `Fetch` assumes that the names in
a dependency list are unique; `NamesUnique`, proved of `Manifests`, is why.

### FeatureFlags, Dependencies, Generation

`FeatureFlags` and `Dependencies` are operators. `FeatureFlags` has what a flag
may be declared as (`Declarable`), which overrides it takes (`Takes`), and the
definitions that follow. `Dependencies` has an operator for each source
(`FindVcpkg`, `FindSystem`, ...) over `env`, which is what fetching and
the system have left: the vcpkg database with its status stanzas, the answers of
pkg-config, what conan wrote, clones, the output of custom commands. `Visited` is
the depth-first visit of ports. `WithDependencies` is the loop over the dependencies of
a project, `FindLocals` the recursion into local ones, from the path of ancestors to
what each of them gives, and `FindDependencies` the loop of `writeVariables`.

`Generation` has the steps of `generate` (`ResolveFeatureFlags`, `BuildSourceSet`,
`WriteVariables`, `ScanUnit` for each unit in any order, `EndScan`, `WriteEdges`)
and then the backend as an external program that reads the edges: `Build` of any
edge that is ready, `BuildEnds`, and `Touch` for an edit of a unit, or a local
library that is built again, followed by another build. `NinjaStep`, `CobStep` and
`MakeStep` say what each writer makes of an edge. `MadeFrom` is what an output is
really made from, whatever its edge says; the properties compare the two. `Compiles` is
the compiler's side of modules: a command must name the BMI of each module that the unit
reaches over imports, directly or not, as Clang wants it for named modules; the code names
those of the unit's own imports.

### HookDispatch

The commands that run in one process are a stack of `frames`; each has the
lifecycle events that it has still to pass. An item of a hook is an external command, a
codegen item, a nested catalyst command or malformed, and ends well, with a
returned error or by an exception. `Dispatch` and `Return` have what the code
pushes and puts back: the call chain, the features, the depth, the session of
`--explain`. Codegen items have their variables (`Slice`, `Words`), the decision to
run (`Stale`) and the times of the files. A codegen command runs from `StartCodegen` to
`EndCodegen` and writes any of its declared outputs, whether it succeeds or fails, since
the code only logs an output that is missing after a success; `EditFile` changes or removes
files between commands and while one runs. The history variable `behind` has the pairs of
an input and an output that was last written by a command that cannot have seen the last change of the
input, `raced` those of them where the change came while that command ran.

### ExplainReport, EmbeddedCob, Watcher

`ExplainReport` has the processes of explained builds: the search for a free name
(`LockName`, `CreateReport`, `Unlock`), children with their spool files (`StartChild`,
`BeginChild`, `Collect`), records, streams that fail, and kills. `EmbeddedCob` has
the steps of `ensureEmbeddedCobExtracted`, each of which other processes can come
between. `Watcher` has the listener thread (`HandleFileAction`) and the loop (`Wake`,
`SettleAgain`, `StartRebuild`, `BuildReturned`, `BuildThrew`); the sources are a
version that changes raise and a build reads at some moment.

### Subjects side by side

`MCPlanning`, `MCProcesses` and `MCTools` put components side by side for TLC that do not
interact: planning and manifests; the threads of a workspace build and the processes that
share logs; `Generation`, `HookDispatch`, `ExplainReport`, `EmbeddedCob` and `Watcher`. A
behaviour is one of a single subject, chosen at the start, while the variables of the
others keep a value. They share no state in the code either, so that nothing is lost, and the states
of a run are the sum of those of its subjects. Names differ where two modules would
otherwise clash: `GraphInit`, `GraphSpec`, `BuildNext`, `HookInit`, `ReportSpec` and so on.

### Conventions

`*Proofs` modules hold the theorems (`ToolsProofs` those of `ExplainReport`,
`EmbeddedCob` and `HookDispatch`, which `MCTools` has side by side, the others
those of the module they are named after), `MC*` modules the values for TLC. A comment
"Mutant of X" marks a variant of `X` with a plausible bug; no specification uses
it. It shows that the property named in `PROJECT.json` depends on `X`.

## 4. Runs

| Run | Instance | Shows |
|---|---|---|
| `planning` (765,128 states) | planning: 4 members, every graph up to renaming, and any two of the members with odd manifests (missing or shared name, self-dependency, foreign dependency, unreadable file), any order of loops. Manifests: 3 profiles with any of 6 contents each, or fewer in either format; 4 lists of profiles; 2 additions, one to two profiles; kills and full disks | order, completeness, cycle verdict, closure, no named member lost; the merge against reference definitions, unique names, additions that stay |
| `processes` (410,678) | every plan over 4 packages and every closed set of targets, dispatch that throws at each point. Logs: 2 process slots that are used again and again, 2 retained generations, up to generation 6 | order, containment, complete errors, no thread left, termination, refinement of the contract; kept, unshared and published generations, pruning only of old ones, setting up ends |
| `build_pipeline` (1,627,980) | 1 process, 2 manifests with different generators and a third choice by `--backend`, 2 contents of local dependencies, a toolchain file that may be broken | true records, fresh build file, convergence |
| `raced_locals` | 1 process, 1 manifest, 2 contents of local dependencies | violation: an edit that is taken back leaves a stale build file for good |
| `concurrent_builds` | 2 processes, 1 configuration | violation: a torn build file recorded as current |
| `failure_hook` | 1 process | violation: the on-build-failure hook is skipped after an exception |
| `fetch` | 6 dependency lists of up to 3 entries, any lockfile over 2 names, kills | threads, sentinel, presence of git dependencies, local builds, termination |
| `locked_fetch` | 1 git dependency, 1 lockfile, no kills | violation: an existing clone is used at another revision than the locked one |
| `legacy_log` | 2 processes | violation: a machine process loses its log |
| `mixed_manifests` | 1 profile in a file of its own beside `CATALYST.yaml`, 2 additions | violation: the second addition drops the first |
| `tools` | the subjects of `MCTools`: layouts of three units over two modules for each backend, four local projects in all shapes of a diamond, a chain and a cycle, 24 dependencies on other sources in 6 environments, nested hooks, slices with all bounds from -3 to 3, codegen over 2 inputs and 2 outputs, 2 explained builds with 2 children, 3 processes that extract cob, 3 edits under watch | definitions, link order, verdict of the scan, module order, staleness; restored context, slices, current outputs; records; extraction; rebuilds |
| `make_build` | the layouts of three units over two modules, under make | violation: importers are not compiled again |

Why these bounds are enough to meet the interesting cases:

- Four members are the first size with a diamond, with a cycle that does not
  contain the root of the visit, and with two disjoint parts. Odd manifests meet
  each other in pairs: the check for a duplicate name compares two.
- The pipeline has *unboundedly* many builds one after the other: a process slot
  is used again and again and no counter bounds it. Two values of an input
  suffice to tell "the same" from "another"; each further value would be treated
  as the second one. The project's manifest and those of its local dependencies have two,
  the toolchain file one and `Broken`. The feature list has one: it is an argument that is
  compared in the same equation as the configuration, and two would take TLC
  beyond its time; the theorems hold for any number. Two generators with different build
  files make the store's generator matter.
- The lists of `fetch` have every source, a workspace member as a local, git,
  system and vcpkg entry, and an entry without a source. Names do not repeat,
  because composition leaves none that do. Builds, edits, deletions and changes of
  the lockfile follow each other without a bound.
- For logs, a rotating process and one that holds a log, starts or ends meanwhile
  are the roles; an ended process leaves its slot to another one, of any kind. With
  two retained generations, pruning starts at the fourth, so that six generations
  see it several times. `MaxGeneration` is the only bound in a guard: no top-level process
  is *started* that could go beyond it, so that started ones are never blocked.
  `RETAINED_INVOCATIONS` is 50 in the code.
- The six contents of the profiles in `planning` set each key to two values and to null, null each
  section, repeat a dependency, leave one without a name, and have a generator
  and a key that do not exist. Three profiles are enough for a value, a null and
  a value after it; the list with a profile twice in a row and again later meets
  the deduplication, which is of neighbours only.

- Four local projects are the first with a diamond below the root and with a cycle
  that the root is not in. The vcpkg database has a feature stanza, a removed one,
  a port without files, repeated and, in one environment, circular ports, one of which
  needs a port outside the cycle. Three
  units over two modules give an import chain, a cycle, a missing and a doubled
  provider. `MaxTouches = 2` lets a second change come before the first
  is built.
- `MAX_DISPATCH = 3` and `MAX_DEPTH = 4` stand for 8 and 16 in the code: chains that reach
  the first limit, circles of commands, and hooks of each kind inside each other
  occur. `MaxCommands = 2` command lines share their files; `MaxTime = 4` leaves room for
  edits after the times at first (0 to 2).
- Two top-level builds of one second compete for names (`MAX_SUFFIX = 3`), one with
  two children at once and one with a grandchild (`Starts`); `MaxFaults = 2` streams
  or processes fail. One record for each process (`MaxRecords = 1`) is enough to miss it,
  double it or find it elsewhere.
- Three processes extract cob: one that removes, one that has replaced and one that
  believes. `MaxEdits = 3` changes fall into a settling burst, a rebuild and the time
  after it.

Deadlock is checked in every run but `tools` and `make_build`. The finite runs have an explicit
`Terminating` step after the return of the command. In `tools` each subject comes to
its end (generation done, command lines used up, processes ended), where the system
does stop; a build that is stuck before its end is a failure that `ModulesBuild` allows
only where modules import each other in a cycle. `make_build` has one of these subjects.

**Fairness.** In `WorkspaceBuild` the caller and each thread go on (threads are
scheduled, and child builds end); nothing forces a success, and nothing is assumed
of the order. `Fetch` is the same: the invocation and each thread go on, that is,
git, vcpkg and conan end. In `LogRotation` a process goes on when it does not wait
(weak fairness), and one that waits for `rotation.lock` gets it if it is free again
and again (strong fairness, the queue of the operating system). A running process
is not assumed to end: `SetupReturns` says that pruning never waits for one. In `Watcher`
both threads go on and builds end, also while changes keep coming; nobody has to
change anything. `EditsRebuilt` speaks of changes that are made while Catalyst watches,
and excepts the exception that ends watch mode.
The other modules state safety only.

### What the violations say

- `failure_hook`: `docs/concepts/hooks.md` promises the hook for a failure "at any
  stage"; the guard's destructor looks only at a returned error.
- `concurrent_builds`: `generate::action` promises never to treat a partial build
  file as current. That is so for one process (proved below). Two processes take no
  lock, and the record of one can complete over the torn file of the other. Members
  of a workspace that share a local dependency build it from concurrent processes.
- `locked_fetch`: `docs/cli/lock.md` promises the locked revisions. A clone whose
  checkout failed, or that is older than the lockfile, is reused as it is.
- `legacy_log`: `docs/concepts/log.md` promises to retain all active logs. A machine
  call that found no generation appends to `.catalyst.log` under a lock that no
  rotation looks at.
- `mixed_manifests`: a profile that has a file of its own beside `CATALYST.yaml` is
  loaded for editing from that file each time, though composition reads it from
  `CATALYST.yaml`; of two additions the first is lost.
- `raced_locals`: `docs/concepts/preprocessor.md` promises that changes of the manifests of
  local dependencies invalidate what is generated. A generation reads them once for its
  record and again for the build file. When one is edited in between and put back later, the
  record matches what is there, the build file does not, and no later build notices.
- `make_build`: `docs/concepts/modules.md` promises "staleness propagation through the import
  graph", whatever the generator. The writer for make puts the interface unit's object
  behind a bar, where it is order-only.

## 5. Proofs

All theorems hold for every value of the constants that satisfies the named
assumptions of the modules.

**WorkspaceGraphProofs.** `VisitInv` is inductive: the colours of the nodes agree
with the path and the order, each node of the path has the next one among its
dependencies, a dependency that is neither visited nor on the path's loops is in
the order already, and what is in the order stands after its dependencies. The
topological order alone is not inductive, since it says nothing of the nodes
that are still open. `EndInv` adds what a finished visit and a reported cycle
mean, `LoadInv` that a loaded member is the owner of its name, `SelectInv` that
targets lie in the closure and that the rest of it is reachable from `frontier`.
From these follow `OrderIsTopological`, `OrderIsComplete`, `CycleVerdictCorrect`,
`NoMemberLost`, `SelectionIsClosure`. `PlanIsPromised` is the contract with the
next module: what planning returns satisfies `PlansAssumption` of `WorkspaceBuild`.

**WorkspaceBuildProofs.** `BuildInv` relates the dispatched prefix of the order to
the threads and to the futures they hold: a waiting thread waits only for
packages dispatched before it, a thread past waiting has all its dependencies
built, and collected results are those of resolved threads. It gives
`DependenciesFirst`, `NothingLeft`, `Containment`, `Completeness`, and is what the
step simulation `ContractStep` needs for `Implementation`: every behaviour of
the threads is one of `WorkspaceContract`.

**BuildPipelineProofs.** `TypeCorrect` holds for any number of processes. The other
three assume `OneInvocation`, that the build directory has one process at a
time; the run `concurrent_builds` shows that they fail without it. `CoreInv`
says, for each step of a process between two writes, what is on disk: the state
file is gone from `GenBegin` to `StateWrite` (`Unrecorded`), and what has been
written so far is this process's rendering (`Written`). `ReadAlike` says that the two readings
of local dependencies agree as long as no edit came between them (`raced`).
`RecordIsTrue` is not inductive without them. `BackendSeesFreshFile` and `BuildsConverge` follow from it
and from what `Decide` compares.

**ManifestsProofs.** The invariants are built from `Inv`, whose parts are `FilesOK` (what is on
disk is profiles), `AdderOK` (so is what an add is about to write) and
`ComposerOK` (so is what is composed). `NamesUnique` needs them because a list is
unique only as long as what is merged into it is a sequence of dependencies;
its heart is the lemma that replacing the first entry of a name leaves none.
`LastDecides` says by `ScalarsOK` that merging one more profile at the end agrees
with the definition by "the last profile that touches the key".
`SequencesAreSums` does the same for sequences: the definition flattens what the
profiles list since the last null, and `ListedAppended` says what one more profile
adds to that, or that it starts again. What flattening computes is known from the
recursive function in its definition, which the lemmas on `Flattens` extend by one
element. For `LastDeclarations` the list is compared within a profile too
(`DeclaredOK`): after each dependency it is related by `Kept` to the declarations read so
far, that is, an increasing enumeration of those that are the last of their name.
Dropping the earlier entry of a name and appending the new one extends such an
enumeration (`KeptAppended`), and there is only one (`KeptInOrder`).

`AdditionsStay` rests on `AddsOK`: between the reading of a profile and the end of its
write, what an add has in hand (`tree`) declares all that has been promised, so that
truncating and writing the file takes nothing back; a write that a kill or a full disk
cuts off takes back what was added to that file, and only that. It has the hypothesis `Separated`:
no layout has `CATALYST.yaml` beside files of single profiles. Without it the
property is false, which is what the run `mixed_manifests` shows of the code. Of constants
`ConstantsAssumption` says that the markers `Unset`, `Null`, `Missing` and `Torn` are none of
the values they stand beside, and that combined manifests have known profiles.

**LogRotationProofs.** `LogInv` is inductive. `Exclusive` says that whoever sets up in
`.catalyst.logs` holds its lock, so that of the processes between selection and
release there is one (`OneSetsUp`). `Owned` says that a top-level process's
generation exists from its creation to the end, `NotTaken` and `Distinguished` that
nobody else has that number, which is so because it was chosen above the maximum
of a finite listing (`MaxOfBounded`), and `Rotating` that what is pruned is older
than the log of the one who prunes. For a pruned generation, either its owner sets up,
and is the pruning process itself, or it holds its lock (`Locking`). From these
`LogsKept`, `GenerationsDistinct` and `LatestExists` follow, for any number of
processes and any number of retained generations. `OldOnesPruned` is about the step that
removes: the loop of `Prune` counts completed generations from the newest on, while
others end and become completed after they have been passed. `PruneInv` bounds the
counter by the generations that the process has passed and that are not held *now*
(`Counted`), or says that enough of these exist, which stays so because nobody else prunes
(`Waiting`) and nobody locks a generation that is not its own (`Unlocked`).

**FetchProofs.** `FetchInv` is inductive. `ThreadsOK` says which entries have a thread in
which loop: those that the launching loop has treated, those that the collecting
one has not. `ResultsOK` says that what a thread reports, and what has been
collected from it while nothing failed, is in `catalyst-libs`; `SerialOK` and
`InstalledOK` say it of the loops after. That nothing but a forced refetch
(`Clearing`) makes a directory disappear while an invocation runs carries `GitThere`,
the promise of `depMissing`, to the end of a build that skips the fetch. `NoThreadLeft`,
`GitPresent`, `LocalsChecked` and `StampIsTrue` follow, the last with `CutInv` (a
clone is incomplete only where a kill has left it), for any manifests without
repeated names, any lockfiles and any sequence of invocations, kills, edits and deletions.

**GenerationProofs.** `ScanInv` says that the units read so far provide
different modules and that `providers` is what they provide, so that the first unit
that is refused spoils the project in any order (`UnreadableUnit`), and that after all of them
the project is well formed (`AllRead`): `ScanIsOrderFree`. `BuildInv` adds what the edges and the
built files are: `newer` has only files that went into something built before
(`FilesOK`), so that `NothingBehind` follows once no edge is pending, and no unit of
an import cycle has been compiled (`ImportsBuilt`), since each waits for another one of it
(`EdgeOfUnit`). A compile fails for a BMI that is not named only where a module is imported
indirectly (`MissesIndirect`). Conversely, if nothing is ready, the units that are left form a
cycle (`StuckInCycle`); it is here that the target must not wait for itself.

That it never does is `NoInputOfItself`, and it comes with `DefinitionsAsPromised`, the
theorem that the whole recursion of `findDep` finds what is promised. A recursive function
is a choice of one that satisfies its equation, so first there is one: `LoopExists` extends the loop
by a dependency, `FindsExists` the function by the sets of ancestors to which one more
project can be added, both by the least number for which there is none (`LeastNumber`). `LoopFinds` says
of the loop that it succeeds exactly when all its parts do and the union of their
definitions has one value for a macro, whatever the order in which conflicts are met.
`LocalsRight` then says what each local dependency gives below any set of ancestors, by the
number of projects that are not ancestors: it succeeds exactly when everything below it
is sound (`Sound`), and has the definitions of what `ReachedFrom` defines by closed sets. `ReachedParts` is
the step of that: what a project reaches is its dependencies and what they reach. In a
sound one no project reaches itself, so that the path of ancestors, which differs
from branch to branch, makes no difference (`SoundBelow`). `WorldsAssumption` says that there are three writers
and one unit at a path, that manifests are finite, and that a feature is declared once,
being a key of a YAML map.

`LibrariesInOrder` is about the line that all this flattens. First, all that is joined are lists
(`FlattenRight`, `FlagsAreLists`, `ChildrenAreLists`; `WorldsAssumption` says that programs print lists and that
a vcpkg database is finite). Then `vcpkgTransitiveClosure`: its visit is a recursive function of
the set of ports that have been seen, of which there is one because each call leaves fewer
ports unseen (`VisitsExist`). What a visit finds is `VisitRight`: whatever is
linked with a port of the list has been seen, or is in the list no later than the port, or
needs the port itself. Appending a port after its children keeps that (`PortVisited`), and
so does one visit after another (`VisitsJoin`). If the port is in no cycle, the third case is
out, so that what is up to the port is closed and has all that it needs
(`BelowIsBefore`), and the reverse of the list has each port before that (`ClosureIs`).
Lists that are in order for some nodes (`InOrder`) are so for all of them when they are joined
(`InOrderJoined`), since a library keeps all that was to the right of it; and a project or a port in
front of what it needs is in order (`InOrderAbove`). With this `LocalsInOrder` follows the
recursion of `findDep` in the way `LocalsRight` does. `NeededBy` is again stated by closed sets.
An earlier form of `LinksInOrder` exempted only what the ports of a cycle need of each other.
The proof failed there, and the circular ports in `MCGeneration` then showed why: a port of a cycle can come
after a port outside the cycle that it needs through another one of the cycle, when the visit has
found it on a later branch. So of a port in a cycle (`InCycle`) only what it is linked with itself, and
does not need it, is promised to be to its right (`FurtherDown`).

**ToolsProofs**, report and backend. `ReportInv` is inductive. A spool file has a number that only its
child has (`SpoolsOK`), a stream is that of the file its build owns (`SinksOK`), and no
two top-level builds own one report (`OwnersOK`). Then `NoneForeign` and `NoneMissing` say which records each file
has, in terms of the builds that its owner leads to over collected children (`Reach`):
collecting a child moves the records of its file and at the same time what it leads to
(`ReachOfCollector`, `ReachOfOthers`). `RecordsOK` says that no record is twice in one file or
in two. `ReportsAreExact` holds for any number of builds and children, any nesting and
any kills and failing streams; `BuildsAssumption` says that no build is both started by a
user and a child, and that there are finitely many children.

Who has yet to install the embedded cob and who relies on it are related
by `Stays` and `Installed`: nothing removes a file unless a stale one was
there first, and whoever removes has still to rename. `ExtractionIsSafe` holds for
any number of processes.

**ToolsProofs**, hooks. `HookInv` says for the whole stack of commands what
`ContextOfInnermost` says of its top: each frame will put back the features of the
one below (`FramesOK`), names do not repeat (`ChainOK`), and one frame owns the session
that is active (`OwnerOK`). Steps of hooks only change how far a command has come
(`Alike`); a command is pushed (`PushKeeps`), popped (`PopKeeps`), or the whole process
ends. For `ContextRestored` nothing is assumed of hooks and requests, and of the limits
that a command may run at all (`DispatchAssumption`). `SkippedCodeIsCurrent` needs that a command has an item
of its hook in hand, that no file is newer than the clock (`Clock`), and `BehindInv`: an output
that is behind a change it did not race with has an older time than the input, or one of
the two is missing. That is what connects what happened (`behind`) with what `Stale` sees, the times. `SlicesArePythons` compares two descriptions of a slice:
the loop of `substituteCmdArgs`, which clamps the bounds and walks by the step, and the
set of positions that the language reference of Python selects. That both give one
sequence for all lists, bounds and steps is `SliceSelects`, arithmetic on multiples of the
step (`Walk`, `Multiples`, `Remainder`) and on the rank of a position (`Ranked`). The invariant
`CommandOK` says that what is remembered of a codegen item is what its command line was
made from. `HookedProjectsAssumption` says that hooks are finite lists, that codegen items
name files that have times, and that bounds are numbers or absent.

Only model-checked:

- liveness (`BuildReturns`, `FetchReturns`, `SetupReturns`, `EditsRebuilt`): the provers do not
  handle fairness and ENABLED;
- the seven violations.

Some definitions have the form they have because of the proofs: what a build collects
(`Below`), `ReachedFrom` and `ImportCycle` are stated by closed sets, not by recursion, and
`Selected` and `LastDeclarationsKept` put into order by rank what a sort or a fold would. They are
definitions of properties; the actions keep the form of the code. `WithDependencies` and
`FindLocals` are recursive functions where a fold and an operator could do, since the library's folds
cannot be reasoned about here.

## 6. Abstractions and limits

- External programs (git, vcpkg, conan, compilers, backends, hooks) succeed or
  fail; git removes the directory of a clone that fails, as it does by itself. A
  hook may edit manifests but does not start another build in the same directory.
- In `Fetch`, edits, deletions and changes of the lockfile happen between
  invocations; in `BuildPipeline` at any time.
- File locks are exclusive or shared among processes and end with the process. A
  failing `setenv` throws and is a failure of the setup (`SetupFails`).
- In `BuildPipeline`, all manifests of local dependencies change as one content. The two
  readings of them are two steps; what one reading finds in several files is taken
  together. The set of source files and what pkg-config or vcpkg answer are not in the
  record and not in the model: `docs/concepts/modules.md` asks for `build -r` after changes of imports
  or new files.
- In `Fetch`, what is left of a clone that was killed is taken for the dependency, as the
  code looks only at whether the directory exists: `StampedWhenFetched` excepts it.
- In planning, a member without a name is skipped with a warning, as in the code;
  `EveryMemberPlanned` is about members with names.
- A crash keeps the writes made before it, in order; a power failure that
  reorders them is not modelled: the code never calls `fsync`.
- In `Manifests`, versions are triples of numbers, which is what shorter ones are
  padded to; a sequence where a mapping is due, or the reverse, does not occur.
  Whether rapidyaml turns null dependencies into a sequence, as `add` asks it to,
  is left open: the add fails or succeeds. Two adds at a time are not modelled.
- Text is never modelled: messages, the syntax of manifests, build files and
  flags. A property about an error message is about the set of packages in it.
- In `Generation`, make is a case of its own. Its writer puts implicit inputs behind a
  bar, where they are order-only: importers are not compiled again after a
  change of an interface unit, nor targets linked again with rebuilt local
  libraries. `UpToDate` excepts make, and of make only such inputs; the run `make_build`
  shows that the promise of `docs/concepts/modules.md` is broken there.
- That a compile needs the BMIs of indirect imports is how Clang treats named modules since
  version 18, the compiler of the `Dockerfile` being 21; it is nothing that the sources
  say. `generate::action` names the BMIs of a unit's own imports, so a unit that imports `b`
  but not `a`, which `b` imports, is taken to fail (`ImportsIndirectly`). A compiler that finds
  them by itself would make `ModulesBuild` hold without that case.
- A dependency on a local project also fails when the toolchain of that project cannot
  be resolved, and its list of `profiles` chooses among its manifests; in `Dependencies` a
  local project has one manifest and resolves.
- In `Dependencies`, a git dependency gives the name of its clone and nothing of its
  own features or dependencies, as in the code (`using` is read for local ones only).
  Ports without any files, such as tools of another build, hide what lies
  behind them, and an unreadable database leaves only the package itself:
  `LinksInOrder` is stated for what the database shows. Include directories, run paths and
  flags are left out. Ports in a cycle are in
  an order of which `LinksInOrder` says less, since one of them is first; what needs such a port from outside is
  before all of them.
- In `HookDispatch`, the verbosity that a nested command asks for stays on after it,
  although `docs/concepts/hooks.md` (line 82) calls each hook invocation independent; no property
  is stated about it. Freshness is decided by times alone: a generator that fails after it
  has written all its outputs counts as fresh afterwards, and an input that is edited while the generator
  runs may be taken for seen. Files written at the same instant and times that are put back are
  not modelled: each write has a time of its own. A bound of a slice beyond 64 bits is an error
  in the code and cannot be written in the model.
- In `EmbeddedCob`, a file is told from the bundled one by its length, as in the code: a
  stale file of the same length is taken for current and is not modelled. When a stale
  file was there first, a process may find the executable gone, because another one
  removes what has replaced it.
- In `Watcher`, changes before the watches exist are announced to nobody. `stop()` has no
  caller. A rebuild that fails before it reads the sources, in a hook, counts as one: the code does not
  try again before the next change. Changes that never pause put the rebuild off for
  ever, as a debounce does; the bound on edits keeps that out of the run.
- Not modelled, and why: the requirements that workspace members have on each other,
  and the resolution of toolchains, are functions of composed configurations that only
  reject or fill in values; `catalyst lock` and the chain of child builds through
  `CATALYST_VISITED` are sequences of external programs, of which `Fetch` has the effects;
  clean, run, test, bench, pack, install, download, doctor, introspect, fmt, tidy, doc and
  completion are sequential input and output or wrappers of a tool; option parsing is
  done by a library. `PROJECT.json` has a note for each.
