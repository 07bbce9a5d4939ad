---------------------------- MODULE BuildPipeline ----------------------------
(***************************************************************************)
(* One project's build directory under `catalyst build` (run_build) and    *)
(* `catalyst generate` (generate::action): when the build file is rendered *)
(* again, in which order it and the two records about it are written, and  *)
(* what is left behind by a failure or by a crash between any two writes.  *)
(* Manifests and the toolchain file may be edited at any time, by a user   *)
(* or by a hook.                                                           *)
(*                                                                         *)
(* A configuration stands for the composed profiles of the project, which  *)
(* generate::action loads once; the manifests of local dependencies are    *)
(* read when they are needed, by generate::action twice. A build file      *)
(* stands for what it was rendered from.                                   *)
(***************************************************************************)
EXTENDS Naturals, FiniteSets

CONSTANTS
  Invocations,   \* slots for catalyst processes in this build directory
  Configs,       \* contents of the project's manifests
  Locals,        \* contents of the manifests of its local dependencies
  Features,      \* values of --features
  Toolchains,    \* contents of the toolchain file
  Generators,    \* generators named by a manifest or by --backend
  Generator,     \* meta.generator of each configuration, or its default
  NoBackend,     \* no --backend argument
  Broken,        \* a toolchain file that cannot be resolved
  Absent,        \* a file that does not exist
  Partial,       \* a file that was opened for writing and not completed
  Unread         \* the local dependencies, before generate::action reads them

\* Where generate puts the build file; two generators may share a file.
buildFilename(generator) ==
  CASE generator = "ninja" -> "build.ninja"
    [] generator \in {"gmake", "make"} -> "Makefile"
    [] OTHER -> "catalyst.build"

BuildFiles == {buildFilename(g) : g \in Generators}

Rendered == [config : Configs, locals : Locals, features : Features, toolchain : Toolchains]

\* What generationState and serializeToolchainStore tell apart.
State == [config : Configs, locals : Locals, features : Features]

Store == [toolchain : Toolchains, generator : Generators]

Arguments == [command : {"build", "generate"}, features : Features,
              backend : Generators \cup {NoBackend}]

Steps ==
  {"idle", "pre_build", "pre_generate", "fetch", "decide", "gen_load", "gen_begin",
   "gen_render", "gen_write", "gen_post", "store_write", "state_write", "backend", "compdb",
   "post_build", "guard", "done"}

Outcomes == {"running", "ok", "failed", "threw", "terminated"}

ASSUME ConstantsAssumption ==
  /\ Generator \in [Configs -> Generators]
  /\ NoBackend \notin Generators
  /\ Broken \notin Toolchains
  /\ Unread \notin Locals
  /\ {Absent, Partial} \cap (Rendered \cup State) = {}
  /\ {Absent, Partial} \cap
       [toolchain : Toolchains \cup {Broken}, generator : Generators] = {}
  /\ Absent # Partial

VARIABLES
  manifest,         \* the configuration that a process would load now
  local_manifests,  \* what it would read now of its local dependencies
  toolchain,        \* the toolchain that it would resolve now, or Broken
  build_file,       \* each build file
  state_file,       \* .catalyst_generation_state
  toolchain_store,  \* catalyst__tc_store
  manifest_newer,   \* a manifest has a later mtime than build and state file
  pc,               \* the next step of each process
  args,             \* its command line
  config,           \* the configuration loaded by run_build
  gen_config,       \* the configuration loaded by generate::action
  gen_toolchain,    \* the toolchain resolved by generate::action
  gen_locals,       \* the local dependencies in generationState's text
  drawn,            \* the local dependencies in the text of the build file
  outcome,          \* how it ended
  failure_hook,     \* the on-build-failure hook was run
  \* History, which no action reads:
  disturbed,        \* an input changed since the process loaded its configuration
  raced             \* local dependencies changed between the two readings of them
                    \* by the last generation to begin

inputs == <<manifest, local_manifests, toolchain>>
files == <<build_file, state_file, toolchain_store, manifest_newer>>
loaded == <<args, config, gen_config, gen_toolchain, gen_locals, drawn>>
ending == <<outcome, failure_hook>>
history == <<disturbed, raced>>

vars == <<inputs, files, pc, loaded, ending, history>>

GeneratorOf(i, c) == IF args[i].backend = NoBackend THEN Generator[c] ELSE args[i].backend

\* The file that run_build hands to the backend and the one generate writes.
BuildFile(i) == buildFilename(GeneratorOf(i, config[i]))
GenFile(i) == buildFilename(GeneratorOf(i, gen_config[i]))

Building(i) == args[i].command = "build"

Init ==
  /\ manifest \in Configs
  /\ local_manifests \in Locals
  /\ toolchain \in Toolchains \cup {Broken}
  /\ build_file = [f \in BuildFiles |-> Absent]
  /\ state_file = Absent
  /\ toolchain_store = Absent
  /\ manifest_newer = FALSE
  /\ pc = [i \in Invocations |-> "idle"]
  /\ args \in [Invocations -> Arguments]
  /\ config = [i \in Invocations |-> manifest]
  /\ gen_config = config
  /\ gen_toolchain = [i \in Invocations |-> Broken]
  /\ gen_locals = [i \in Invocations |-> Unread]
  /\ drawn = gen_locals
  /\ outcome = [i \in Invocations |-> "running"]
  /\ failure_hook = [i \in Invocations |-> FALSE]
  /\ disturbed = [i \in Invocations |-> FALSE]
  /\ raced = FALSE

(***************************************************************************)
(* How a step ends.                                                        *)
(***************************************************************************)
Goto(i, step) == pc' = [pc EXCEPT ![i] = step]

Continue(i, step) == Goto(i, step) /\ UNCHANGED ending

\* An error is returned: run_build's guard runs the on-build-failure hook.
ReturnError(i) ==
  /\ Goto(i, IF Building(i) THEN "guard" ELSE "done")
  /\ outcome' = [outcome EXCEPT ![i] = "failed"]
  /\ UNCHANGED failure_hook

\* An exception leaves the function while `result` still holds success.
Throw(i) ==
  /\ Goto(i, "done")
  /\ outcome' = [outcome EXCEPT ![i] = "threw"]
  /\ UNCHANGED failure_hook

ReturnOk(i) ==
  /\ Goto(i, "done")
  /\ outcome' = [outcome EXCEPT ![i] = "ok"]
  /\ UNCHANGED failure_hook

\* A process that dies has nothing left of what it read.
Die(i) ==
  /\ Goto(i, "idle")
  /\ gen_toolchain' = [gen_toolchain EXCEPT ![i] = Broken]
  /\ gen_locals' = [gen_locals EXCEPT ![i] = Unread]
  /\ drawn' = [drawn EXCEPT ![i] = Unread]
  /\ outcome' = [outcome EXCEPT ![i] = "running"]
  /\ UNCHANGED <<args, config, gen_config, failure_hook>>

\* A hook passes, returns an error (a malformed item, a catalyst command that
\* fails) or throws: after a failing shell command the hook gets the exit code
\* from the future a second time.
RunHook(i, next) == Continue(i, next) \/ ReturnError(i) \/ Throw(i)

\* A filesystem call reports an error or throws.
Fail(i) == ReturnError(i) \/ Throw(i)

(***************************************************************************)
(* run_build.                                                              *)
(***************************************************************************)
\* A process starts and loads the configuration: `catalyst build` goes on with
\* its hooks, `catalyst generate` with generate::action.
Start(i) ==
  /\ pc[i] \in {"idle", "done"}
  /\ \E a \in Arguments :
       /\ args' = [args EXCEPT ![i] = a]
       /\ Goto(i, IF a.command = "build" THEN "pre_build" ELSE "gen_load")
  /\ config' = [config EXCEPT ![i] = manifest]
  /\ gen_config' = [gen_config EXCEPT ![i] = manifest]
  /\ gen_toolchain' = [gen_toolchain EXCEPT ![i] = Broken]
  /\ gen_locals' = [gen_locals EXCEPT ![i] = Unread]
  /\ drawn' = [drawn EXCEPT ![i] = Unread]
  /\ outcome' = [outcome EXCEPT ![i] = "running"]
  /\ failure_hook' = [failure_hook EXCEPT ![i] = FALSE]
  /\ disturbed' = [disturbed EXCEPT ![i] = FALSE]
  /\ UNCHANGED <<inputs, files, raced>>

PreBuild(i) ==
  /\ pc[i] = "pre_build"
  /\ RunHook(i, "pre_generate")
  /\ UNCHANGED <<inputs, files, loaded, history>>

PreGenerate(i) ==
  /\ pc[i] = "pre_generate"
  /\ RunHook(i, "fetch")
  /\ UNCHANGED <<inputs, files, loaded, history>>

\* The dependencies are fetched into another directory.
FetchDependencies(i) ==
  /\ pc[i] = "fetch"
  /\ Continue(i, "decide") \/ Fail(i)
  /\ UNCHANGED <<inputs, files, loaded, history>>

\* The state file has the configuration that run_build loaded at its start, and
\* the local dependencies as they are when it looks.
StateMatches(i) ==
  state_file = [config |-> config[i], locals |-> local_manifests,
                features |-> args[i].features]

\* Mutant of StoreMatches: the generator is not compared.
ToolchainMatches(i) == toolchain_store \in Store /\ toolchain_store.toolchain = toolchain

StoreMatches(i) ==
  toolchain_store = [toolchain |-> toolchain, generator |-> GeneratorOf(i, config[i])]

\* The build file can be kept, or has to be rendered again; --regen forces it.
Keep(i) ==
  /\ build_file[BuildFile(i)] # Absent
  /\ StateMatches(i) /\ StoreMatches(i) /\ ~manifest_newer

Decide(i) ==
  /\ pc[i] = "decide"
  /\ \/ Fail(i)                                     \* a local dependency is not found
     \/ Continue(i, "gen_load")                     \* --regen
     \/ /\ build_file[BuildFile(i)] # Absent /\ StateMatches(i) /\ toolchain = Broken
        /\ ReturnError(i)
     \/ Keep(i) /\ Continue(i, "backend")
  /\ UNCHANGED <<inputs, files, loaded, history>>

(***************************************************************************)
(* generate::action, called by run_build or by `catalyst generate`.        *)
(***************************************************************************)
\* It loads the configuration again; the features, hooks or sources may fail.
GenLoad(i) ==
  /\ pc[i] = "gen_load"
  /\ gen_config' = [gen_config EXCEPT ![i] = manifest]
  /\ Continue(i, "gen_begin") \/ Fail(i)
  /\ UNCHANGED <<inputs, files, args, config, gen_toolchain, gen_locals, drawn, history>>

\* The toolchain is resolved and generationState reads the local dependencies,
\* for the text that StateWrite writes.
ReadForRecord(i) ==
  /\ pc[i] = "gen_begin" /\ toolchain # Broken
  /\ gen_toolchain' = [gen_toolchain EXCEPT ![i] = toolchain]
  /\ gen_locals' = [gen_locals EXCEPT ![i] = local_manifests]
  /\ raced' = FALSE
  /\ Continue(i, "gen_render")
  /\ UNCHANGED <<inputs, build_file, toolchain_store, manifest_newer, args, config,
                 gen_config, drawn, disturbed>>

\* Mutant of GenBegin: the state file stays until it is overwritten.
GenBeginKeeping(i) == ReadForRecord(i) /\ UNCHANGED state_file

\* "Never treat a partially written build file as current after a failed
\* generation": the state file goes before anything is written.
GenBegin(i) == ReadForRecord(i) /\ state_file' = Absent

\* No toolchain, no obj directory or no state of a local dependency.
GenBeginFails(i) ==
  /\ pc[i] = "gen_begin"
  /\ Fail(i)
  /\ UNCHANGED <<inputs, files, loaded, history>>

\* writeVariables finds the local dependencies once more, for the text of the
\* build file, which is put together in memory and may fail to be.
GenRender(i) ==
  /\ pc[i] = "gen_render"
  /\ drawn' = [drawn EXCEPT ![i] = local_manifests]
  /\ Continue(i, "gen_write") \/ Fail(i)
  /\ UNCHANGED <<inputs, files, args, config, gen_config, gen_toolchain, gen_locals, history>>

Rendering(i) ==
  [config |-> gen_config[i], locals |-> drawn[i], features |-> args[i].features,
   toolchain |-> gen_toolchain[i]]

RecordedState(i) ==
  [config |-> gen_config[i], locals |-> gen_locals[i], features |-> args[i].features]

\* writeIfChanged leaves a build file alone that has the contents already ...
GenUnchanged(i) ==
  /\ pc[i] = "gen_write" /\ build_file[GenFile(i)] = Rendering(i)
  /\ Continue(i, "gen_post")
  /\ UNCHANGED <<inputs, files, loaded, history>>

\* ... and otherwise truncates and writes it.
GenWrite(i) ==
  /\ pc[i] = "gen_write" /\ build_file[GenFile(i)] # Rendering(i)
  /\ build_file' = [build_file EXCEPT ![GenFile(i)] = Rendering(i)]
  /\ manifest_newer' = FALSE
  /\ Continue(i, "gen_post")
  /\ UNCHANGED <<inputs, state_file, toolchain_store, loaded, history>>

\* profile_composition.yaml and the post-generate hook.
GenPost(i) ==
  /\ pc[i] = "gen_post"
  /\ RunHook(i, "store_write")
  /\ UNCHANGED <<inputs, files, loaded, history>>

StoreWrite(i) ==
  /\ pc[i] = "store_write"
  /\ toolchain_store' = [toolchain |-> gen_toolchain[i],
                         generator |-> GeneratorOf(i, gen_config[i])]
  /\ Continue(i, "state_write")
  /\ UNCHANGED <<inputs, build_file, state_file, manifest_newer, loaded, history>>

\* Mutant of StateWrite: only the mtime of the build file counts.
StateWriteUntimed(i) ==
  /\ pc[i] = "state_write"
  /\ state_file' = RecordedState(i)
  /\ IF Building(i) THEN Continue(i, "backend") ELSE ReturnOk(i)
  /\ UNCHANGED <<inputs, build_file, toolchain_store, manifest_newer, loaded, history>>

StateWrite(i) ==
  /\ pc[i] = "state_write"
  /\ state_file' = RecordedState(i)
  /\ manifest_newer' = FALSE
  /\ IF Building(i) THEN Continue(i, "backend") ELSE ReturnOk(i)
  /\ UNCHANGED <<inputs, build_file, toolchain_store, loaded, history>>

\* One of the three files cannot be opened.
WriteFails(i) ==
  /\ pc[i] \in {"gen_write", "store_write", "state_write"}
  /\ ReturnError(i)
  /\ UNCHANGED <<inputs, files, loaded, history>>

\* A file is truncated and not completed: writing fails or the process dies.
Tear(i) ==
  \/ /\ pc[i] = "gen_write" /\ build_file[GenFile(i)] # Rendering(i)
     /\ build_file' = [build_file EXCEPT ![GenFile(i)] = Partial]
     /\ manifest_newer' = FALSE
     /\ UNCHANGED <<state_file, toolchain_store>>
  \/ /\ pc[i] = "store_write"
     /\ toolchain_store' = Partial
     /\ UNCHANGED <<build_file, state_file, manifest_newer>>
  \/ /\ pc[i] = "state_write"
     /\ state_file' = Partial
     /\ manifest_newer' = FALSE
     /\ UNCHANGED <<build_file, toolchain_store>>

WriteTorn(i) ==
  /\ Tear(i)
  /\ \/ ReturnError(i) /\ UNCHANGED loaded
     \/ Die(i)
  /\ UNCHANGED <<inputs, history>>

(***************************************************************************)
(* The rest of run_build.                                                  *)
(***************************************************************************)
\* The backend runs the build file; `.value()` throws when it does not start.
Backend(i) ==
  /\ pc[i] = "backend"
  /\ Continue(i, "compdb") \/ ReturnError(i) \/ Throw(i)
  /\ UNCHANGED <<inputs, files, loaded, history>>

CompileCommands(i) ==
  /\ pc[i] = "compdb"
  /\ Continue(i, "post_build") \/ ReturnError(i)
  /\ UNCHANGED <<inputs, files, loaded, history>>

PostBuild(i) ==
  /\ pc[i] = "post_build"
  /\ ReturnOk(i) \/ ReturnError(i) \/ Throw(i)
  /\ UNCHANGED <<inputs, files, loaded, history>>

\* The destructor of BuildFailureGuard: an exception in it ends the process.
RunFailureHook(i) ==
  /\ pc[i] = "guard"
  /\ Goto(i, "done")
  /\ failure_hook' = [failure_hook EXCEPT ![i] = TRUE]
  /\ \E result \in {"failed", "terminated"} : outcome' = [outcome EXCEPT ![i] = result]
  /\ UNCHANGED <<inputs, files, loaded, history>>

(***************************************************************************)
(* The surroundings.                                                       *)
(***************************************************************************)
\* The process is killed between two writes; what it has written stays.
Crash(i) ==
  /\ pc[i] \notin {"idle", "done"}
  /\ Die(i)
  /\ UNCHANGED <<inputs, files, history>>

Disturb == disturbed' = [i \in Invocations |-> TRUE]

\* A manifest is edited; its mtime may equal that of a file written just now.
EditManifest ==
  /\ manifest' \in Configs
  /\ manifest_newer' \in {manifest_newer, TRUE}
  /\ Disturb
  /\ UNCHANGED <<local_manifests, toolchain, build_file, state_file, toolchain_store, pc,
                 loaded, ending, raced>>

\* A manifest of a local dependency gets other contents; run_build never
\* compares its mtime.
EditLocals ==
  /\ local_manifests' \in Locals \ {local_manifests}
  /\ Disturb
  /\ raced' = (raced \/ \E i \in Invocations : pc[i] = "gen_render")
  /\ UNCHANGED <<manifest, toolchain, files, pc, loaded, ending>>

EditToolchain ==
  /\ toolchain' \in (Toolchains \cup {Broken}) \ {toolchain}
  /\ Disturb
  /\ UNCHANGED <<manifest, local_manifests, files, pc, loaded, ending, raced>>

RunBuild(i) ==
  \/ Start(i) \/ PreBuild(i) \/ PreGenerate(i) \/ FetchDependencies(i) \/ Decide(i)
  \/ Backend(i) \/ CompileCommands(i) \/ PostBuild(i) \/ RunFailureHook(i)

Generate(i) ==
  \/ GenLoad(i) \/ GenBegin(i) \/ GenBeginFails(i) \/ GenRender(i) \/ GenUnchanged(i)
  \/ GenWrite(i) \/ GenPost(i) \/ StoreWrite(i) \/ StateWrite(i) \/ WriteFails(i) \/ WriteTorn(i)

Next ==
  \/ \E i \in Invocations : RunBuild(i) \/ Generate(i) \/ Crash(i)
  \/ EditManifest
  \/ EditLocals
  \/ EditToolchain

Spec == Init /\ [][Next]_vars

(***************************************************************************)
(* Properties.                                                             *)
(***************************************************************************)
\* Every variable has its type.
TypeOK ==
  /\ manifest \in Configs
  /\ local_manifests \in Locals
  /\ toolchain \in Toolchains \cup {Broken}
  /\ build_file \in [BuildFiles -> Rendered \cup {Absent, Partial}]
  /\ state_file \in State \cup {Absent, Partial}
  /\ toolchain_store \in Store \cup {Absent, Partial}
  /\ manifest_newer \in BOOLEAN
  /\ pc \in [Invocations -> Steps]
  /\ args \in [Invocations -> Arguments]
  /\ config \in [Invocations -> Configs]
  /\ gen_config \in [Invocations -> Configs]
  /\ gen_toolchain \in [Invocations -> Toolchains \cup {Broken}]
  /\ gen_locals \in [Invocations -> Locals \cup {Unread}]
  /\ drawn \in [Invocations -> Locals \cup {Unread}]
  /\ outcome \in [Invocations -> Outcomes]
  /\ failure_hook \in [Invocations -> BOOLEAN]
  /\ disturbed \in [Invocations -> BOOLEAN]
  /\ raced \in BOOLEAN

\* The complete records on disk.
Recorded == state_file \in State /\ toolchain_store \in Store

\* The two records, written one after the other, never describe a build file
\* other than the one on disk: not after a crash between any two writes, nor
\* when builds with different generators, features or manifests alternate. As
\* to the local dependencies this has one exception: an edit between the two
\* readings of them by the generation that wrote the records.
RecordIsTrue ==
  Recorded =>
    LET file == build_file[buildFilename(toolchain_store.generator)]
    IN
      /\ file \in Rendered
      /\ file.config = state_file.config /\ file.features = state_file.features
      /\ file.toolchain = toolchain_store.toolchain
      /\ raced \/ file.locals = state_file.locals

\* "Never treat a partially written build file as current after a failed
\* generation" (generate::action).
PartialNeverCurrent ==
  Recorded => build_file[buildFilename(toolchain_store.generator)] # Partial

\* What the backend is run on was rendered from the configuration, features
\* and toolchain that hold now, unless they were edited while the build ran:
\* whatever older builds left behind, the skipped regeneration is never wrong.
\* The local dependencies are those that hold now too, unless the generation
\* that wrote the file read them twice with an edit in between.
FreshWhenBuilt ==
  \A i \in Invocations : pc[i] = "backend" /\ ~disturbed[i] =>
    LET file == build_file[BuildFile(i)]
    IN
      /\ file \in Rendered
      /\ file.config = manifest /\ file.features = args[i].features
      /\ file.toolchain = toolchain
      /\ raced \/ file.locals = local_manifests

\* "Every build checks local dependencies incrementally ... Changes to their
\* composed manifests or feature overrides invalidate the consumer's generated
\* configuration": a build during which nothing is edited never runs the
\* backend on a file made from other manifests of its local dependencies.
LocalsAreFresh ==
  \A i \in Invocations : pc[i] = "backend" /\ ~disturbed[i] =>
    /\ build_file[BuildFile(i)] \in Rendered
    /\ build_file[BuildFile(i)].locals = local_manifests

\* A build that succeeded leaves the directory so that the same build, with
\* nothing edited since, renders nothing again.
Converges ==
  \A i \in Invocations :
    pc[i] = "done" /\ outcome[i] = "ok" /\ Building(i) /\ ~disturbed[i] => Keep(i)

\* The on-build-failure hook "Runs if the build fails at any stage".
FailureHookRuns ==
  \A i \in Invocations :
    pc[i] = "done" /\ Building(i) /\ outcome[i] # "ok" => failure_hook[i]
=============================================================================
