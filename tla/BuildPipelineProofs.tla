------------------------ MODULE BuildPipelineProofs ------------------------
(***************************************************************************)
(* Proofs about BuildPipeline, for any configurations, features,           *)
(* toolchains and generators, and any sequence of builds, generations,     *)
(* edits, failures and crashes in one build directory, one process at a    *)
(* time.                                                                   *)
(***************************************************************************)
EXTENDS BuildPipeline, TLAPS

\* One process at a time works in the build directory.
OneInvocation == \A i, j \in Invocations : i = j

\* The steps of generate::action from the removal of the state file on.
GenPhase == {"gen_render", "gen_write", "gen_post", "store_write", "state_write"}

\* The steps of run_build from the backend on.
BuildPhase == {"backend", "compdb", "post_build"}

\* In these steps there is a toolchain to render from, and the local dependencies
\* have been read for the state file, then for the build file.
InputsRead ==
  \A i \in Invocations : pc[i] \in GenPhase =>
    /\ gen_toolchain[i] \in Toolchains /\ gen_locals[i] \in Locals
    /\ pc[i] # "gen_render" => drawn[i] \in Locals

TypeInv == TypeOK /\ InputsRead

\* The state file is gone until generate::action writes it as its last file.
Unrecorded == \A i \in Invocations : pc[i] \in GenPhase => state_file = Absent

\* What generate::action has written before the state file.
Written ==
  \A i \in Invocations :
    /\ pc[i] \in GenPhase \ {"gen_render", "gen_write"} => build_file[GenFile(i)] = Rendering(i)
    /\ pc[i] = "state_write" =>
         toolchain_store = [toolchain |-> gen_toolchain[i],
                            generator |-> GeneratorOf(i, gen_config[i])]

\* What was read for the state file is what is drawn into the build file, until
\* an edit comes between the two readings.
ReadAlike ==
  \A i \in Invocations : ~raced =>
    /\ pc[i] = "gen_render" => gen_locals[i] = local_manifests
    /\ pc[i] \in GenPhase \ {"gen_render"} => gen_locals[i] = drawn[i]

\* An undisturbed process works with the inputs that hold now ...
InputsHeld ==
  \A i \in Invocations : pc[i] # "idle" /\ ~disturbed[i] =>
    /\ config[i] = manifest
    /\ gen_config[i] = manifest
    /\ pc[i] \in GenPhase => gen_toolchain[i] = toolchain /\ gen_locals[i] = local_manifests

\* ... and from the backend on the directory is up to date for it.
KeptAfterwards ==
  \A i \in Invocations : pc[i] \in BuildPhase /\ ~disturbed[i] => Keep(i)

CoreInv ==
  /\ Unrecorded /\ Written /\ ReadAlike
  /\ InputsHeld /\ KeptAfterwards /\ RecordIsTrue /\ Converges

BuildInv == TypeInv /\ CoreInv

(***************************************************************************)
(* Steps that change nothing but the control variables.                    *)
(***************************************************************************)
\* Process i moves to step s with outcome o and changes no file, input or
\* local; the conditions say what such a step brings with it.
Quiet(i, s, o, h) ==
  /\ UNCHANGED <<inputs, files, loaded, history>>
  /\ pc' = [pc EXCEPT ![i] = s]
  /\ outcome' = [outcome EXCEPT ![i] = o]
  /\ failure_hook' = [failure_hook EXCEPT ![i] = h]
  /\ pc[i] = "idle" => s = "idle"
  /\ s \notin {"gen_render", "gen_write", "state_write"}
  /\ s \in GenPhase => pc[i] \in GenPhase \ {"gen_render"}
  /\ s \in GenPhase /\ pc[i] = "gen_write" => build_file[GenFile(i)] = Rendering(i)
  /\ s \in BuildPhase => pc[i] \in BuildPhase \/ (pc[i] = "decide" /\ Keep(i))
  /\ s = "done" /\ o = "ok" => pc[i] = "post_build"

QuietStep(i) ==
  \E s \in Steps, o \in Outcomes, h \in BOOLEAN : Quiet(i, s, o, h)

QuietAction(i) ==
  \/ PreBuild(i) \/ PreGenerate(i) \/ FetchDependencies(i) \/ Decide(i) \/ Backend(i)
  \/ CompileCommands(i) \/ PostBuild(i) \/ RunFailureHook(i)
  \/ GenBeginFails(i) \/ GenUnchanged(i) \/ GenPost(i) \/ WriteFails(i)

LEMMA QuietContinue ==
  ASSUME TypeOK, NEW i \in Invocations, NEW s \in Steps,
         UNCHANGED <<inputs, files, loaded, history>>,
         Continue(i, s), pc[i] # "idle",
         s \notin {"gen_render", "gen_write", "state_write", "done"},
         s \in GenPhase => pc[i] \in GenPhase \ {"gen_render"},
         s \in GenPhase /\ pc[i] = "gen_write" => build_file[GenFile(i)] = Rendering(i),
         s \in BuildPhase => pc[i] \in BuildPhase \/ (pc[i] = "decide" /\ Keep(i))
  PROVE  QuietStep(i)
<1>1. outcome[i] \in Outcomes /\ failure_hook[i] \in BOOLEAN
  BY DEF TypeOK
<1>2. /\ pc' = [pc EXCEPT ![i] = s]
      /\ outcome' = [outcome EXCEPT ![i] = outcome[i]]
      /\ failure_hook' = [failure_hook EXCEPT ![i] = failure_hook[i]]
  BY DEF TypeOK, Continue, Goto, ending
<1>3. Quiet(i, s, outcome[i], failure_hook[i])
  BY <1>2 DEF Quiet
<1> QED BY <1>1, <1>3 DEF QuietStep

LEMMA QuietEnd ==
  ASSUME TypeOK, NEW i \in Invocations,
         UNCHANGED <<inputs, files, loaded, history>>, pc[i] # "idle",
         ReturnError(i) \/ Throw(i) \/ (ReturnOk(i) /\ pc[i] = "post_build")
  PROVE  QuietStep(i)
<1>1. failure_hook[i] \in BOOLEAN
  BY DEF TypeOK
<1>2. PICK s \in {"guard", "done"}, o \in {"ok", "failed", "threw"} :
        /\ pc' = [pc EXCEPT ![i] = s]
        /\ outcome' = [outcome EXCEPT ![i] = o]
        /\ s = "done" /\ o = "ok" => pc[i] = "post_build"
  BY DEF ReturnError, Throw, ReturnOk, Goto
<1>3. failure_hook' = [failure_hook EXCEPT ![i] = failure_hook[i]]
  BY DEF TypeOK, ReturnError, Throw, ReturnOk
<1>4. Quiet(i, s, o, failure_hook[i])
  BY <1>2, <1>3 DEF Quiet, GenPhase, BuildPhase
<1>5. s \in Steps /\ o \in Outcomes
  BY DEF Steps, Outcomes
<1> QED BY <1>1, <1>4, <1>5 DEF QuietStep

LEMMA QuietActions ==
  ASSUME TypeOK, NEW i \in Invocations, QuietAction(i)
  PROVE  QuietStep(i)
<1> USE DEF RunHook, Fail, GenPhase, BuildPhase
<1>0. {"pre_generate", "fetch", "decide", "gen_load", "backend", "compdb", "post_build",
       "gen_post", "store_write"} \subseteq Steps
  BY DEF Steps
<1>1. CASE PreBuild(i)
  BY <1>0, <1>1, QuietContinue, QuietEnd DEF PreBuild
<1>2. CASE PreGenerate(i)
  BY <1>0, <1>2, QuietContinue, QuietEnd DEF PreGenerate
<1>3. CASE FetchDependencies(i)
  BY <1>0, <1>3, QuietContinue, QuietEnd DEF FetchDependencies
<1>4. CASE Decide(i)
  <2>1. CASE Keep(i) /\ Continue(i, "backend")
    BY <1>0, <1>4, <2>1, QuietContinue DEF Decide
  <2>2. CASE Continue(i, "gen_load")
    BY <1>0, <1>4, <2>2, QuietContinue DEF Decide
  <2>3. CASE ReturnError(i) \/ Throw(i)
    BY <1>4, <2>3, QuietEnd DEF Decide
  <2> QED BY <1>4, <2>1, <2>2, <2>3 DEF Decide
<1>5. CASE Backend(i)
  BY <1>0, <1>5, QuietContinue, QuietEnd DEF Backend
<1>6. CASE CompileCommands(i)
  BY <1>0, <1>6, QuietContinue, QuietEnd DEF CompileCommands
<1>7. CASE PostBuild(i)
  BY <1>7, QuietEnd DEF PostBuild
<1>8. CASE RunFailureHook(i)
  <2>1. PICK o \in {"failed", "terminated"} : Quiet(i, "done", o, TRUE)
    BY <1>8 DEF RunFailureHook, Quiet, Goto
  <2> QED BY <2>1 DEF QuietStep, Steps, Outcomes
<1>9. CASE GenBeginFails(i)
  BY <1>9, QuietEnd DEF GenBeginFails
<1>10. CASE GenUnchanged(i)
  BY <1>0, <1>10, QuietContinue DEF GenUnchanged
<1>11. CASE GenPost(i)
  BY <1>0, <1>11, QuietContinue, QuietEnd DEF GenPost
<1>12. CASE WriteFails(i)
  BY <1>12, QuietEnd DEF WriteFails
<1> QED BY <1>1, <1>2, <1>3, <1>4, <1>5, <1>6, <1>7, <1>8, <1>9, <1>10, <1>11, <1>12
        DEF QuietAction

(***************************************************************************)
(* Type correctness.                                                       *)
(***************************************************************************)
LEMMA FileTypes ==
  ASSUME TypeOK, NEW i \in Invocations
  PROVE  /\ args[i].features \in Features
         /\ BuildFile(i) \in BuildFiles /\ GenFile(i) \in BuildFiles
         /\ GeneratorOf(i, gen_config[i]) \in Generators
         /\ GeneratorOf(i, config[i]) \in Generators
<1>1. /\ args[i].backend \in Generators \cup {NoBackend}
      /\ args[i].features \in Features
      /\ config[i] \in Configs /\ gen_config[i] \in Configs
  BY DEF TypeOK, Arguments
<1>2. \A c \in Configs : GeneratorOf(i, c) \in Generators
  BY <1>1, ConstantsAssumption DEF GeneratorOf
<1> QED BY <1>1, <1>2 DEF BuildFile, GenFile, BuildFiles

LEMMA TypeInit == Init => TypeInv
<1> SUFFICES ASSUME Init PROVE TypeInv
  OBVIOUS
<1>1. TypeOK
  BY DEF Init, TypeOK, Steps, Outcomes
<1>2. InputsRead
  BY DEF Init, InputsRead, GenPhase
<1> QED BY <1>1, <1>2 DEF TypeInv

LEMMA QuietType ==
  ASSUME TypeInv, NEW i \in Invocations, QuietStep(i)
  PROVE  TypeInv'
<1>1. PICK s \in Steps, o \in Outcomes, h \in BOOLEAN : Quiet(i, s, o, h)
  BY DEF QuietStep
<1>2. TypeOK'
  BY <1>1 DEF Quiet, TypeInv, TypeOK, inputs, files, loaded, history
<1>3. InputsRead'
  BY <1>1 DEF Quiet, TypeInv, TypeOK, InputsRead, loaded
<1> QED BY <1>2, <1>3 DEF TypeInv

\* How a step of generate::action that writes can go on.
LEMMA ControlTypes ==
  ASSUME TypeOK, NEW i \in Invocations, NEW s \in Steps,
         Continue(i, s) \/ ReturnError(i) \/ Throw(i) \/ ReturnOk(i)
  PROVE  /\ pc' \in [Invocations -> Steps]
         /\ outcome' \in [Invocations -> Outcomes]
         /\ failure_hook' \in [Invocations -> BOOLEAN]
BY DEF TypeOK, Continue, ReturnError, Throw, ReturnOk, Goto, ending, Steps, Outcomes

\* The actions that change a file, an input or a local.
WritingAction(i) ==
  \/ Start(i) \/ GenLoad(i) \/ GenBegin(i) \/ GenRender(i) \/ GenWrite(i) \/ StoreWrite(i)
  \/ StateWrite(i) \/ WriteTorn(i) \/ Crash(i)

LEMMA ActionsSplit ==
  ASSUME Next
  PROVE  \/ \E i \in Invocations : QuietAction(i) \/ WritingAction(i)
         \/ EditManifest \/ EditLocals \/ EditToolchain
BY DEF Next, RunBuild, Generate, QuietAction, WritingAction

\* A process that dies leaves well-typed variables, whatever files it leaves.
LEMMA DyingType ==
  ASSUME TypeInv, NEW i \in Invocations, Die(i), UNCHANGED <<inputs, history>>,
         build_file' \in [BuildFiles -> Rendered \cup {Absent, Partial}],
         state_file' \in State \cup {Absent, Partial},
         toolchain_store' \in Store \cup {Absent, Partial}, manifest_newer' \in BOOLEAN
  PROVE  TypeInv'
<1>1. TypeOK'
  BY DEF TypeInv, TypeOK, Die, Goto, Steps, Outcomes, inputs, history
<1>2. InputsRead'
  BY DEF TypeInv, TypeOK, InputsRead, Die, Goto, GenPhase
<1> QED BY <1>1, <1>2 DEF TypeInv

LEMMA WritingType ==
  ASSUME TypeInv, NEW i \in Invocations, WritingAction(i)
  PROVE  TypeInv'
<1> USE DEF TypeInv
<1>0. {"pre_build", "gen_load", "gen_begin", "gen_render", "gen_write", "gen_post", "state_write",
       "backend"} \subseteq Steps
  BY DEF Steps
<1> DEFINE ControlTyped == /\ pc' \in [Invocations -> Steps]
                           /\ outcome' \in [Invocations -> Outcomes]
                           /\ failure_hook' \in [Invocations -> BOOLEAN]
<1>1. CASE Start(i)
  <2>1. PICK a \in Arguments :
          /\ args' = [args EXCEPT ![i] = a]
          /\ Goto(i, IF a.command = "build" THEN "pre_build" ELSE "gen_load")
    BY <1>1 DEF Start
  <2>2. TypeOK'
    BY <1>0, <1>1, <2>1 DEF Start, TypeOK, Goto, inputs, files, Outcomes
  <2>3. InputsRead'
    BY <1>1, <2>1 DEF Start, TypeOK, InputsRead, Goto, GenPhase
  <2> QED BY <2>2, <2>3
<1>2. CASE GenLoad(i)
  <2>1. ControlTyped
    BY <1>0, <1>2, ControlTypes DEF GenLoad, Fail
  <2>2. TypeOK'
    BY <1>2, <2>1 DEF GenLoad, TypeOK, inputs, files, history
  <2>3. InputsRead'
    BY <1>2 DEF GenLoad, TypeOK, InputsRead, GenPhase, Continue, Fail, ReturnError,
                Throw, Goto
  <2> QED BY <2>2, <2>3
<1>3. CASE GenBegin(i)
  <2>1. ControlTyped
    BY <1>0, <1>3, ControlTypes DEF GenBegin, ReadForRecord
  <2>2. TypeOK'
    BY <1>3, <2>1 DEF GenBegin, ReadForRecord, TypeOK, inputs
  <2>3. InputsRead'
    BY <1>3 DEF GenBegin, ReadForRecord, TypeOK, InputsRead, GenPhase, Continue, Goto
  <2> QED BY <2>2, <2>3
<1>8. CASE GenRender(i)
  <2>1. ControlTyped
    BY <1>0, <1>8, ControlTypes DEF GenRender, Fail
  <2>2. TypeOK'
    BY <1>8, <2>1 DEF GenRender, TypeOK, inputs, files, history
  <2>3. InputsRead'
    BY <1>8 DEF GenRender, TypeOK, InputsRead, GenPhase, Continue, Fail, ReturnError,
                Throw, Goto
  <2> QED BY <2>2, <2>3
<1>4. CASE GenWrite(i)
  <2>1. ControlTyped
    BY <1>0, <1>4, ControlTypes DEF GenWrite
  <2>2. Rendering(i) \in Rendered
    BY <1>4, FileTypes DEF GenWrite, TypeOK, InputsRead, GenPhase, Rendering, Rendered
  <2>3. TypeOK'
    BY <1>4, <2>1, <2>2 DEF GenWrite, TypeOK, inputs, loaded, history
  <2>4. InputsRead'
    BY <1>4 DEF GenWrite, TypeOK, InputsRead, GenPhase, Continue, Goto, loaded
  <2> QED BY <2>3, <2>4
<1>5. CASE StoreWrite(i)
  <2>1. ControlTyped
    BY <1>0, <1>5, ControlTypes DEF StoreWrite
  <2>2. toolchain_store' \in Store
    BY <1>5, FileTypes DEF StoreWrite, TypeOK, InputsRead, GenPhase, Store
  <2>3. TypeOK'
    BY <1>5, <2>1, <2>2 DEF StoreWrite, TypeOK, inputs, loaded, history
  <2>4. InputsRead'
    BY <1>5 DEF StoreWrite, TypeOK, InputsRead, GenPhase, Continue, Goto, loaded
  <2> QED BY <2>3, <2>4
<1>6. CASE StateWrite(i)
  <2>1. ControlTyped
    BY <1>0, <1>6, ControlTypes DEF StateWrite
  <2>2. state_file' \in State
    BY <1>6, FileTypes DEF StateWrite, RecordedState, TypeOK, State, InputsRead, GenPhase
  <2>3. TypeOK'
    BY <1>6, <2>1, <2>2 DEF StateWrite, TypeOK, inputs, loaded, history
  <2>4. InputsRead'
    BY <1>6 DEF StateWrite, TypeOK, InputsRead, GenPhase, Continue, ReturnOk, Goto, loaded
  <2> QED BY <2>3, <2>4
<1>7. CASE WriteTorn(i)
  <2>1. /\ build_file' \in [BuildFiles -> Rendered \cup {Absent, Partial}]
        /\ state_file' \in State \cup {Absent, Partial}
        /\ toolchain_store' \in Store \cup {Absent, Partial}
        /\ manifest_newer' \in BOOLEAN /\ UNCHANGED <<inputs, history>>
    BY <1>7 DEF WriteTorn, Tear, TypeOK
  <2>2. CASE ReturnError(i) /\ UNCHANGED loaded
    <3>1. ControlTyped
      BY <2>2, ControlTypes, <1>0
    <3>2. TypeOK' /\ InputsRead'
      BY <2>1, <2>2, <3>1 DEF TypeOK, InputsRead, GenPhase, ReturnError, Goto, inputs, loaded,
                              history
    <3> QED BY <3>2
  <2>3. CASE Die(i)
    BY <2>1, <2>3, DyingType
  <2> QED BY <1>7, <2>2, <2>3 DEF WriteTorn
<1>9. CASE Crash(i)
  BY <1>9, DyingType DEF Crash, TypeOK, files
<1> QED BY <1>1, <1>2, <1>3, <1>4, <1>5, <1>6, <1>7, <1>8, <1>9 DEF WritingAction

LEMMA EditType ==
  ASSUME TypeInv, EditManifest \/ EditLocals \/ EditToolchain
  PROVE  TypeInv'
<1>1. TypeOK'
  BY DEF TypeInv, TypeOK, EditManifest, EditLocals, EditToolchain, Disturb, files, loaded, ending
<1>2. InputsRead'
  BY DEF TypeInv, InputsRead, EditManifest, EditLocals, EditToolchain, loaded
<1> QED BY <1>1, <1>2 DEF TypeInv

LEMMA TypeStep == TypeInv /\ [Next]_vars => TypeInv'
<1> SUFFICES ASSUME TypeInv, [Next]_vars PROVE TypeInv'
  OBVIOUS
<1>1. CASE UNCHANGED vars
  BY <1>1 DEF TypeInv, TypeOK, InputsRead, vars, inputs, files, loaded, ending, history
<1>2. CASE Next
  <2>1. ASSUME NEW i \in Invocations, QuietAction(i) PROVE TypeInv'
    BY <2>1, QuietActions, QuietType DEF TypeInv
  <2>2. ASSUME NEW i \in Invocations, WritingAction(i) PROVE TypeInv'
    BY <2>2, WritingType
  <2>3. CASE EditManifest \/ EditLocals \/ EditToolchain
    BY <2>3, EditType
  <2> QED BY <1>2, <2>1, <2>2, <2>3, ActionsSplit
<1> QED BY <1>1, <1>2

\* Every variable keeps its type however many processes work in the directory,
\* and generate::action never renders from what it could not resolve or read.
THEOREM TypeCorrect == Spec => []TypeOK
<1>1. TypeInv => TypeOK
  BY DEF TypeInv
<1> QED BY TypeInit, TypeStep, <1>1, PTL DEF Spec

(***************************************************************************)
(* The records.                                                            *)
(***************************************************************************)
LEMMA CoreInit == Init => CoreInv
<1> SUFFICES ASSUME Init PROVE CoreInv
  OBVIOUS
<1>1. state_file \notin State
  BY ConstantsAssumption DEF Init
<1> QED BY <1>1 DEF Init, CoreInv, Unrecorded, Written, InputsHeld, KeptAfterwards,
                    RecordIsTrue, Recorded, Converges, ReadAlike, GenPhase,
                    BuildPhase

\* What a process compares depends on files, inputs and its loaded alone.
LEMMA SameView ==
  ASSUME NEW i \in Invocations, UNCHANGED <<inputs, files, loaded, raced>>
  PROVE  /\ Keep(i)' = Keep(i)
         /\ Rendering(i)' = Rendering(i) /\ GenFile(i)' = GenFile(i)
         /\ GeneratorOf(i, gen_config[i])' = GeneratorOf(i, gen_config[i])
         /\ RecordIsTrue' = RecordIsTrue
BY DEF Keep, BuildFile, GenFile, GeneratorOf, StateMatches, StoreMatches, Rendering,
       RecordIsTrue, Recorded, inputs, files, loaded

LEMMA QuietCore ==
  ASSUME OneInvocation, BuildInv, NEW i \in Invocations, QuietStep(i)
  PROVE  CoreInv'
<1> USE DEF BuildInv, CoreInv
<1>1. PICK s \in Steps, o \in Outcomes, h \in BOOLEAN : Quiet(i, s, o, h)
  BY DEF QuietStep
<1>2. /\ \A j \in Invocations : j = i
      /\ pc'[i] = s /\ outcome'[i] = o
      /\ disturbed' = disturbed
      /\ UNCHANGED <<inputs, files, loaded, raced>>
  BY <1>1 DEF Quiet, OneInvocation, TypeInv, TypeOK, history
<1>3. /\ Keep(i)' = Keep(i)
      /\ Rendering(i)' = Rendering(i) /\ GenFile(i)' = GenFile(i)
      /\ GeneratorOf(i, gen_config[i])' = GeneratorOf(i, gen_config[i])
      /\ RecordIsTrue' = RecordIsTrue
  BY <1>2, SameView
<1>4. Unrecorded'
  BY <1>1, <1>2 DEF Unrecorded, Quiet, files
<1>5. Written'
  BY <1>1, <1>2, <1>3 DEF Written, Quiet, files, loaded, GenPhase
<1>6. InputsHeld'
  BY <1>1, <1>2 DEF InputsHeld, Quiet, inputs, loaded
<1>10. ReadAlike'
  BY <1>1, <1>2 DEF ReadAlike, Quiet, inputs, loaded, GenPhase
<1>7. KeptAfterwards'
  BY <1>1, <1>2, <1>3 DEF KeptAfterwards, Quiet, loaded, Building, BuildPhase
<1>8. RecordIsTrue'
  BY <1>3
<1>9. Converges'
  BY <1>1, <1>2, <1>3 DEF Converges, KeptAfterwards, BuildPhase, Quiet, loaded, Building
<1> QED BY <1>4, <1>5, <1>6, <1>7, <1>8, <1>9, <1>10

\* A complete rendering is not a missing or a torn file.
LEMMA Complete ==
  ASSUME TypeInv, NEW i \in Invocations, pc[i] \in GenPhase \ {"gen_render"}
  PROVE  Rendering(i) \in Rendered /\ Rendering(i) \notin {Absent, Partial}
<1>1. Rendering(i) \in Rendered
  BY FileTypes DEF TypeInv, TypeOK, InputsRead, Rendering, Rendered
<1> QED BY <1>1, ConstantsAssumption

LEMMA WritingCore ==
  ASSUME OneInvocation, BuildInv, NEW i \in Invocations, WritingAction(i)
  PROVE  CoreInv'
<1> USE DEF BuildInv, CoreInv
<1>0. /\ \A j \in Invocations : j = i
      /\ pc \in [Invocations -> Steps] /\ outcome \in [Invocations -> Outcomes]
  BY DEF OneInvocation, TypeInv, TypeOK
<1>1. CASE Start(i)
  <2>1. /\ pc'[i] \in {"pre_build", "gen_load"}
        /\ config'[i] = manifest' /\ gen_config'[i] = manifest'
    BY <1>1 DEF Start, Goto, TypeInv, TypeOK, inputs
  <2>2. Unrecorded' /\ Written' /\ InputsHeld' /\ KeptAfterwards' /\ Converges'
    BY <1>0, <2>1 DEF Unrecorded, Written, InputsHeld, KeptAfterwards, Converges, GenPhase,
                      BuildPhase
  <2>3. RecordIsTrue'
    BY <1>1 DEF Start, RecordIsTrue, Recorded, files
  <2>4. ReadAlike'
    BY <1>0, <2>1 DEF ReadAlike, GenPhase
  <2> QED BY <2>2, <2>3, <2>4
<1>2. CASE GenLoad(i)
  <2>1. /\ pc'[i] \in {"gen_begin", "guard", "done"}
        /\ pc'[i] = "done" => outcome'[i] # "ok"
        /\ gen_config'[i] = manifest' /\ manifest' = manifest
    BY <1>0, <1>2 DEF GenLoad, Continue, Fail, ReturnError, Throw, Goto, TypeInv, TypeOK, inputs
  <2>2. Unrecorded' /\ Written' /\ KeptAfterwards' /\ Converges'
    BY <1>0, <2>1 DEF Unrecorded, Written, KeptAfterwards, Converges, GenPhase, BuildPhase
  <2>3. InputsHeld'
    BY <1>0, <1>2, <2>1 DEF InputsHeld, GenLoad, GenPhase, history
  <2>4. RecordIsTrue'
    BY <1>2 DEF GenLoad, RecordIsTrue, Recorded, files, history
  <2>5. ReadAlike'
    BY <1>0, <2>1 DEF ReadAlike, GenPhase
  <2> QED BY <2>2, <2>3, <2>4, <2>5
<1>3. CASE GenBegin(i)
  <2>1. /\ pc'[i] = "gen_render" /\ state_file' = Absent
        /\ gen_toolchain'[i] = toolchain /\ gen_locals'[i] = local_manifests
        /\ toolchain' = toolchain /\ local_manifests' = local_manifests
    BY <1>0, <1>3 DEF GenBegin, ReadForRecord, Continue, Goto, TypeInv, TypeOK, inputs
  <2>2. Unrecorded' /\ Written' /\ KeptAfterwards' /\ Converges'
    BY <1>0, <2>1 DEF Unrecorded, Written, KeptAfterwards, Converges, GenPhase, BuildPhase
  <2>3. InputsHeld'
    BY <1>0, <1>3, <2>1 DEF InputsHeld, GenBegin, ReadForRecord, inputs
  <2>4. RecordIsTrue'
    BY <2>1, ConstantsAssumption DEF RecordIsTrue, Recorded
  <2>5. ReadAlike'
    BY <1>0, <2>1 DEF ReadAlike, GenPhase
  <2> QED BY <2>2, <2>3, <2>4, <2>5
<1>8. CASE GenRender(i)
  <2>1. /\ pc'[i] \in {"gen_write", "guard", "done"}
        /\ pc'[i] = "done" => outcome'[i] # "ok"
        /\ drawn'[i] = local_manifests /\ UNCHANGED <<inputs, files, history>>
        /\ UNCHANGED <<config, gen_config, gen_toolchain, gen_locals>>
        /\ state_file = Absent
    BY <1>0, <1>8 DEF GenRender, Continue, Fail, ReturnError, Throw, Goto, TypeInv, TypeOK,
                      Unrecorded, GenPhase
  <2>2. Unrecorded' /\ Written' /\ KeptAfterwards' /\ Converges'
    BY <1>0, <2>1 DEF Unrecorded, Written, KeptAfterwards, Converges, GenPhase, BuildPhase,
                      files
  <2>3. InputsHeld'
    BY <1>0, <1>8, <2>1 DEF GenRender, InputsHeld, GenPhase, inputs, history
  <2>4. RecordIsTrue'
    BY <2>1, ConstantsAssumption DEF RecordIsTrue, Recorded, files
  <2>5. ReadAlike'
    BY <1>0, <1>8, <2>1 DEF GenRender, ReadAlike, GenPhase, history
  <2> QED BY <2>2, <2>3, <2>4, <2>5
<1>4. CASE GenWrite(i)
  <2>1. /\ pc'[i] = "gen_post" /\ state_file' = state_file /\ state_file = Absent
        /\ UNCHANGED <<loaded, inputs, history>>
    BY <1>0, <1>4 DEF GenWrite, Continue, Goto, Unrecorded, GenPhase
  <2>2. /\ build_file'[GenFile(i)] = Rendering(i)
        /\ GenFile(i)' = GenFile(i) /\ Rendering(i)' = Rendering(i)
    BY <1>4, <2>1, FileTypes DEF GenWrite, TypeInv, TypeOK, GenFile, GeneratorOf, Rendering,
                                 loaded
  <2>3. Unrecorded' /\ KeptAfterwards' /\ Converges'
    BY <1>0, <2>1 DEF Unrecorded, KeptAfterwards, Converges, GenPhase, BuildPhase
  <2>4. Written'
    BY <1>0, <2>1, <2>2 DEF Written
  <2>5. InputsHeld'
    BY <1>0, <1>4, <2>1 DEF GenWrite, InputsHeld, GenPhase, inputs, loaded, history
  <2>6. RecordIsTrue'
    BY <2>1, ConstantsAssumption DEF RecordIsTrue, Recorded
  <2>7. ReadAlike'
    BY <1>0, <2>1, <1>4 DEF GenWrite, ReadAlike, GenPhase, loaded, history
  <2> QED BY <2>3, <2>4, <2>5, <2>6, <2>7
<1>5. CASE StoreWrite(i)
  <2>1. /\ pc'[i] = "state_write" /\ state_file' = state_file /\ state_file = Absent
        /\ build_file' = build_file
        /\ UNCHANGED <<loaded, inputs, history>>
    BY <1>0, <1>5 DEF StoreWrite, Continue, Goto, Unrecorded, GenPhase
  <2>2. /\ GenFile(i)' = GenFile(i) /\ Rendering(i)' = Rendering(i)
        /\ toolchain_store' = [toolchain |-> gen_toolchain[i],
                               generator |-> GeneratorOf(i, gen_config[i])]'
    BY <1>5, <2>1 DEF StoreWrite, GenFile, GeneratorOf, Rendering, loaded
  <2>3. Unrecorded' /\ KeptAfterwards' /\ Converges'
    BY <1>0, <2>1 DEF Unrecorded, KeptAfterwards, Converges, GenPhase, BuildPhase
  <2>4. Written'
    BY <1>0, <1>5, <2>1, <2>2 DEF StoreWrite, Written, GenPhase
  <2>5. InputsHeld'
    BY <1>0, <1>5, <2>1 DEF StoreWrite, InputsHeld, GenPhase, inputs, loaded, history
  <2>6. RecordIsTrue'
    BY <2>1, ConstantsAssumption DEF RecordIsTrue, Recorded
  <2>7. ReadAlike'
    BY <1>0, <2>1, <1>5 DEF StoreWrite, ReadAlike, GenPhase, loaded, history
  <2> QED BY <2>3, <2>4, <2>5, <2>6, <2>7
<1>6. CASE StateWrite(i)
  <2>1. /\ pc'[i] \in {"backend", "done"}
        /\ pc'[i] = "done" => ~Building(i)
        /\ state_file' = RecordedState(i)
        /\ manifest_newer' = FALSE
        /\ UNCHANGED <<build_file, toolchain_store, loaded, inputs, history>>
    BY <1>0, <1>6 DEF StateWrite, Continue, ReturnOk, Goto
  <2>2. /\ build_file[GenFile(i)] = Rendering(i)
        /\ toolchain_store = [toolchain |-> gen_toolchain[i],
                              generator |-> GeneratorOf(i, gen_config[i])]
        /\ Rendering(i) # Absent /\ Rendering(i) \in Rendered
    BY <1>6, Complete DEF StateWrite, Written, GenPhase
  <2>3. ~disturbed[i] => Keep(i)'
    <3>1. SUFFICES ASSUME ~disturbed[i] PROVE Keep(i)'
      OBVIOUS
    <3>2. /\ config[i] = gen_config[i] /\ gen_toolchain[i] = toolchain
          /\ gen_locals[i] = local_manifests
      BY <1>6, <3>1 DEF StateWrite, InputsHeld, GenPhase
    <3> QED BY <2>1, <2>2, <3>2 DEF Keep, StateMatches, RecordedState, StoreMatches, BuildFile, GenFile,
                                    GeneratorOf, loaded, inputs
  <2>4. Unrecorded' /\ Written'
    BY <1>0, <2>1 DEF Unrecorded, Written, GenPhase
  <2>5. KeptAfterwards'
    BY <1>0, <2>1, <2>3 DEF KeptAfterwards, BuildPhase, history
  <2>6. Converges'
    BY <1>0, <2>1 DEF Converges, Building, loaded, history
  <2>7. InputsHeld'
    BY <1>0, <1>6, <2>1 DEF StateWrite, InputsHeld, GenPhase, inputs, loaded, history
  <2>8. RecordIsTrue'
    <3>1. ~raced => gen_locals[i] = drawn[i]
      BY <1>6 DEF StateWrite, ReadAlike, GenPhase
    <3>2. build_file'[buildFilename(toolchain_store'.generator)] = Rendering(i)
      BY <2>1, <2>2 DEF GenFile
    <3> QED BY <2>1, <2>2, <3>1, <3>2 DEF RecordIsTrue, Rendering, RecordedState, history
  <2>9. ReadAlike'
    BY <1>0, <2>1 DEF ReadAlike, GenPhase
  <2> QED BY <2>4, <2>5, <2>6, <2>7, <2>8, <2>9
<1>7. CASE WriteTorn(i)
  <2>1. /\ pc[i] \in GenPhase /\ state_file' \in {Absent, Partial}
        /\ UNCHANGED <<inputs, history>>
    BY <1>7 DEF WriteTorn, Tear, Unrecorded, GenPhase
  <2>2. /\ pc'[i] \in {"guard", "done", "idle"}
        /\ pc'[i] = "done" => outcome'[i] = "failed"
        /\ pc'[i] # "idle" => UNCHANGED loaded
    BY <1>0, <1>7 DEF WriteTorn, ReturnError, Die, Goto
  <2>3. Unrecorded' /\ Written' /\ KeptAfterwards' /\ Converges'
    BY <1>0, <2>2 DEF Unrecorded, Written, KeptAfterwards, Converges, GenPhase, BuildPhase
  <2>4. InputsHeld'
    BY <1>0, <2>1, <2>2 DEF InputsHeld, GenPhase, inputs, loaded, history
  <2>5. RecordIsTrue'
    BY <2>1, ConstantsAssumption DEF RecordIsTrue, Recorded
  <2>6. ReadAlike'
    BY <1>0, <2>2 DEF ReadAlike, GenPhase
  <2> QED BY <2>3, <2>4, <2>5, <2>6
<1>9. CASE Crash(i)
  <2>1. pc'[i] = "idle" /\ UNCHANGED <<inputs, files, history>>
    BY <1>0, <1>9 DEF Crash, Die, Goto
  <2>2. Unrecorded' /\ Written' /\ InputsHeld' /\ KeptAfterwards' /\ Converges' /\ ReadAlike'
    BY <1>0, <2>1 DEF Unrecorded, Written, InputsHeld, KeptAfterwards, Converges, ReadAlike,
                      GenPhase, BuildPhase
  <2>3. RecordIsTrue'
    BY <2>1 DEF RecordIsTrue, Recorded, files, history
  <2> QED BY <2>2, <2>3
<1> QED BY <1>1, <1>2, <1>3, <1>4, <1>5, <1>6, <1>7, <1>8, <1>9 DEF WritingAction

LEMMA EditCore ==
  ASSUME BuildInv, EditManifest \/ EditLocals \/ EditToolchain
  PROVE  CoreInv'
<1> USE DEF BuildInv, CoreInv
<1>1. /\ UNCHANGED <<pc, build_file, state_file, toolchain_store, loaded, outcome>>
      /\ \A i \in Invocations : disturbed'[i]
  BY DEF EditManifest, EditLocals, EditToolchain, Disturb, files, ending
<1>2. InputsHeld' /\ KeptAfterwards' /\ Converges'
  BY <1>1 DEF InputsHeld, KeptAfterwards, Converges
<1>3. Unrecorded' /\ RecordIsTrue'
  <2>1. raced => raced'
    BY DEF EditManifest, EditLocals, EditToolchain
  <2> QED BY <1>1, <2>1 DEF Unrecorded, RecordIsTrue, Recorded
<1>5. ReadAlike'
  <2>1. CASE EditLocals
    BY <2>1 DEF EditLocals, ReadAlike, loaded
  <2>2. CASE EditManifest
    BY <2>2 DEF EditManifest, ReadAlike, loaded
  <2>3. CASE EditToolchain
    BY <2>3 DEF EditToolchain, ReadAlike, loaded
  <2> QED BY <2>1, <2>2, <2>3
<1>4. Written'
  BY <1>1 DEF Written, GenFile, GeneratorOf, Rendering, loaded
<1> QED BY <1>2, <1>3, <1>4, <1>5

LEMMA BuildStep ==
  ASSUME OneInvocation, BuildInv, [Next]_vars
  PROVE  BuildInv'
<1>1. TypeInv'
  BY TypeStep DEF BuildInv
<1>2. CoreInv'
  <2>1. CASE UNCHANGED vars
    <3>1. UNCHANGED <<inputs, files, pc, loaded, ending, history>>
      BY <2>1 DEF vars
    <3>2. \A i \in Invocations : Keep(i)' = Keep(i)
      BY <3>1, SameView DEF history
    <3>3. KeptAfterwards' /\ Converges'
      BY <3>1, <3>2 DEF BuildInv, CoreInv, KeptAfterwards, Converges, Building, loaded, ending,
                       history
    <3>4. Unrecorded' /\ Written' /\ InputsHeld' /\ RecordIsTrue' /\ ReadAlike'
      BY <3>1 DEF BuildInv, CoreInv, Unrecorded, Written, InputsHeld, RecordIsTrue, Recorded,
                  ReadAlike, GenFile, GeneratorOf, Rendering, inputs, files, loaded, history
    <3> QED BY <3>3, <3>4 DEF CoreInv
  <2>2. ASSUME NEW i \in Invocations, QuietAction(i) PROVE CoreInv'
    BY <2>2, QuietActions, QuietCore DEF BuildInv, TypeInv
  <2>3. ASSUME NEW i \in Invocations, WritingAction(i) PROVE CoreInv'
    BY <2>3, WritingCore
  <2>4. CASE EditManifest \/ EditLocals \/ EditToolchain
    BY <2>4, EditCore
  <2> QED BY <2>1, <2>2, <2>3, <2>4, ActionsSplit
<1> QED BY <1>1, <1>2 DEF BuildInv

LEMMA BuildInvariant ==
  ASSUME OneInvocation
  PROVE  Spec => []BuildInv
<1>1. Init => BuildInv
  BY TypeInit, CoreInit DEF BuildInv
<1>2. BuildInv /\ [Next]_vars => BuildInv'
  BY BuildStep
<1> QED BY <1>1, <1>2, PTL DEF Spec

LEMMA KeptIsFresh ==
  ASSUME BuildInv
  PROVE  FreshWhenBuilt
<1> SUFFICES ASSUME NEW i \in Invocations, pc[i] = "backend", ~disturbed[i]
             PROVE  LET file == build_file[BuildFile(i)]
                    IN  /\ file \in Rendered
                        /\ file.config = manifest /\ file.features = args[i].features
                        /\ file.toolchain = toolchain
                        /\ raced \/ file.locals = local_manifests
  BY DEF FreshWhenBuilt
<1>1. StateMatches(i) /\ StoreMatches(i)
  BY DEF BuildInv, CoreInv, KeptAfterwards, BuildPhase, Keep
<1>2. config[i] = manifest
  BY DEF BuildInv, CoreInv, InputsHeld
<1>3. state_file \in State
  BY <1>1, FileTypes DEF BuildInv, TypeInv, TypeOK, StateMatches, State
<1>4. toolchain_store \in Store
  <2>1. toolchain_store \in [toolchain : Toolchains \cup {Broken}, generator : Generators]
    BY <1>1, FileTypes DEF BuildInv, TypeInv, TypeOK, StoreMatches
  <2> QED BY <2>1, ConstantsAssumption DEF BuildInv, TypeInv, TypeOK
<1>5. RecordIsTrue
  BY DEF BuildInv, CoreInv
<1> QED BY <1>1, <1>2, <1>3, <1>4, <1>5 DEF RecordIsTrue, Recorded, StateMatches, StoreMatches,
                                            BuildFile

\* While one process at a time works in a build directory, a state file and a
\* toolchain store that are both complete describe the build file on disk:
\* generate::action removes the state file before it touches anything else and
\* writes it last, and every failure and crash is somewhere in between. They are
\* wrong about the local dependencies only if these were edited between the two
\* readings of them by the generation that wrote the records.
THEOREM RecordsAreTrue ==
  ASSUME OneInvocation
  PROVE  Spec => []RecordIsTrue
<1>1. BuildInv => RecordIsTrue
  BY DEF BuildInv, CoreInv
<1> QED BY BuildInvariant, <1>1, PTL

\* run_build starts the backend only on a build file rendered from the inputs
\* that hold now, whether it was kept or rendered again, unless they were
\* edited while the build ran; and from the local dependencies that hold now,
\* unless they were edited between the two readings of an earlier generation.
THEOREM BackendSeesFreshFile ==
  ASSUME OneInvocation
  PROVE  Spec => []FreshWhenBuilt
<1>1. BuildInv => FreshWhenBuilt
  BY KeptIsFresh
<1> QED BY BuildInvariant, <1>1, PTL

\* After a build that succeeded nothing makes the next one render again.
THEOREM BuildsConverge ==
  ASSUME OneInvocation
  PROVE  Spec => []Converges
<1>1. BuildInv => Converges
  BY DEF BuildInv, CoreInv
<1> QED BY BuildInvariant, <1>1, PTL
=============================================================================
