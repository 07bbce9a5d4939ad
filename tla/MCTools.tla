------------------------------ MODULE MCTools ------------------------------
(* One instance for five parts that do not interact: a behaviour is one of  *)
(* one subject, and the variables of the others stay as they are.           *)
EXTENDS MCGeneration, HookDispatch, ExplainReport, EmbeddedCob, Watcher

VARIABLE subject

Hook(type) == [type |-> type]
Request(name) == [name |-> name, features |-> {}, explain |-> FALSE, watch |-> FALSE,
                  verbose |-> FALSE, parses |-> "yes"]
Nested(request) == [type |-> "catalyst", request |-> request]
ExplainedBuild == [Request("build") EXCEPT !.explain = TRUE, !.features = {"gui"}]
WatchedBuild == [ExplainedBuild EXCEPT !.watch = TRUE]
Featured == [Request("generate") EXCEPT !.features = {"gui"}, !.verbose = TRUE]
Helped == [Request("test") EXCEPT !.parses = "help"]
Unparsed == [Request("test") EXCEPT !.parses = "no"]

GenerateCode(inputs, outputs, variables) ==
  [type |-> "codegen", input |-> inputs, output |-> outputs, refs |-> variables]

Bare(list) == [of |-> list, start |-> Absent, stop |-> Absent, step |-> 1]
At(list, i) == [of |-> list, index |-> i]

MCRequests == {Request("build"), ExplainedBuild, WatchedBuild, Featured, Request("test"), Request("clean")}

(* Commands inside commands, deeper than the limit of 3, and in circles.    *)
NestingSets ==
  { [e \in {"pre-build"} |-> <<Hook("command"), Nested(Featured), Nested(Helped)>>],
    [e \in {"pre-build", "pre-generate"} |-> IF e = "pre-build" THEN <<Nested(Featured)>>
                                             ELSE <<Nested(Request("build"))>>],
    [e \in {"pre-test", "pre-clean", "pre-generate"} |->
       CASE e = "pre-test" -> <<Nested(Request("clean"))>>
         [] e = "pre-clean" -> <<Nested(Featured)>>
         [] e = "pre-generate" -> <<Nested(ExplainedBuild), Nested(Request("lock"))>>],
    [e \in {"post-test", "on-build-failure", "post-generate"} |->
       CASE e = "post-test" -> <<Nested(ExplainedBuild), Nested(WatchedBuild)>>
         [] e = "on-build-failure" -> <<Nested(Unparsed), Hook("malformed")>>
         [] e = "post-generate" -> <<Hook("malformed")>>],
    [e \in {"on-build-failure", "post-fetch"} |-> <<Hook("command")>>],
    [e \in {"pre-build", "pre-clean"} |-> IF e = "pre-clean" THEN <<Nested(ExplainedBuild)>>
                                          ELSE <<Nested(Request("clean"))>>] }

Bounds == {Absent} \cup -3 .. 3
Steps == <<-4, -2, -1, 1, 2, 4>>

(* A command with the slices of two bounds and each step.                   *)
Slices(a, b, steps) ==
  [k \in DOMAIN steps |-> [of |-> "IN", start |-> a, stop |-> b, step |-> steps[k]]]

Hooked(item) == [e \in {"pre-generate"} |-> <<item>>]

HookedProject(hooks, requests, times) == [hooks |-> hooks, requests |-> requests, times |-> times]

NoFiles == [f \in Inputs \cup Outputs |-> 0]
(* Files at first: an input that may be newer than the outputs there are,   *)
(* and one that may be missing.                                             *)
Times == {t \in [Inputs \cup Outputs -> 0 .. 2] :
            t["in1"] \in {1, 2} /\ {t["in2"], t["out1"], t["out2"]} \subseteq {0, 1}}

CodegenProject(item, times) == HookedProject(Hooked(item), {Featured}, times)
GenerateBoth(i) == GenerateCode(<<"in1", "in2">>, <<"out1", "out2">>, <<At("IN", i), Bare("OUT"), At("OUT", -1)>>)

MCHookedProjects ==
  {HookedProject(h, MCRequests, NoFiles) : h \in NestingSets}
  \cup {CodegenProject(GenerateCode(inputs, <<>>, Slices(a, b, Steps)), NoFiles) :
          inputs \in {<<>>, <<"in1", "in2">>}, a \in Bounds, b \in Bounds}
  \cup {CodegenProject(GenerateCode(<<"in1">>, <<>>, Slices(Absent, a, <<0>>)), NoFiles) : a \in Bounds}
  \cup {CodegenProject(GenerateBoth(i), NoFiles) : i \in {-3, 2}}
  \cup {CodegenProject(GenerateBoth(0), t) : t \in Times}

MCStarts == {<<"t1", "c1">>, <<"t1", "c2">>, <<"c1", "c2">>}

Subjects == {"generation", "hooks", "report", "cob", "watch"}

ToolsInit ==
  /\ subject \in Subjects
  /\ IF subject = "generation" THEN Init ELSE GenerateIn(SmallWorld)
  /\ IF subject = "hooks" THEN HookInit ELSE StartIn(HookedProject([e \in {} |-> <<>>], {}, NoFiles))
  /\ IF subject = "cob" THEN CobInit ELSE FindCob("none")
  /\ ReportInit /\ WatchInit

ToolsNext ==
  /\ \/ subject = "generation" /\ Next /\ UNCHANGED <<hookVars, reportVars, cobVars, watchVars>>
     \/ subject = "hooks" /\ HookNext /\ UNCHANGED <<vars, reportVars, cobVars, watchVars>>
     \/ subject = "report" /\ ReportNext /\ UNCHANGED <<vars, hookVars, cobVars, watchVars>>
     \/ subject = "cob" /\ CobNext /\ UNCHANGED <<vars, hookVars, reportVars, watchVars>>
     \/ subject = "watch" /\ WatchNext /\ UNCHANGED <<vars, hookVars, reportVars, cobVars>>
  /\ UNCHANGED subject

ToolsSpec ==
  /\ ToolsInit /\ [][ToolsNext]_<<subject, vars, hookVars, reportVars, cobVars, watchVars>>
  /\ subject = "watch" => WatchFairness
=============================================================================
