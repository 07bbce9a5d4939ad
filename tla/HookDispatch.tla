---------------------------- MODULE HookDispatch ----------------------------
(***************************************************************************)
(* Commands, the hooks that they run, and the commands that hooks of type  *)
(* catalyst run in the same process.                                       *)
(*                                                                         *)
(* The work of a command is left out but for the lifecycle events that it  *)
(* passes; between them it may fail.  A hook is a sequence of items of type*)
(* "command" (also for scripts and bare commands), "codegen", "catalyst" or*)
(* "malformed" (also one whose fields are missing).  A codegen item is     *)
(*   [type, input, output, refs],                                          *)
(* refs being the variables of its command line: [of, index] for $IN[i] or *)
(* $OUT[i], [of, start, stop, step] for slices and the bare variables.     *)
(* A request is a command line: [name, features, explain, watch, verbose,  *)
(* parses], parses being "help" when it only prints something.             *)
(***************************************************************************)
EXTENDS Integers, Sequences, SequencesExt, FiniteSets

CONSTANTS
  HookedProjects, \* records of hooks: a function from lifecycle events to items,
                \* requests: the command lines that a user may give, and
                \* times: those of the files at first
  Absent,       \* a bound of a slice that is not written
  MAX_DISPATCH, \* limit on commands inside each other
  MAX_DEPTH,    \* limit on catalyst hooks inside each other
  MaxCommands,  \* bound on the command lines a user gives
  MaxTime       \* bound on the clock of the files

Inputs == {"in1", "in2"}
Outputs == {"out1", "out2"}
CodegenFiles == Inputs \cup Outputs

ASSUME DispatchAssumption == MAX_DISPATCH \in Nat \ {0}

\* A reference to an element of a list, not to a slice of it.
IsIndex(ref) == "index" \in DOMAIN ref

\* The files of a codegen item are those that have times; bounds are numbers.
IsCodegen(item) ==
  /\ item.input \in Seq(CodegenFiles) /\ item.output \in Seq(CodegenFiles)
  /\ item.refs \in Seq(ToSet(item.refs))
  /\ \A ref \in ToSet(item.refs) :
       ~IsIndex(ref) => ref.step \in Int /\ {ref.start, ref.stop} \subseteq Int \cup {Absent}

ASSUME HookedProjectsAssumption ==
  /\ MaxTime \in Nat /\ Absent \notin Int
  /\ \A p \in HookedProjects :
       /\ p.times \in [CodegenFiles -> 0 .. MaxTime]
       /\ \A event \in DOMAIN p.hooks :
            /\ p.hooks[event] \in Seq(ToSet(p.hooks[event]))
            /\ \A item \in ToSet(p.hooks[event]) : item.type = "codegen" => IsCodegen(item)

VARIABLES
  project,   \* a member of HookedProjects
  commands,  \* command lines given so far
  frames,    \* the commands that run, the outermost first
  chain,     \* g_call_chain: their names
  enabled,   \* the features that the process says are enabled
  depth,     \* catalyst hooks inside each other
  session,   \* explanation session: "none", "active" or "ended"
  verbose,   \* whether debug messages are shown
  codegen,   \* the last codegen item, and what became of it
  mtime,     \* time of the last write of a file, 0 when there is none
  edited,    \* files that have changed since the codegen command that runs was started
  behind,    \* history: pairs of a file that has changed and one made before that
  raced      \* history: those whose file changed while the other one was made

history == <<edited, behind, raced>>
hookVars == <<project, commands, frames, chain, enabled, depth, session, verbose, codegen, mtime,
              history>>
fileVars == <<mtime, history>>
outside == <<project, commands>>
context == <<chain, enabled, depth, session, verbose>>

NoCodegen == [outcome |-> "none"]

\* The lifecycle events of a command.  A build fetches when its sentinel is
\* missing, and generates when the build file is not current.  The other commands
\* have no events of their own.
Events(name) ==
  CASE name = "build" -> { <<"pre-build", "pre-generate">> \o fetch \o generate \o <<"post-build">> :
                             fetch \in {<<>>, <<"pre-fetch", "post-fetch">>},
                             generate \in {<<>>, <<"post-generate">>} }
    [] name \in {"generate", "fetch", "clean", "run", "test", "bench", "pack"} ->
                           { <<"pre-" \o name, "post-" \o name>> }
    [] OTHER -> { <<"begin", "end">> }

ItemsOf(event) == IF event \in DOMAIN project.hooks THEN project.hooks[event] ELSE <<>>

StartIn(p) ==
  /\ project = p
  /\ commands = 0
  /\ frames = <<>> /\ chain = <<>> /\ enabled = {} /\ depth = 0
  /\ session = "none" /\ verbose = FALSE
  /\ codegen = NoCodegen
  /\ mtime = p.times
  /\ edited = {} /\ raced = {}
  /\ behind = {pair \in CodegenFiles \X CodegenFiles : p.times[pair[1]] > p.times[pair[2]]}

HookInit == \E p \in HookedProjects : StartIn(p)

(***************************************************************************)
(* How an item ends: "ok", "error" for a returned error, or "throws".      *)
(* After a shell command with an exit code other than 0 the executors take *)
(* the result of its future twice, which throws.  A build that has got an  *)
(* error passes on-build-failure from a destructor: what throws there ends *)
(* the process.                                                            *)
(***************************************************************************)

Innermost == Last(frames)

AfterItem(stack, how) ==
  IF stack = <<>> THEN stack
  ELSE LET top == Last(stack) IN
       Append(Front(stack),
              IF how = "ok" THEN [top EXCEPT !.item = top.item + 1]
              ELSE IF top.name = "build" /\ how = "error" /\ ~top.failed
              THEN [top EXCEPT !.failed = TRUE, !.events = <<"on-build-failure">>, !.item = 1]
              ELSE [top EXCEPT !.failed = TRUE, !.events = <<>>])

Terminate ==
  /\ frames' = <<>> /\ chain' = <<>> /\ enabled' = {} /\ depth' = 0
  /\ session' = "none" /\ verbose' = FALSE

EndItem(how) ==
  IF how = "throws" /\ Innermost.name = "build" /\ Innermost.failed
  THEN Terminate
  ELSE frames' = AfterItem(frames, how) /\ UNCHANGED context

Running == frames # <<>> /\ Innermost.events # <<>>

Items == ItemsOf(Head(Innermost.events))
Item == Items[Innermost.item]

AtItem(type) == Running /\ Innermost.item <= Len(Items) /\ Item.type = type

(***************************************************************************)
(* dispatch.                                                               *)
(***************************************************************************)

Explains(request) == request.name = "build" /\ request.explain
Owns(request) == Explains(request) /\ session = "none"

\* Mutant of Previous: the features are cleared when a command ends.
PreviousForgotten == {}

\* What the guard of a command puts back.
Previous == enabled

Frame(request, events) ==
  [name |-> request.name, features |-> request.features, previous |-> Previous,
   owns |-> Owns(request), events |-> events, item |-> 1, failed |-> FALSE]

Refused(request) == request.name \in ToSet(chain) \/ Len(chain) >= MAX_DISPATCH

\* A session that the command owns is opened before the chain is looked at, and
\* closed at once when the command is refused.
Dispatch(request) ==
  IF \/ Explains(request) /\ request.watch
     \/ Refused(request)
  THEN /\ frames' = AfterItem(frames, "error")
       /\ session' = IF Owns(request) /\ ~request.watch THEN "ended" ELSE session
       /\ UNCHANGED <<chain, enabled, depth>>
  ELSE /\ \E events \in Events(request.name) : frames' = Append(frames, Frame(request, events))
       /\ chain' = Append(chain, request.name)
       /\ enabled' = request.features
       /\ session' = IF Owns(request) THEN "active" ELSE session
       /\ depth' = depth + 1

\* A process for each command line that a user gives.
Invoke(request) ==
  /\ frames = <<>> /\ commands < MaxCommands
  /\ request.parses = "yes" /\ ~(Explains(request) /\ request.watch)
  /\ commands' = commands + 1
  /\ \E events \in Events(request.name) :
       frames' = << [Frame(request, events) EXCEPT !.previous = {}, !.owns = Explains(request)] >>
  /\ session' = IF Explains(request) THEN "active" ELSE "none"
  /\ chain' = <<request.name>> /\ enabled' = request.features /\ depth' = 0
  /\ verbose' = request.verbose
  /\ codegen' = NoCodegen
  /\ UNCHANGED <<project, fileVars>>

(***************************************************************************)
(* The items of a hook.                                                    *)
(***************************************************************************)

\* Command and script hooks, and bare commands.
RunExternal ==
  /\ AtItem("command")
  /\ \E how \in {"ok", "error", "throws"} : EndItem(how)
  /\ UNCHANGED <<outside, codegen, fileVars>>

\* A catalyst hook.  The flag of the parser is the variable of the logger: a
\* nested command sets it and nothing resets it.
RunCatalyst ==
  /\ AtItem("catalyst")
  /\ LET request == Item.request IN
       IF depth >= MAX_DEPTH THEN EndItem("error")
       ELSE IF request.parses # "yes"
       THEN EndItem(IF request.parses = "help" THEN "ok" ELSE "error")
       ELSE /\ verbose' = (verbose \/ request.verbose)
            /\ Dispatch(request)
  /\ UNCHANGED <<outside, codegen, fileVars>>

Malformed ==
  /\ AtItem("malformed")
  /\ EndItem("error")
  /\ UNCHANGED <<outside, codegen, fileVars>>

(***************************************************************************)
(* Codegen hooks: the variables in their command.                          *)
(***************************************************************************)

ListOf(item, ref) == IF ref.of = "IN" THEN item.input ELSE item.output

FromEnd(list, i) == IF i < 0 THEN i + Len(list) ELSE i

\* The least value of a bound, before the first element for a walk backwards.
Lowest(step) == IF step > 0 THEN 0 ELSE -1

Highest(list, step) == IF step > 0 THEN Len(list) ELSE Len(list) - 1

\* Mutant of Whole: a walk backwards to the end stops before the first element.
WholeButFirst(list, step) == IF step > 0 THEN <<0, Len(list)>> ELSE <<Len(list) - 1, 0>>

\* What the bounds are when they are not written.
Whole(list, step) == IF step > 0 THEN <<0, Len(list)>> ELSE <<Len(list) - 1, -1>>

Bound(list, written, missing, step) ==
  IF written = Absent THEN missing
  ELSE LET i == FromEnd(list, written) IN
       IF i < Lowest(step) THEN Lowest(step)
       ELSE IF i > Highest(list, step) THEN Highest(list, step) ELSE i

Capped(list, step) ==
  LET cap == Len(list) + 1 IN
  IF step > cap THEN cap ELSE IF step < -cap THEN -cap ELSE step

Slice(list, ref) ==
  LET start == Bound(list, ref.start, Whole(list, ref.step)[1], ref.step)
      stop == Bound(list, ref.stop, Whole(list, ref.step)[2], ref.step)
      step == Capped(list, ref.step)
      at(k) == start + k * step
      passed == {k \in 0 .. Len(list) : IF step > 0 THEN at(k) < stop ELSE at(k) > stop}
  IN [k \in 1 .. Cardinality(passed) |-> list[at(k - 1) + 1]]

Rejected(item, ref) ==
  IF IsIndex(ref) THEN FromEnd(ListOf(item, ref), ref.index) \notin 0 .. Len(ListOf(item, ref)) - 1
  ELSE ref.step = 0

Words(item, ref) ==
  LET list == ListOf(item, ref) IN
  IF IsIndex(ref) THEN << list[FromEnd(list, ref.index) + 1] >> ELSE Slice(list, ref)

(***************************************************************************)
(* Whether the command runs, from the times of the files.                  *)
(***************************************************************************)

Exists(f) == mtime[f] > 0

\* Mutant of Stale: inputs are compared with the newest output.
StaleAgainstNewest(item) ==
  \/ item.input = <<>> \/ item.output = <<>>
  \/ \E o \in ToSet(item.output) : ~Exists(o)
  \/ \E i \in ToSet(item.input) : ~Exists(i) \/ \A o \in ToSet(item.output) : mtime[i] > mtime[o]

\* The command runs unless all files exist and no input is newer than the
\* oldest output.
Stale(item) ==
  \/ item.input = <<>> \/ item.output = <<>>
  \/ \E o \in ToSet(item.output) : ~Exists(o)
  \/ \E i \in ToSet(item.input) : ~Exists(i) \/ \E o \in ToSet(item.output) : mtime[i] > mtime[o]

Now == CHOOSE t \in 1 .. MaxTime + 1 :
         /\ \A f \in DOMAIN mtime : mtime[f] < t
         /\ t = 1 \/ \E f \in DOMAIN mtime : mtime[f] = t - 1

Write(paths) == mtime' = [f \in DOMAIN mtime |-> IF f \in paths THEN Now ELSE mtime[f]]

\* Files that change are made from all others as they are now, but for those whose
\* change has not been seen, and what was made from them before is behind.
Changed(paths, unseen) ==
  /\ behind' = {pair \in behind : pair[2] \notin paths}
                 \cup (paths \X (CodegenFiles \ paths)) \cup (unseen \X paths)
  /\ raced' = {pair \in raced : {pair[1], pair[2]} \cap paths = {}} \cup (unseen \X paths)

Codegen(outcome) ==
  codegen' = [outcome |-> outcome, item |-> Item,
              words |-> IF outcome = "rejected" THEN <<>>
                        ELSE [k \in DOMAIN Item.refs |-> Words(Item, Item.refs[k])]]

RejectCodegen ==
  /\ AtItem("codegen")
  /\ \E ref \in ToSet(Item.refs) : Rejected(Item, ref)
  /\ Codegen("rejected") /\ EndItem("error")
  /\ UNCHANGED <<outside, fileVars>>

Generating == codegen.outcome = "running"

AcceptedCodegen == AtItem("codegen") /\ \A ref \in ToSet(Item.refs) : ~Rejected(Item, ref)

SkipCodegen ==
  /\ AcceptedCodegen /\ ~Generating /\ ~Stale(Item)
  /\ Codegen("skipped") /\ EndItem("ok")
  /\ UNCHANGED <<outside, fileVars>>

StartCodegen ==
  /\ AcceptedCodegen /\ ~Generating /\ Stale(Item)
  /\ Codegen("running")
  /\ UNCHANGED <<outside, frames, context, fileVars>>

\* Whether the command succeeds or fails, any of the outputs may have been written
\* by then; one that is still missing is logged only.  One that cannot be started
\* writes nothing.
EndCodegen ==
  /\ AcceptedCodegen /\ Generating /\ Now <= MaxTime
  /\ \E how \in {"ok", "error", "throws"}, written \in SUBSET ToSet(Item.output) :
       /\ how = "error" => written = {}
       /\ Codegen(IF how = "ok" THEN "ran" ELSE "failed") /\ EndItem(how)
       /\ Write(written) /\ Changed(written, edited)
  /\ edited' = {}
  /\ UNCHANGED outside

(***************************************************************************)
(* The command itself.                                                     *)
(***************************************************************************)

NextEvent ==
  /\ Running /\ Innermost.item > Len(Items)
  /\ frames' = Append(Front(frames), [Innermost EXCEPT !.events = Tail(@), !.item = 1])
  /\ UNCHANGED <<outside, context, codegen, fileVars>>

\* What a command does between its events fails.
BodyFails ==
  /\ Running /\ ~Innermost.failed
  /\ Innermost.item > Len(Items) /\ Len(Innermost.events) > 1
  /\ \E how \in {"error", "throws"} : EndItem(how)
  /\ UNCHANGED <<outside, codegen, fileVars>>

\* The guards put the chain, the features and the depth back, and dispatch
\* closes the session that the command owns.
Return ==
  /\ frames # <<>> /\ Innermost.events = <<>>
  /\ frames' = AfterItem(Front(frames), IF Innermost.failed THEN "error" ELSE "ok")
  /\ chain' = Front(chain)
  /\ enabled' = Innermost.previous
  /\ depth' = IF Len(frames) > 1 THEN depth - 1 ELSE 0
  /\ session' = IF Innermost.owns THEN "ended" ELSE session
  /\ UNCHANGED <<outside, verbose, codegen, fileVars>>

\* Between two commands, and while a codegen command runs, the user edits an input
\* or removes a file.
EditFile ==
  /\ Generating \/ (frames = <<>> /\ commands \in 1 .. MaxCommands - 1)
  /\ Now <= MaxTime
  /\ \E f \in DOMAIN mtime :
       /\ \/ f \in Inputs /\ Write({f})
          \/ Exists(f) /\ mtime' = [mtime EXCEPT ![f] = 0]
       /\ Changed({f}, {})
       /\ edited' = IF Generating THEN edited \cup {f} ELSE edited
  /\ UNCHANGED <<outside, frames, context, codegen>>

HookNext ==
  \/ \E request \in project.requests : Invoke(request)
  \/ RunExternal \/ RunCatalyst \/ Malformed
  \/ RejectCodegen \/ SkipCodegen \/ StartCodegen \/ EndCodegen
  \/ NextEvent \/ BodyFails \/ Return \/ EditFile

HookSpec == HookInit /\ [][HookNext]_hookVars

(***************************************************************************)
(* Properties.                                                             *)
(***************************************************************************)

\* Whatever way the commands inside have ended, the process stands as the
\* innermost command that still runs left it: the chain has the commands that
\* run, once each and within the limit, the features are those of the innermost,
\* and a session is open exactly while the one command that owns it runs.
\* (dispatchSubcommand, executeCatalystHook and dispatch undo in each way out.)
ContextOfInnermost ==
  /\ chain = [k \in DOMAIN frames |-> frames[k].name]
  /\ IsInjective(chain) /\ Len(chain) <= MAX_DISPATCH
  /\ enabled = IF frames = <<>> THEN {} ELSE Innermost.features
  /\ depth = IF frames = <<>> THEN 0 ELSE Len(frames) - 1
  /\ \A j, k \in DOMAIN frames : frames[j].owns /\ frames[k].owns => j = k
  /\ (session = "active") = (\E k \in DOMAIN frames : frames[k].owns)

\* The element of a set that k - 1 of its elements come before.
Preceding(S, step, x) == {y \in S : IF step > 0 THEN y < x ELSE y > x}
AtRank(S, step, k) == CHOOSE x \in S : Cardinality(Preceding(S, step, x)) = k - 1

\* A slice as its documentation has it, from the elements themselves: those on
\* the right side of each bound that is written, every step-th of them.
Taken(list, ref) ==
  LET from == {x \in 0 .. Len(list) - 1 : \/ ref.start = Absent
                                          \/ IF ref.step > 0 THEN x >= FromEnd(list, ref.start)
                                                             ELSE x <= FromEnd(list, ref.start)}
      first == CHOOSE x \in from : \A y \in from : IF ref.step > 0 THEN x <= y ELSE x >= y
      size == IF ref.step > 0 THEN ref.step ELSE -ref.step
  IN {x \in from : /\ \/ ref.stop = Absent
                      \/ IF ref.step > 0 THEN x < FromEnd(list, ref.stop)
                                         ELSE x > FromEnd(list, ref.stop)
                   /\ (IF x > first THEN x - first ELSE first - x) % size = 0}

Selected(list, ref) ==
  LET taken == Taken(list, ref)
  IN [k \in 1 .. Cardinality(taken) |-> list[AtRank(taken, ref.step, k) + 1]]

\* Slices in the command of a codegen hook are those of Python for all bounds,
\* written or not, negative, beyond the ends, and for each step, also on an empty
\* list; a step of 0 is an error and a slice never is (substituteCmdArgs).
SliceLikePython ==
  codegen.outcome # "none" =>
    LET refs == codegen.item.refs IN
    /\ \A k \in DOMAIN refs :
         ~IsIndex(refs[k]) /\ codegen.outcome # "rejected" =>
           refs[k].step # 0 /\ codegen.words[k] = Selected(ListOf(codegen.item, refs[k]), refs[k])
    /\ codegen.outcome = "rejected" =>
         \E k \in DOMAIN refs : IsIndex(refs[k]) \/ refs[k].step = 0

\* What a codegen command would find new is never skipped, after any edits and
\* removals, commands that failed with some of their outputs written, and commands
\* that succeeded without writing all that they declare: each declared output has
\* been written by a command that started after the last change of each declared
\* input, or while which this change was made (executeCodegenHook).
SkippedIsCurrent ==
  [][ codegen' # codegen /\ codegen'.outcome = "skipped" =>
        \A i \in ToSet(codegen'.item.input), o \in ToSet(codegen'.item.output) :
          <<i, o>> \in behind => <<i, o>> \in raced ]_hookVars
=============================================================================
