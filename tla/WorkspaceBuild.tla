--------------------------- MODULE WorkspaceBuild ---------------------------
(***************************************************************************)
(* buildWorkspace: the members of a planned workspace are built by one     *)
(* thread each.  The calling thread walks the build order and dispatches a *)
(* thread per target with std::async; a thread waits for the futures of    *)
(* its dependencies, then runs `catalyst build` as a child process in the  *)
(* member's directory; the caller waits for every thread it dispatched and *)
(* joins their errors.                                                     *)
(***************************************************************************)
EXTENDS Naturals, Sequences, FiniteSets, Functions, WorkspacePlan

CONSTANTS
  Packages,   \* packages of the workspace
  Names,      \* names that a dependency may have, packages or not
  Plans       \* the plans that workspaceBuildGraph and workspaceTargets may give

Plan == [dependencies : [Packages -> Seq(Names)],
         build_order : Seq(Packages),
         targets : SUBSET Packages]

\* WorkspaceGraph proves of every plan what is assumed here (PlanPromised).
ASSUME PlansAssumption ==
  /\ Packages \subseteq Names
  /\ Plans \subseteq Plan
  /\ \A w \in Plans :
       IsPlan(Packages, [p \in Packages |-> Range(w.dependencies[p])],
              w.build_order, w.targets)

VARIABLES
  plan,               \* graph and targets, the arguments of buildWorkspace
  phase,              \* the caller: "dispatching", "collecting" or "returned"
  next,               \* index in build_order of the package to look at next
  dispatched,         \* packages with a thread, in the order of dispatch
  dispatch_error,     \* std::async threw
  thread,             \* each package's thread and the outcome in its future
  dependency_futures, \* dependencies whose future a thread has still to wait for
  collected,          \* number of futures that the caller has got
  errors,             \* packages whose error the caller has recorded
  result              \* "none", "ok" or "failed"

buildVars == <<plan, phase, next, dispatched, dispatch_error, thread, dependency_futures,
               collected, errors, result>>

callerVars == <<phase, next, dispatched, dispatch_error, collected, errors, result>>

\* The dependencies of p that are built by this command.
DepsOf(p) == Range(plan.dependencies[p]) \cap plan.targets

\* Mutant of Awaited: no thread is handed a future.
AwaitedNone(p) == {}

\* The futures that p gets: `futures` holds those of packages dispatched before.
Awaited(p) == DepsOf(p) \cap Range(dispatched)

\* A thread takes its futures in the order in which the manifest lists them.
FirstAwaited(p) ==
  CHOOSE d \in dependency_futures[p] :
    \E i \in DOMAIN plan.dependencies[p] :
      /\ plan.dependencies[p][i] = d
      /\ \A j \in 1 .. i - 1 : plan.dependencies[p][j] \notin dependency_futures[p]

\* The caller's variables before it has looked at any package.
Untouched(step) ==
  /\ phase = step
  /\ next = 1
  /\ dispatched = <<>>
  /\ dispatch_error = FALSE
  /\ thread = [p \in Packages |-> "none"]
  /\ dependency_futures = [p \in Packages |-> {}]
  /\ collected = 0
  /\ errors = {}
  /\ result = "none"

StartBuild == plan \in Plans /\ Untouched("dispatching")

(***************************************************************************)
(* The calling thread.                                                     *)
(***************************************************************************)
Loop == phase = "dispatching" /\ next <= Len(plan.build_order)

SkipNonTarget ==
  /\ Loop
  /\ plan.build_order[next] \notin plan.targets
  /\ next' = next + 1
  /\ UNCHANGED <<plan, phase, dispatched, dispatch_error, thread, dependency_futures,
                 collected, errors, result>>

Dispatch ==
  /\ Loop
  /\ LET p == plan.build_order[next] IN
     /\ p \in plan.targets
     /\ dependency_futures' = [dependency_futures EXCEPT ![p] = Awaited(p)]
     /\ thread' = [thread EXCEPT ![p] = "waiting"]
     /\ dispatched' = Append(dispatched, p)
  /\ next' = next + 1
  /\ UNCHANGED <<plan, phase, dispatch_error, collected, errors, result>>

\* std::async cannot start a thread: the loop ends, the threads go on.
DispatchThrows ==
  /\ Loop
  /\ plan.build_order[next] \in plan.targets
  /\ dispatch_error' = TRUE
  /\ phase' = "collecting"
  /\ UNCHANGED <<plan, next, dispatched, thread, dependency_futures, collected,
                 errors, result>>

DispatchDone ==
  /\ phase = "dispatching" /\ next > Len(plan.build_order)
  /\ phase' = "collecting"
  /\ UNCHANGED <<plan, next, dispatched, dispatch_error, thread, dependency_futures,
                 collected, errors, result>>

Resolved(p) == thread[p] \in {"built", "failed", "skipped"}

\* futures.at(package_name).get() returns for the next dispatched package.
Collect ==
  /\ phase = "collecting" /\ collected < Len(dispatched)
  /\ LET p == dispatched[collected + 1] IN
     /\ Resolved(p)
     /\ errors' = IF thread[p] = "built" THEN errors ELSE errors \cup {p}
  /\ collected' = collected + 1
  /\ UNCHANGED <<plan, phase, next, dispatched, dispatch_error, thread,
                 dependency_futures, result>>

\* Mutant of Return: an exception in the loop leaves the function.
ReturnAtOnce ==
  /\ phase = "collecting" /\ (collected = Len(dispatched) \/ dispatch_error)
  /\ phase' = "returned"
  /\ result' = IF errors = {} /\ ~dispatch_error THEN "ok" ELSE "failed"
  /\ UNCHANGED <<plan, next, dispatched, dispatch_error, thread, dependency_futures,
                 collected, errors>>

\* Mutant of Return: the dispatch error is not among the errors joined.
ReturnForgetful ==
  /\ phase = "collecting" /\ collected = Len(dispatched)
  /\ phase' = "returned"
  /\ result' = IF errors = {} THEN "ok" ELSE "failed"
  /\ UNCHANGED <<plan, next, dispatched, dispatch_error, thread, dependency_futures,
                 collected, errors>>

Return ==
  /\ phase = "collecting" /\ collected = Len(dispatched)
  /\ phase' = "returned"
  /\ result' = IF errors = {} /\ ~dispatch_error THEN "ok" ELSE "failed"
  /\ UNCHANGED <<plan, next, dispatched, dispatch_error, thread, dependency_futures,
                 collected, errors>>

(***************************************************************************)
(* The thread of package p.                                                *)
(***************************************************************************)
\* Mutant of DependencyBuilt: the dependency's result is not looked at.
DependencyResolved(p) ==
  /\ thread[p] = "waiting" /\ dependency_futures[p] # {}
  /\ Resolved(FirstAwaited(p))
  /\ dependency_futures' = [dependency_futures EXCEPT ![p] = @ \ {FirstAwaited(p)}]
  /\ UNCHANGED <<plan, thread, callerVars>>

\* dependency_future.get() blocks until the first remaining one is resolved.
DependencyBuilt(p) ==
  /\ thread[p] = "waiting" /\ dependency_futures[p] # {}
  /\ thread[FirstAwaited(p)] = "built"
  /\ dependency_futures' = [dependency_futures EXCEPT ![p] = @ \ {FirstAwaited(p)}]
  /\ UNCHANGED <<plan, thread, callerVars>>

\* Mutant of DependencyFailed: any failure stops every waiting thread.
AnyFailed(p) ==
  /\ thread[p] = "waiting" /\ \E q \in Packages : thread[q] \in {"failed", "skipped"}
  /\ thread' = [thread EXCEPT ![p] = "skipped"]
  /\ UNCHANGED <<plan, dependency_futures, callerVars>>

\* Mutant of DependencyFailed: a skipped dependency sets no value in its future.
DependencyFailedOnly(p) ==
  /\ thread[p] = "waiting" /\ dependency_futures[p] # {}
  /\ thread[FirstAwaited(p)] = "failed"
  /\ thread' = [thread EXCEPT ![p] = "skipped"]
  /\ UNCHANGED <<plan, dependency_futures, callerVars>>

DependencyFailed(p) ==
  /\ thread[p] = "waiting" /\ dependency_futures[p] # {}
  /\ thread[FirstAwaited(p)] \in {"failed", "skipped"}
  /\ thread' = [thread EXCEPT ![p] = "skipped"]
  /\ UNCHANGED <<plan, dependency_futures, callerVars>>

\* buildWorkspaceMember starts the child, or fails to.
StartMember(p) ==
  /\ thread[p] = "waiting" /\ dependency_futures[p] = {}
  /\ \E started \in {"building", "failed"} : thread' = [thread EXCEPT ![p] = started]
  /\ UNCHANGED <<plan, dependency_futures, callerVars>>

\* The child exits with code zero or another one.
MemberExits(p) ==
  /\ thread[p] = "building"
  /\ \E outcome \in {"built", "failed"} : thread' = [thread EXCEPT ![p] = outcome]
  /\ UNCHANGED <<plan, dependency_futures, callerVars>>

Caller == SkipNonTarget \/ Dispatch \/ DispatchThrows \/ DispatchDone \/ Collect \/ Return

Thread(p) == DependencyBuilt(p) \/ DependencyFailed(p) \/ StartMember(p) \/ MemberExits(p)

Terminating == phase = "returned" /\ UNCHANGED buildVars

BuildNext == Caller \/ (\E p \in Packages : Thread(p)) \/ Terminating

BuildSpec == StartBuild /\ [][BuildNext]_buildVars

\* The operating system schedules the caller and every thread; a child build
\* ends (MemberExits is a step of its thread).
BuildFairness ==
  WF_buildVars(Caller) /\ \A p \in Packages : WF_buildVars(Thread(p))

(***************************************************************************)
(* Properties.                                                             *)
(***************************************************************************)
\* Every variable has its type.
BuildTypeOK ==
  /\ plan \in Plan
  /\ phase \in {"dispatching", "collecting", "returned"}
  /\ next \in 1 .. Len(plan.build_order) + 1
  /\ dispatched \in Seq(Packages)
  /\ dispatch_error \in BOOLEAN
  /\ thread \in [Packages -> {"none", "waiting", "building", "built", "failed", "skipped"}]
  /\ dependency_futures \in [Packages -> SUBSET Packages]
  /\ collected \in 0 .. Len(dispatched)
  /\ errors \subseteq Packages
  /\ result \in {"none", "ok", "failed"}

\* A member's build starts only when the builds of all members it depends on
\* have succeeded.  The dispatch loop waits only for dependencies that are in
\* `futures` already, so this rests on the build order.
StartsAfterDependencies ==
  \A p \in plan.targets : thread[p] \in {"building", "built"} =>
    \A d \in DepsOf(p) : thread[d] = "built"

\* When the command returns, no thread or child build of it is left, on the
\* path after a failed dispatch too.
NothingLeftRunning ==
  phase = "returned" => \A p \in Packages : thread[p] \notin {"waiting", "building"}

\* One failed member stops those that need it and no others.
FailureIsContained ==
  phase = "returned" /\ ~dispatch_error =>
    \A p \in plan.targets :
      /\ Resolved(p)
      /\ thread[p] = "skipped" <=> \E d \in DepsOf(p) : thread[d] \in {"failed", "skipped"}

\* The error names every member that was not built, except those that were
\* never dispatched, and success means that every target was built.
ErrorIsComplete ==
  phase = "returned" =>
    /\ errors = {p \in Range(dispatched) : thread[p] # "built"}
    /\ result = "ok" <=> \A p \in plan.targets : thread[p] = "built"

\* A build that has begun ends: once some package has its thread, the command
\* returns, so no set of threads waits for each other's futures.
BuildReturns == (\E p \in Packages : thread[p] = "waiting") ~> phase = "returned"

(***************************************************************************)
(* Refinement of the contract.                                             *)
(***************************************************************************)
Progress ==
  [p \in Packages |->
     CASE thread[p] \in {"none", "waiting"} -> "idle"
       [] thread[p] = "building" -> "running"
       [] thread[p] = "built" -> "ok"
       [] OTHER -> thread[p]]

Contract ==
  INSTANCE WorkspaceContract
  WITH deps <- [p \in plan.targets |-> DepsOf(p)],
       targets <- plan.targets,
       progress <- Progress,
       result <- result

\* Seen from outside, the threaded build does what the contract says.
ImplementsContract == Contract!Spec
=============================================================================
