------------------------------- MODULE Fetch -------------------------------
(***************************************************************************)
(* The dependencies of one project: `catalyst fetch`, and the stage of     *)
(* `catalyst build` that fetches before it generates (fetch::action and    *)
(* its callers).  Remote dependencies are fetched by threads, local        *)
(* dependencies and links to workspace members one after the other.  What  *)
(* an earlier invocation left in the build directory is reused:            *)
(* catalyst-libs/<name> and the file .catalyst_fetched.                    *)
(*                                                                         *)
(* git, vcpkg, conan, hooks and the builds of local dependencies succeed   *)
(* or fail as they like.  An invocation can be killed at any step.         *)
(***************************************************************************)
EXTENDS Naturals, Sequences, FiniteSets, FiniteSetsExt

CONSTANTS
  Names,       \* names of dependencies
  Members,     \* the workspace has a member of that name
  Manifests,   \* dependency lists that the project has had
  MaxEntries,  \* bound: no list is longer
  Lockfiles,   \* the names that catalyst.lock may have a hash for
  Kills,       \* whether invocations are killed
  Absent,      \* catalyst-libs/<name> does not exist
  Incomplete,  \* it is a clone that was cut off
  Link         \* it is a symlink to a workspace member

\* "url" stands for each source without a meaning of its own, which is taken
\* for the address of a repository, and "missing" for an entry without a name
\* or a source.  The composed configuration has one entry for a name.
Sources == {"git", "url", "system", "custom", "local", "vcpkg", "conan", "missing"}
Slots == 1..MaxEntries
Revisions == {"head", "locked"}

ASSUME ConstantsAssumption ==
  /\ MaxEntries \in Nat /\ Kills \in BOOLEAN
  /\ Members \subseteq Names
  /\ Lockfiles \subseteq SUBSET (Names \ Members)
  /\ \A deps \in Manifests :
       /\ deps \in Seq([name : Names, source : Sources]) /\ Len(deps) <= MaxEntries
       /\ \A i, j \in DOMAIN deps : i # j => deps[i].name # deps[j].name
  /\ Absent \notin Revisions \cup {Incomplete, Link}
  /\ Incomplete \notin Revisions \cup {Link}
  /\ Link \notin Revisions

VARIABLES
  manifest,   \* its dependencies
  lockfile,   \* the names that catalyst.lock has a hash for
  libs,       \* catalyst-libs
  installed,  \* the packages that vcpkg and conan have installed
  sentinel,   \* .catalyst_fetched exists
  command,    \* the invocation: "build" or "fetch"
  full,       \* needs_fetch; otherwise only local dependencies are looked at
  pc,         \* the next step of the invocation
  left,       \* the entries that its current loop has still to treat
  failed,     \* a thread has returned an error
  built,      \* local dependencies that this invocation has built
  thread,     \* the thread that fetches an entry
  cut         \* history: the clones that a kill has cut off, and that nothing
              \* has removed or replaced since

project == <<manifest, lockfile>>
disk == <<libs, installed, sentinel, cut>>
mode == <<command, full>>

vars == <<project, disk, mode, pc, left, failed, built, thread>>

NoThreads == [i \in Slots |-> "none"]

Init ==
  /\ manifest \in Manifests
  /\ lockfile \in Lockfiles
  /\ libs = [n \in Names |-> Absent]
  /\ installed = {}
  /\ sentinel = FALSE
  /\ command = "build" /\ full = FALSE
  /\ pc = "idle"
  /\ left = {}
  /\ failed = FALSE
  /\ built = {}
  /\ thread = NoThreads
  /\ cut = {}

Name(i) == manifest[i].name
Source(i) == manifest[i].source

\* The loop over the list keeps the first entry of a name; when only local
\* dependencies are looked at, the first local one.
Selected(i) ==
  LET Considered(j) == full \/ Source(j) = "local" IN
    Considered(i) /\ \A j \in 1..(i - 1) : Considered(j) => Name(j) # Name(i)

\* Workspace links and local builds "mutate shared state".
IsSerial(i) == Source(i) = "local" \/ (Source(i) \notin {"vcpkg", "conan"} /\ Name(i) \in Members)

All == {i \in DOMAIN manifest : Selected(i)}
Vcpkg == {i \in All : Source(i) = "vcpkg"}
Conan == {i \in All : Source(i) = "conan"}
Serial == {i \in All : IsSerial(i)}
Parallel == All \ (Vcpkg \cup Conan \cup Serial)

locals == <<left, failed, built>>

\* The invocation goes on, with the same locals and in the same mode.
Goto(step) == pc' = step /\ UNCHANGED <<mode, locals>>

\* The invocation ends; its locals are gone, its threads are not.
End ==
  /\ pc' = "idle"
  /\ left' = {} /\ failed' = FALSE /\ built' = {}
  /\ command' = "build" /\ full' = FALSE

(***************************************************************************)
(* The invocation up to fetch::action.                                     *)
(***************************************************************************)

\* Mutant of DepMissing: the check is dropped.
NeverMissing == FALSE

\* Only git dependencies are looked for.
DepMissing == \E i \in DOMAIN manifest : Source(i) = "git" /\ libs[Name(i)] = Absent

Invoke(cmd, needs_fetch, step) ==
  /\ pc = "idle"
  /\ command' = cmd /\ full' = needs_fetch
  /\ pc' = step
  /\ UNCHANGED <<project, disk, locals, thread>>

Build == Invoke("build", ~sentinel \/ DepMissing, "starting")
ForcedBuild == Invoke("build", TRUE, "clearing")
FetchCommand == Invoke("fetch", TRUE, "starting")

RemoveLibs ==
  /\ pc = "clearing"
  /\ libs' = [n \in Names |-> Absent] /\ cut' = {}
  /\ Goto("unstamping")
  /\ UNCHANGED <<project, installed, sentinel, thread>>

RemoveSentinel ==
  /\ pc = "unstamping"
  /\ sentinel' = FALSE
  /\ Goto("starting")
  /\ UNCHANGED <<project, libs, installed, cut, thread>>

(***************************************************************************)
(* fetch::action.                                                          *)
(***************************************************************************)
PreFetch ==
  /\ pc = "starting"
  /\ \/ Goto("sorting")
     \/ full /\ End
  /\ UNCHANGED <<project, disk, thread>>

Sort ==
  /\ pc = "sorting"
  /\ IF \E i \in DOMAIN manifest : Source(i) = "missing" THEN End ELSE Goto("vcpkg")
  /\ UNCHANGED <<project, disk, thread>>

Packages(manager, entries) == {<<manager, Name(i)>> : i \in entries}

\* One installation for all vcpkg packages, which replaces the earlier one.
InstallVcpkg ==
  /\ pc = "vcpkg"
  /\ LET others == {p \in installed : p[1] # "vcpkg"} IN
     \/ /\ installed' = IF Vcpkg = {} THEN installed ELSE others \cup Packages("vcpkg", Vcpkg)
        /\ pc' = "launching" /\ left' = Parallel
        /\ UNCHANGED <<mode, failed, built>>
     \/ /\ Vcpkg # {}
        /\ \E got \in SUBSET Vcpkg : installed' = others \cup Packages("vcpkg", got)
        /\ End
  /\ UNCHANGED <<project, libs, sentinel, cut, thread>>

Launch ==
  /\ pc = "launching" /\ left # {}
  /\ thread' = [thread EXCEPT ![Min(left)] = "started"]
  /\ left' = left \ {Min(left)}
  /\ UNCHANGED <<project, disk, mode, pc, failed, built>>

\* A thread cannot be created; the futures of the others are destroyed.
LaunchThrows ==
  /\ pc = "launching" /\ left # {}
  /\ Goto("unwinding")
  /\ UNCHANGED <<project, disk, thread>>

LaunchDone ==
  /\ pc = "launching" /\ left = {}
  /\ pc' = "collecting" /\ left' = Parallel
  /\ UNCHANGED <<project, disk, mode, failed, built, thread>>

Ended(i) == thread[i] \in {"none", "fetched", "failed", "threw"}

\* Mutant of Unwind: a second thread that throws is not known to have ended.
UnwindUnlessThrown ==
  /\ pc = "unwinding"
  /\ \A i \in Slots : thread[i] \in {"none", "fetched", "failed"}
  /\ thread' = NoThreads
  /\ End
  /\ UNCHANGED <<project, disk>>

\* The destructor of a future of std::async waits for its thread.
Unwind ==
  /\ pc = "unwinding"
  /\ \A i \in Slots : Ended(i)
  /\ thread' = NoThreads
  /\ End
  /\ UNCHANGED <<project, disk>>

\* Mutant of Collect: the first error is returned at once.
CollectFirst ==
  /\ pc = "collecting" /\ left # {}
  /\ LET i == Min(left) IN
     /\ Ended(i)
     /\ thread' = [thread EXCEPT ![i] = "none"]
     /\ IF thread[i] = "fetched" THEN left' = left \ {i} /\ UNCHANGED <<mode, pc, failed, built>>
                                 ELSE End
  /\ UNCHANGED <<project, disk>>

\* Waits for the threads in the order of the list.
Collect ==
  /\ pc = "collecting" /\ left # {}
  /\ LET i == Min(left) IN
     /\ Ended(i)
     /\ thread' = [thread EXCEPT ![i] = "none"]
     /\ left' = left \ {i}
     /\ failed' = (failed \/ thread[i] = "failed")
     /\ pc' = IF thread[i] = "threw" THEN "unwinding" ELSE pc
  /\ UNCHANGED <<project, disk, mode, built>>

\* Mutant of CollectDone: the collected errors are not looked at.
CollectDoneAnyway ==
  /\ pc = "collecting" /\ left = {}
  /\ pc' = "serial" /\ left' = Serial
  /\ UNCHANGED <<project, disk, mode, failed, built, thread>>

CollectDone ==
  /\ pc = "collecting" /\ left = {}
  /\ \/ failed /\ End
     \/ ~failed /\ pc' = "serial" /\ left' = Serial /\ UNCHANGED <<mode, failed, built>>
  /\ UNCHANGED <<project, disk, thread>>

\* fetchDependency replaces whatever is there by a symlink to the member.
LinkMember ==
  /\ pc = "serial" /\ left # {}
  /\ LET n == Name(Min(left)) IN
     /\ n \in Members
     /\ libs' = [libs EXCEPT ![n] = Link] /\ cut' = cut \ {n}
     /\ left' = left \ {Min(left)}
  /\ UNCHANGED <<project, installed, sentinel, mode, pc, failed, built, thread>>

\* Mutant of BuildLocal: a dependency that was built by the first fetch is not
\* built again.
BuildLocalOnce ==
  /\ pc = "serial" /\ left # {}
  /\ LET n == Name(Min(left)) IN
     /\ n \notin Members
     /\ built' = IF full THEN built \cup {n} ELSE built
     /\ left' = left \ {Min(left)}
  /\ UNCHANGED <<project, disk, mode, pc, failed, thread>>

\* fetchLocal runs `catalyst build` in the directory of the dependency.
BuildLocal ==
  /\ pc = "serial" /\ left # {}
  /\ LET n == Name(Min(left)) IN
     /\ n \notin Members
     /\ built' = built \cup {n}
     /\ left' = left \ {Min(left)}
  /\ UNCHANGED <<project, disk, mode, pc, failed, thread>>

\* The link cannot be created, the dependency is already being built further
\* up, or its build fails: "Maintain fail-fast semantics for these".
SerialFails ==
  /\ pc = "serial" /\ left # {}
  /\ LET n == Name(Min(left)) IN
     libs' \in {libs} \cup (IF n \in Members THEN {[libs EXCEPT ![n] = Absent]} ELSE {})
  /\ End
  /\ UNCHANGED <<project, installed, sentinel, cut, thread>>

SerialDone ==
  /\ pc = "serial" /\ left = {}
  /\ Goto("conan")
  /\ UNCHANGED <<project, disk, thread>>

InstallConan ==
  /\ pc = "conan"
  /\ \/ /\ installed' = installed \cup Packages("conan", Conan)
        /\ Goto("finishing")
     \/ /\ Conan # {}
        /\ End
        /\ UNCHANGED installed
  /\ UNCHANGED <<project, libs, sentinel, cut, thread>>

PostFetch ==
  /\ pc = "finishing"
  /\ \/ command = "build" /\ Goto("stamping")
     \/ command = "fetch" /\ End
     \/ full /\ End
  /\ UNCHANGED <<project, disk, thread>>

\* Only a full fetch makes the sentinel.
Stamp ==
  /\ pc = "stamping"
  /\ sentinel' = (sentinel \/ full)
  /\ Goto("ready")
  /\ UNCHANGED <<project, libs, installed, cut, thread>>

\* The build goes on with the dependencies, and ends.
Finish ==
  /\ pc = "ready"
  /\ End
  /\ UNCHANGED <<project, disk, thread>>

(***************************************************************************)
(* The threads.                                                            *)
(***************************************************************************)
ThreadStep(i, from, to) ==
  /\ thread[i] = from
  /\ thread' = [thread EXCEPT ![i] = to]
  /\ UNCHANGED <<project, installed, sentinel, mode, pc, left, failed, built>>

ClonePath(i) == Source(i) \notin {"system", "custom"}

Skip(i) ==
  /\ thread[i] = "started"
  /\ ClonePath(i) => libs[Name(i)] # Absent
  /\ ThreadStep(i, "started", "fetched")
  /\ UNCHANGED <<libs, cut>>

BeginClone(i) ==
  /\ thread[i] = "started" /\ ClonePath(i) /\ libs[Name(i)] = Absent
  /\ ThreadStep(i, "started", "cloning")
  /\ UNCHANGED <<libs, cut>>

\* Looking for the dependency or starting git throws.
ThreadThrows(i) == ThreadStep(i, "started", "threw") /\ UNCHANGED <<libs, cut>>

Clone(i) ==
  /\ ThreadStep(i, "cloning", IF Name(i) \in lockfile THEN "checkout" ELSE "fetched")
  /\ libs' = [libs EXCEPT ![Name(i)] = "head"] /\ cut' = cut \ {Name(i)}

\* git removes a clone that fails.
CloneFails(i) == ThreadStep(i, "cloning", "failed") /\ UNCHANGED <<libs, cut>>

Checkout(i) ==
  /\ ThreadStep(i, "checkout", "fetched")
  /\ libs' = [libs EXCEPT ![Name(i)] = "locked"]
  /\ UNCHANGED cut

\* The clone stays.
CheckoutFails(i) == ThreadStep(i, "checkout", "failed") /\ UNCHANGED <<libs, cut>>

Thread(i) ==
  \/ Skip(i) \/ BeginClone(i) \/ ThreadThrows(i)
  \/ Clone(i) \/ CloneFails(i) \/ Checkout(i) \/ CheckoutFails(i)

(***************************************************************************)
(* The environment.                                                        *)
(***************************************************************************)

\* The clones of a killed invocation can be in any state.
Kill ==
  /\ Kills /\ pc # "idle"
  /\ libs' \in [Names -> Revisions \cup {Absent, Incomplete, Link}]
  /\ \A n \in Names :
       \/ libs'[n] = libs[n]
       \/ /\ libs'[n] \in {Incomplete, "head"}
          /\ \E i \in DOMAIN manifest : thread[i] = "cloning" /\ Name(i) = n
  /\ cut' = cut \cup {n \in Names : libs'[n] # libs[n]}
  /\ thread' = NoThreads
  /\ End
  /\ UNCHANGED <<project, installed, sentinel>>

Edit ==
  /\ pc = "idle"
  /\ manifest' \in Manifests
  /\ UNCHANGED <<lockfile, disk, mode, pc, left, failed, built, thread>>

\* `catalyst lock`, which skips members, or another revision of catalyst.lock.
Relock ==
  /\ pc = "idle"
  /\ lockfile' \in Lockfiles
  /\ UNCHANGED <<manifest, disk, mode, pc, left, failed, built, thread>>

\* A dependency is deleted by hand.
Delete ==
  /\ pc = "idle"
  /\ \E n \in Names : libs' = [libs EXCEPT ![n] = Absent] /\ cut' = cut \ {n}
  /\ UNCHANGED <<project, installed, sentinel, mode, pc, left, failed, built, thread>>

Step ==
  \/ RemoveLibs \/ RemoveSentinel \/ PreFetch \/ Sort \/ InstallVcpkg
  \/ Launch \/ LaunchThrows \/ LaunchDone \/ Unwind \/ Collect \/ CollectDone
  \/ LinkMember \/ BuildLocal \/ SerialFails \/ SerialDone
  \/ InstallConan \/ PostFetch \/ Stamp

Next ==
  \/ Build \/ ForcedBuild \/ FetchCommand \/ Step \/ Finish
  \/ \E i \in Slots : Thread(i)
  \/ Kill \/ Edit \/ Relock \/ Delete

Spec == Init /\ [][Next]_vars

\* Neither the invocation nor a thread stops: the programs they run end.
FairSpec == Spec /\ WF_vars(Step) /\ \A i \in Slots : WF_vars(Thread(i))

(***************************************************************************)
(* Properties.                                                             *)
(***************************************************************************)
Running == {i \in Slots : thread[i] \in {"started", "cloning", "checkout"}}

\* No thread outlives the loop that started it, whether the fetch goes on,
\* fails or throws: the threads hold references to its locals.
NothingLeftRunning == Running # {} => pc \in {"launching", "collecting", "unwinding"}

\* When generation starts, each git dependency is there, also when the manifest
\* was edited, a dependency was deleted or a forced refetch was killed after the
\* directories but not the sentinel were removed.
GitPresentWhenReady ==
  pc = "ready" =>
    \A i \in DOMAIN manifest : Source(i) = "git" => libs[Name(i)] # Absent

\* "Every build checks local dependencies incrementally, even after the initial
\* fetch" (docs/concepts/preprocessor.md).
LocalsAlwaysChecked ==
  pc = "ready" =>
    \A i \in DOMAIN manifest :
      Source(i) = "local" => Name(i) \in built \/ libs[Name(i)] = Link

\* The sentinel appears only when every dependency has been obtained: installed,
\* built, linked or completely cloned, by this or an earlier invocation. There is
\* one exception: the remains of a clone that a kill has cut off are taken for
\* the dependency, as nothing but the existence of the directory is looked at.
StampedWhenFetched ==
  [][~sentinel /\ sentinel' =>
       \A i \in DOMAIN manifest :
         CASE Source(i) \in {"vcpkg", "conan"} -> <<Source(i), Name(i)>> \in installed
           [] Source(i) = "local" -> Name(i) \in built \/ libs[Name(i)] = Link
           [] Source(i) \in {"git", "url"} ->
                libs[Name(i)] # Absent /\ (libs[Name(i)] = Incomplete => Name(i) \in cut)
           [] OTHER -> TRUE]_vars

\* A fetch ends, whatever fails on the way.
FetchReturns == pc = "starting" ~> pc \in {"idle", "ready"}

\* "catalyst fetch or catalyst build will automatically detect and use the
\* catalyst.lock file if it exists, ensuring that everyone ... use the exact same
\* dependency versions" (docs/cli/lock.md).
LockedRevisionUsed ==
  pc = "ready" =>
    \A i \in DOMAIN manifest :
      Source(i) = "git" /\ Name(i) \in lockfile \ Members => libs[Name(i)] = "locked"
=============================================================================
