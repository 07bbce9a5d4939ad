--------------------------- MODULE WorkspaceGraph ---------------------------
(***************************************************************************)
(* How `catalyst build` turns WORKSPACE.yaml into a plan: the members'     *)
(* manifests are loaded one by one (workspaceBuildGraph, first half), a    *)
(* depth-first visit orders the packages and finds dependency cycles       *)
(* (second half), and the requested package selects the packages to build  *)
(* (workspaceTargets).                                                     *)
(*                                                                         *)
(* The recursion of `visit` is made explicit: active_path holds the        *)
(* packages whose call is open, unfollowed[p] the dependencies that the    *)
(* loop of p's call has still to look at.  Both loops take their elements  *)
(* in any order: graph.packages is an unordered_map, and any manifest may  *)
(* list its dependencies in any order.                                     *)
(***************************************************************************)
EXTENDS Naturals, Sequences, FiniteSets, Functions, WorkspacePlan

CONSTANTS
  Members,      \* keys of WORKSPACE.yaml
  PackageNames, \* package names: manifest names and names of dependencies
  Unnamed,      \* a manifest without manifest.name
  NoMember,     \* a name that no loaded member has
  AllPackages,  \* the empty --package argument
  Manifests     \* the manifests that the members may have

Manifest == [name : PackageNames \cup {Unnamed}, deps : SUBSET PackageNames, loads : BOOLEAN]

ASSUME WorkspaceAssumption ==
  /\ Unnamed \notin PackageNames
  /\ NoMember \notin Members
  /\ AllPackages \notin PackageNames
  /\ Manifests \subseteq [Members -> Manifest]

VARIABLES
  manifest,     \* the members' manifests; "loads" is FALSE when loading throws
  requested,    \* args.package
  phase,        \* "loading", "visiting", "selecting", "ok" or "failed"
  error,        \* which error the function returned, or "none"
  unloaded,     \* members that the loading loop has not reached
  owner,        \* graph.packages: the member that provides a name
  states,       \* VisitState of each package
  active_path,  \* open calls of visit, outermost first
  unfollowed,   \* dependencies that an open call has not followed yet
  build_order,  \* graph.build_order
  cycle,        \* the packages named by the "Circular workspace dependency" error
  frontier,     \* packages that add_with_dependencies is about to be called with
  targets       \* the selected packages

graphVars == <<manifest, requested, phase, error, unloaded, owner, states,
               active_path, unfollowed, build_order, cycle, frontier, targets>>

loadVars == <<unloaded, owner>>
visitVars == <<states, active_path, unfollowed, build_order, cycle>>
selectVars == <<frontier, targets>>

Packages == {n \in PackageNames : owner[n] # NoMember}

\* The dependencies of p that are packages of the workspace; the others are
\* skipped by `graph.packages.contains(dependency)`.
DepsOf(p) == manifest[owner[p]].deps \cap Packages

(***************************************************************************)
(* Initial state and steps.                                                *)
(***************************************************************************)
GraphInit ==
  /\ manifest \in Manifests
  /\ requested \in PackageNames \cup {AllPackages}
  /\ phase = "loading"
  /\ error = "none"
  /\ unloaded = Members
  /\ owner = [n \in PackageNames |-> NoMember]
  /\ states = [n \in PackageNames |-> "Unvisited"]
  /\ active_path = <<>>
  /\ unfollowed = [n \in PackageNames |-> {}]
  /\ build_order = <<>>
  /\ cycle = <<>>
  /\ frontier = {}
  /\ targets = {}

Fail(kind) == phase' = "failed" /\ error' = kind

\* A member whose manifest cannot be loaded ends the build.
LoadThrows(m) ==
  /\ phase = "loading" /\ m \in unloaded
  /\ ~manifest[m].loads
  /\ Fail("load")
  /\ UNCHANGED <<manifest, requested, loadVars, visitVars, selectVars>>

\* A manifest without a name is skipped with a warning.
LoadNameless(m) ==
  /\ phase = "loading" /\ m \in unloaded
  /\ manifest[m].loads /\ manifest[m].name = Unnamed
  /\ unloaded' = unloaded \ {m}
  /\ UNCHANGED <<manifest, requested, phase, error, owner, visitVars, selectVars>>

\* graph.packages.emplace(name, info) inserts ...
LoadMember(m) ==
  /\ phase = "loading" /\ m \in unloaded
  /\ manifest[m].loads /\ manifest[m].name # Unnamed
  /\ owner[manifest[m].name] = NoMember
  /\ owner' = [owner EXCEPT ![manifest[m].name] = m]
  /\ unloaded' = unloaded \ {m}
  /\ UNCHANGED <<manifest, requested, phase, error, visitVars, selectVars>>

\* Mutant of LoadDuplicate: the result of emplace is not looked at.
LoadDuplicateIgnored(m) ==
  /\ phase = "loading" /\ m \in unloaded
  /\ manifest[m].loads /\ manifest[m].name # Unnamed
  /\ owner[manifest[m].name] # NoMember
  /\ unloaded' = unloaded \ {m}
  /\ UNCHANGED <<manifest, requested, phase, error, owner, visitVars, selectVars>>

\* ... or finds the name taken by another member.
LoadDuplicate(m) ==
  /\ phase = "loading" /\ m \in unloaded
  /\ manifest[m].loads /\ manifest[m].name # Unnamed
  /\ owner[manifest[m].name] # NoMember
  /\ Fail("duplicate")
  /\ UNCHANGED <<manifest, requested, loadVars, visitVars, selectVars>>

LoadDone ==
  /\ phase = "loading" /\ unloaded = {}
  /\ phase' = "visiting"
  /\ UNCHANGED <<manifest, requested, error, loadVars, visitVars, selectVars>>

\* The prologue of visit(p) for an unvisited package.
Enter(p) ==
  /\ states' = [states EXCEPT ![p] = "Visiting"]
  /\ active_path' = Append(active_path, p)
  /\ unfollowed' = [unfollowed EXCEPT ![p] = manifest[owner[p]].deps]

\* The outer loop calls visit for each package; a visited one returns at once.
VisitRoot(p) ==
  /\ phase = "visiting" /\ active_path = <<>>
  /\ p \in Packages /\ states[p] = "Unvisited"
  /\ Enter(p)
  /\ UNCHANGED <<manifest, requested, phase, error, loadVars, build_order, cycle,
                 selectVars>>

Current == active_path[Len(active_path)]

\* The innermost call takes up one of its remaining dependencies.
Follow(d) ==
  /\ phase = "visiting" /\ active_path # <<>>
  /\ d \in unfollowed[Current]

\* Mutant of SkipDependency: two colours, an open call counts as visited.
SkipOpenDependency(d) ==
  /\ Follow(d)
  /\ d \in Packages => states[d] # "Unvisited"
  /\ unfollowed' = [unfollowed EXCEPT ![Current] = @ \ {d}]
  /\ UNCHANGED <<manifest, requested, phase, error, loadVars, states, active_path,
                 build_order, cycle, selectVars>>

\* Not a package of the workspace, or a package already visited.
SkipDependency(d) ==
  /\ Follow(d)
  /\ d \in Packages => states[d] = "Visited"
  /\ unfollowed' = [unfollowed EXCEPT ![Current] = @ \ {d}]
  /\ UNCHANGED <<manifest, requested, phase, error, loadVars, states, active_path,
                 build_order, cycle, selectVars>>

\* Mutant of VisitDependency: visit does not return at once for a visited package.
VisitAgain(d) ==
  /\ Follow(d)
  /\ d \in Packages /\ states[d] # "Visiting"
  /\ Enter(d)
  /\ UNCHANGED <<manifest, requested, phase, error, loadVars, build_order, cycle,
                 selectVars>>

\* The recursive call: d stays in unfollowed[Current] until that call has returned,
\* and is skipped as visited then.
VisitDependency(d) ==
  /\ Follow(d)
  /\ d \in Packages /\ states[d] = "Unvisited"
  /\ Enter(d)
  /\ UNCHANGED <<manifest, requested, phase, error, loadVars, build_order, cycle,
                 selectVars>>

\* A package whose call is open: the error names the path from it to itself
\* (std::ranges::find; a package is on the path once).
FindCycle(d) ==
  /\ Follow(d)
  /\ d \in Packages /\ states[d] = "Visiting"
  /\ LET start == CHOOSE i \in DOMAIN active_path : active_path[i] = d
     IN  cycle' = SubSeq(active_path, start, Len(active_path)) \o <<d>>
  /\ Fail("cycle")
  /\ UNCHANGED <<manifest, requested, loadVars, states, active_path, unfollowed,
                 build_order, selectVars>>

\* Mutant of Leave: the package enters the order before its dependencies.
LeaveEarly ==
  /\ phase = "visiting" /\ active_path # <<>>
  /\ active_path' = SubSeq(active_path, 1, Len(active_path) - 1)
  /\ states' = [states EXCEPT ![Current] = "Visited"]
  /\ build_order' = Append(build_order, Current)
  /\ UNCHANGED <<manifest, requested, phase, error, loadVars, unfollowed, cycle, selectVars>>

\* The epilogue of visit: every dependency has been looked at.
Leave ==
  /\ phase = "visiting" /\ active_path # <<>>
  /\ unfollowed[Current] = {}
  /\ active_path' = SubSeq(active_path, 1, Len(active_path) - 1)
  /\ states' = [states EXCEPT ![Current] = "Visited"]
  /\ build_order' = Append(build_order, Current)
  /\ UNCHANGED <<manifest, requested, phase, error, loadVars, unfollowed, cycle, selectVars>>

\* workspaceTargets begins: all packages, an unknown package, or a closure.
SelectAll ==
  /\ requested = AllPackages
  /\ phase' = "ok" /\ targets' = Packages
  /\ UNCHANGED <<error, frontier>>

SelectUnknown ==
  /\ requested \in PackageNames \ Packages
  /\ Fail("unknown_package")
  /\ UNCHANGED <<frontier, targets>>

SelectPackage ==
  /\ requested \in Packages
  /\ phase' = "selecting" /\ frontier' = {requested}
  /\ UNCHANGED <<error, targets>>

VisitDone ==
  /\ phase = "visiting" /\ active_path = <<>>
  /\ \A p \in Packages : states[p] = "Visited"
  /\ SelectAll \/ SelectUnknown \/ SelectPackage
  /\ UNCHANGED <<manifest, requested, loadVars, visitVars>>

\* Mutant of AddWithDependencies: direct dependencies only.
AddWithDirectDependencies(p) ==
  /\ phase = "selecting" /\ p \in frontier
  /\ targets' = targets \cup {p} \cup DepsOf(p)
  /\ frontier' = frontier \ {p}
  /\ UNCHANGED <<manifest, requested, phase, error, loadVars, visitVars>>

AddWithDependencies(p) ==
  /\ phase = "selecting" /\ p \in frontier
  /\ targets' = targets \cup {p}
  /\ frontier' = IF p \in targets THEN frontier \ {p}
                                  ELSE (frontier \ {p}) \cup DepsOf(p)
  /\ UNCHANGED <<manifest, requested, phase, error, loadVars, visitVars>>

SelectDone ==
  /\ phase = "selecting" /\ frontier = {}
  /\ phase' = "ok"
  /\ UNCHANGED <<manifest, requested, error, loadVars, visitVars, selectVars>>

Returned == phase \in {"ok", "failed"}

Terminating == Returned /\ UNCHANGED graphVars

GraphNext ==
  \/ \E m \in Members : LoadThrows(m) \/ LoadNameless(m) \/ LoadMember(m) \/ LoadDuplicate(m)
  \/ LoadDone
  \/ \E p \in PackageNames : VisitRoot(p) \/ SkipDependency(p) \/ VisitDependency(p) \/ FindCycle(p)
  \/ Leave
  \/ VisitDone
  \/ \E p \in PackageNames : AddWithDependencies(p)
  \/ SelectDone
  \/ Terminating

GraphSpec == GraphInit /\ [][GraphNext]_graphVars

(***************************************************************************)
(* Properties.                                                             *)
(***************************************************************************)
\* Every variable has its type.
TypeOK ==
  /\ manifest \in [Members -> Manifest]
  /\ requested \in PackageNames \cup {AllPackages}
  /\ phase \in {"loading", "visiting", "selecting", "ok", "failed"}
  /\ error \in {"none", "load", "duplicate", "cycle", "unknown_package"}
  /\ unloaded \subseteq Members
  /\ owner \in [PackageNames -> Members \cup {NoMember}]
  /\ states \in [PackageNames -> {"Unvisited", "Visiting", "Visited"}]
  /\ active_path \in Seq(PackageNames)
  /\ unfollowed \in [PackageNames -> SUBSET PackageNames]
  /\ build_order \in Seq(PackageNames)
  /\ cycle \in Seq(PackageNames)
  /\ frontier \subseteq PackageNames
  /\ targets \subseteq PackageNames

\* A package enters the build order behind every package it depends on, on
\* whatever path the depth-first visit reached it.
BuildOrderTopological ==
  \A i \in DOMAIN build_order : \A d \in DepsOf(build_order[i]) :
    \E j \in 1 .. i - 1 : build_order[j] = d

\* Once the visit is over the build order lists every package exactly once,
\* although a package may be reached along several paths.
BuildOrderComplete ==
  phase \in {"selecting", "ok"} =>
    /\ Range(build_order) = Packages
    /\ Len(build_order) = Cardinality(Packages)

\* No named member is lost: with two members of one name the build fails
\* instead of building one of them.
EveryMemberPlanned ==
  phase \in {"visiting", "selecting", "ok"} =>
    \A m \in Members : manifest[m].name # Unnamed => owner[manifest[m].name] = m

\* Reference definitions: the packages that p needs are those in every set
\* that contains p and is closed under dependencies.
DependencyClosed(S) == \A p \in S : DepsOf(p) \subseteq S

Closure(p) ==
  {q \in Packages : \A S \in SUBSET Packages : p \in S /\ DependencyClosed(S) => q \in S}

OnCycle(p) == \E d \in DepsOf(p) : p \in Closure(d)

\* The cycle error is raised exactly for cyclic graphs, and the path that it
\* prints is a cycle of dependency edges.
CycleVerdict ==
  /\ error = "cycle" =>
       /\ Len(cycle) > 1 /\ cycle[1] = cycle[Len(cycle)]
       /\ \A i \in 1 .. Len(cycle) - 1 : cycle[i + 1] \in DepsOf(cycle[i])
  /\ phase \in {"selecting", "ok"} => \A p \in Packages : ~OnCycle(p)

\* The targets are the requested package and what it needs, no more: the
\* members left out are not built, the members needed are not forgotten.
TargetsAreClosure ==
  phase = "ok" =>
    targets = IF requested = AllPackages THEN Packages ELSE Closure(requested)

\* What buildWorkspace relies on when it is handed the graph and the targets.
PlanPromised ==
  phase = "ok" =>
    IsPlan(Packages, [p \in Packages |-> DepsOf(p)], build_order, targets)
=============================================================================
