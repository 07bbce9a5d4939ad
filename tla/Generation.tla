----------------------------- MODULE Generation -----------------------------
(***************************************************************************)
(* What generate writes into the build file, and what the backend makes of *)
(* it: features, the source set, dependencies, the scan of C++ modules,    *)
(* one edge for each object and one for the target, a first build, and     *)
(* builds after a file has been touched.                                   *)
(*                                                                         *)
(* A world is a project with all that is around it: its generator, name,   *)
(* profiles and overrides, the manifests of all projects, env, which has   *)
(* their dependencies, its source directories in their order, and the tree:*)
(* the units below each directory that exists.  A unit is a record         *)
(*   [path, kind, ignoredFor, scans, provides, requires].                  *)
(* Compiler, scanner and backend are external.  Times are left out: newer  *)
(* has the pairs of a file and an output that is older than this file.     *)
(***************************************************************************)
EXTENDS Dependencies, FiniteSets

CONSTANTS
  Worlds,     \* the worlds that are looked at
  MaxTouches  \* bound on the files that are touched between builds

ASSUME MaxTouchesAssumption == MaxTouches \in Nat

\* There are three writers of build files, manifests and trees are finite, with one
\* feature of a name, programs print lists, and there is one unit at a path.
ASSUME WorldsAssumption ==
  \A w \in Worlds :
    /\ w.generator \in {"ninja", "cob", "make"}
    /\ IsFiniteSet(DOMAIN w.projects) /\ w.root \in DOMAIN w.projects
    /\ \A p \in DOMAIN w.projects :
         /\ IsList(w.projects[p].dependencies)
         /\ \A f, g \in w.projects[p].flags : f.name = g.name => f = g
         /\ \A f \in w.projects[p].flags : IsList(f.values)
         /\ InstalledRoot(w.env, p) = NoValue \/ IsTree(InstalledRoot(w.env, p))
         /\ w.env.builds[p].conan # NoValue =>
              \A n \in DOMAIN w.env.builds[p].conan : IsList(w.env.builds[p].conan[n])
         /\ \A d \in ToSet(w.projects[p].dependencies) :
              d.source = "custom" => IsAnswer(w.env.prints[d.to])
    /\ \A n \in DOMAIN w.env.packages : IsList(w.env.packages[n])
    /\ \A d, e \in DOMAIN w.tree : \A u \in w.tree[d], v \in w.tree[e] : u.path = v.path => u = v

VARIABLES
  world,      \* what generate finds; it never changes
  pc,         \* the next step
  failure,    \* the step that failed, or ""
  sources,    \* the units that are compiled
  found,      \* what the dependencies contribute
  scanned,    \* the units whose scan has been read
  providers,  \* pairs of a module and the unit that provides it
  edges,      \* the edges of the build file
  built,      \* outputs that exist
  newer,      \* pairs of a file and an output that is older
  touches     \* files that have been touched

vars == <<world, pc, failure, sources, found, scanned, providers, edges, built, newer, touches>>

(***************************************************************************)
(* Files and edges.                                                        *)
(***************************************************************************)

Source(unit) == <<"source", unit.path>>
Object(unit) == <<"object", unit.path>>
Artifact(project) == <<"artifact", project>>

Manifest == world.projects[world.root]
Target == Artifact(world.root)
HasInterface(units) == \E u \in units : u.kind = "interface"

(***************************************************************************)
(* Actions of generate.                                                    *)
(***************************************************************************)

GenerateIn(w) ==
  /\ world = w
  /\ pc = "features" /\ failure = ""
  /\ sources = {} /\ found = Nothing /\ scanned = {} /\ providers = {} /\ edges = {}
  /\ built = {} /\ newer = {} /\ touches = 0

Init == \E w \in Worlds : GenerateIn(w)

Fail(step) == pc' = "failed" /\ failure' = step
Continue(step) == pc' = step /\ UNCHANGED failure

ResolveFeatureFlags ==
  /\ pc = "features"
  /\ IF Resolvable(Manifest.flags, world.overrides) THEN Continue("sources") ELSE Fail("features")
  /\ UNCHANGED <<world, sources, found, scanned, providers, edges, built, newer, touches>>

\* The sections of .catalystignore that count are those of common and of the
\* profiles; a file is taken for its extension.
Accepted(unit) ==
  /\ unit.ignoredFor \cap ({"common"} \cup world.profiles) = {}
  /\ unit.kind \in {"c", "cxx", "interface"}

\* Paths that belong to features that are off.
FilteredOut ==
  UNION {flag.files : flag \in {f \in Manifest.flags : ~IsEnabled(f, world.overrides)}}

BuildSourceSet ==
  /\ pc = "sources"
  /\ IF \E i \in DOMAIN world.dirs : world.dirs[i] \notin DOMAIN world.tree
     THEN Fail("sources") /\ UNCHANGED sources
     ELSE /\ Continue("variables")
          /\ sources' = {u \in UNION {world.tree[dir] : dir \in ToSet(world.dirs)} :
                           Accepted(u) /\ u.path \notin FilteredOut}
  /\ UNCHANGED <<world, found, scanned, providers, edges, built, newer, touches>>

WriteVariables ==
  /\ pc = "variables"
  /\ found' = FindDependencies(world.env, world.projects, world.root, world.overrides)
  /\ IF found'.ok THEN Continue("scan") ELSE Fail("variables")
  /\ UNCHANGED <<world, sources, scanned, providers, edges, built, newer, touches>>

\* Without an interface unit nothing is scanned.
SkipScan ==
  /\ pc = "scan" /\ ~HasInterface(sources)
  /\ Continue("edges")
  /\ UNCHANGED <<world, sources, found, scanned, providers, edges, built, newer, touches>>

\* Mutant of Readable: what the unit requires must have been provided before.
ReadableInOrder(unit) ==
  unit.scans /\ unit.requires \subseteq {p[1] : p \in providers} \cup unit.provides

\* Whether the output of the scanner for a unit is accepted: one module at most,
\* that no other unit provides.
Readable(unit) ==
  /\ unit.scans
  /\ Cardinality(unit.provides) <= 1
  /\ \A p \in providers : p[1] \notin unit.provides

\* The source set is unordered.
ScanUnit(unit) ==
  /\ pc = "scan" /\ HasInterface(sources)
  /\ unit \in sources \ scanned
  /\ IF Readable(unit)
     THEN /\ scanned' = scanned \cup {unit}
          /\ providers' = providers \cup (unit.provides \X {unit})
          /\ UNCHANGED <<pc, failure>>
     ELSE Fail("scan") /\ UNCHANGED <<scanned, providers>>
  /\ UNCHANGED <<world, sources, found, edges, built, newer, touches>>

EndScan ==
  /\ pc = "scan" /\ HasInterface(sources) /\ scanned = sources
  /\ IF \A u \in scanned : u.requires \subseteq {p[1] : p \in providers}
     THEN Continue("edges") ELSE Fail("scan")
  /\ UNCHANGED <<world, sources, found, scanned, providers, edges, built, newer, touches>>

ProvidersOf(modules) == {p[2] : p \in {q \in providers : q[1] \in modules}}

\* Mutant of CompileEdge: no edge to the objects of the providers.
CompileEdgeUnordered(unit) ==
  LET required == IF unit \in scanned THEN unit.requires ELSE {} IN
  [output |-> Object(unit), inputs |-> {Source(unit)}, implicit |-> {}, bmis |-> required]

\* An importer gets the BMIs of what it imports and waits for the providers'
\* objects.
CompileEdge(unit) ==
  LET required == IF unit \in scanned THEN unit.requires ELSE {} IN
  [output |-> Object(unit), inputs |-> {Source(unit)},
   implicit |-> {Object(p) : p \in ProvidersOf(required)}, bmis |-> required]

\* Mutant of LinkEdge: local libraries are no inputs.
LinkEdgeOfObjects ==
  [output |-> Target, inputs |-> {Object(u) : u \in sources}, implicit |-> {}, bmis |-> {}]

\* A static library is not linked, so that nothing that is linked is its input.
LinkEdge ==
  [output |-> Target, inputs |-> {Object(u) : u \in sources},
   implicit |-> IF Manifest.type = "STATICLIB" THEN {} ELSE {Artifact(p) : p \in found.inputs},
   bmis |-> {}]

WriteEdges ==
  /\ pc = "edges"
  /\ edges' = {CompileEdge(u) : u \in sources}
                \cup IF Manifest.type = "INTERFACE" THEN {} ELSE {LinkEdge}
  /\ Continue("build")
  /\ UNCHANGED <<world, sources, found, scanned, providers, built, newer, touches>>

(***************************************************************************)
(* The backend reads the edges as their writer wrote them.                 *)
(***************************************************************************)

\* What becomes of an edge: inputs of the command, further ones that make the
\* output out of date, and those that are only waited for.
NinjaStep(edge) == [inputs |-> edge.inputs, implicit |-> edge.implicit, orderOnly |-> {}]

\* To cob the implicit ones are opaque inputs, which it does not pass on.
CobStep(edge) == [inputs |-> edge.inputs, implicit |-> edge.implicit, orderOnly |-> {}]

\* The implicit inputs of an edge are written after a bar.
MakeStep(edge) == [inputs |-> edge.inputs, implicit |-> {}, orderOnly |-> edge.implicit]

Step(edge) ==
  CASE world.generator = "ninja" -> NinjaStep(edge)
    [] world.generator = "cob" -> CobStep(edge)
    [] world.generator = "make" -> MakeStep(edge)

Triggers(edge) == Step(edge).inputs \cup Step(edge).implicit

Pending(edge) ==
  \/ edge.output \notin built
  \/ \E x \in Triggers(edge) : <<x, edge.output>> \in newer

Ready(edge) ==
  \A e \in edges : e.output \in Triggers(edge) \cup Step(edge).orderOnly => ~Pending(e)

\* A unit is compiled only with the BMIs of the modules that it imports and of those
\* that their interface units import in turn: the compiler looks for no BMI that the
\* command does not name.  A BMI appears together with the object of its unit.
Compiles(edge) ==
  \A u \in sources : edge.output = Object(u) =>
    /\ u.requires \subseteq edge.bmis
    /\ \A p \in ProvidersOf(edge.bmis) : p.requires \subseteq edge.bmis /\ Object(p) \in built

\* What an output is really made from, whatever its edge says.
MadeFrom(output) ==
  IF output = Target
  THEN {Object(u) : u \in sources}
         \cup IF Manifest.type = "STATICLIB" THEN {} ELSE {Artifact(p) : p \in found.inputs}
  ELSE UNION {{Source(u)} \cup {Object(v) : v \in {w \in sources : w.provides \cap u.requires # {}}} :
                u \in {w \in sources : Object(w) = output}}

Affected(file, outputs) == {<<file, o>> : o \in {p \in outputs : file \in MadeFrom(p)}}

Build(edge) ==
  /\ pc = "build" /\ edge \in edges /\ Pending(edge) /\ Ready(edge)
  /\ IF Compiles(edge)
     THEN /\ built' = built \cup {edge.output}
          /\ newer' = {n \in newer : n[2] # edge.output} \cup Affected(edge.output, built)
          /\ UNCHANGED <<pc, failure>>
     ELSE Fail("build") /\ UNCHANGED <<built, newer>>
  /\ UNCHANGED <<world, sources, found, scanned, providers, edges, touches>>

BuildEnds ==
  /\ pc = "build"
  /\ \A e \in edges : ~(Pending(e) /\ Ready(e))
  /\ IF \E e \in edges : Pending(e) THEN Fail("cycle") ELSE Continue("done")
  /\ UNCHANGED <<world, sources, found, scanned, providers, edges, built, newer, touches>>

\* A unit is edited, its imports left as they are, or a local library is built
\* again; then comes another build, which does not generate.
Touch(file) ==
  /\ pc = "done" /\ touches < MaxTouches
  /\ newer' = newer \cup Affected(file, built)
  /\ touches' = touches + 1
  /\ Continue("build")
  /\ UNCHANGED <<world, sources, found, scanned, providers, edges, built>>

Next ==
  \/ ResolveFeatureFlags \/ BuildSourceSet \/ WriteVariables
  \/ SkipScan \/ EndScan \/ WriteEdges \/ BuildEnds
  \/ \E u \in sources : ScanUnit(u) \/ Touch(Source(u))
  \/ \E e \in edges : Build(e)
  \/ \E p \in found.inputs : Touch(Artifact(p))

Spec == Init /\ [][Next]_vars

(***************************************************************************)
(* Properties.                                                             *)
(***************************************************************************)

Projects == DOMAIN world.projects

DependenciesOf(p) == IF p \in Projects THEN ToSet(world.projects[p].dependencies) ELSE {}

Locals(p) == {d \in DependenciesOf(p) : d.source = "local"}

\* Local dependencies with all that the projects have to which they lead.
Complete == {S \in SUBSET LocalsOf(world.projects) : \A d \in S : Locals(d.to) \subseteq S}

\* The local dependencies of the project p, its own and those below them.
ReachedFrom(p) == {d \in LocalsOf(world.projects) : \A S \in Complete : Locals(p) \subseteq S => d \in S}

Reached == ReachedFrom(world.root)

ProjectsReached == {world.root} \cup {d.to : d \in Reached}

\* Definitions that projects promise to those who include their headers.
Promised ==
  Definitions(world.root, Manifest.flags, world.overrides)
    \cup UNION {Definitions(d.to, world.projects[d.to].flags, d.using) :
                  d \in {r \in Reached : r.to \in DOMAIN world.projects}}

Consistent(definitions) == \A l, r \in definitions : l[1] = r[1] => l[2] = r[2]

Buildable ==
  /\ \A d \in Reached : d.to \in Projects /\ Resolvable(world.projects[d.to].flags, d.using)
  /\ \A p \in ProjectsReached :
       /\ p \notin {d.to : d \in ReachedFrom(p)}
       /\ \A d \in DependenciesOf(p) \ Locals(p) : FindForeign(world.env, p, d).ok

\* What the dependencies contribute has just been found; it does not change later.
VariablesWritten == pc = "scan" /\ scanned = {}

(***************************************************************************)
(* A project is compiled with exactly the definitions that it and all the  *)
(* local projects it reaches promise, whichever path leads to them, and it *)
(* is refused if a macro would have two values, if a project is missing or *)
(* does not take the features asked of it, if projects are in a cycle, or  *)
(* if another dependency of one of them is not found: for nothing else.    *)
(***************************************************************************)
DefinitionsExact ==
  /\ VariablesWritten => Buildable /\ Consistent(Promised) /\ found.definitions = Promised
  /\ failure = "variables" => ~(Buildable /\ Consistent(Promised))

\* What is built is no input of itself.
NotOwnInput == VariablesWritten => world.root \notin found.inputs

\* What is linked because project p has the dependency d: a project, a port whose
\* own dependencies are to be linked too, or something that is taken as it is.
NodeOf(p, d) ==
  CASE d.source = "local" -> <<"project", d.to>>
    [] d.source = "vcpkg" /\ Followed(InstalledRoot(world.env, p), d) /\ IsLinked(d) ->
         <<"port", d.to, d.triplet, p>>
    [] OTHER -> <<"other", d, p>>

\* What a port of a tree needs: what is in each set of linked ports that has what
\* it needs itself and all that those in the set need.
PortsBelow(tree, port, triplet) ==
  LET linked == {p \in {key[1] : key \in DOMAIN tree.files} : HasArtifacts(tree, p, triplet)}
      needs == UNION {{p} \X ToSet(LinkedChildren(tree, p, triplet)) : p \in linked \cup {port}}
      closed == {S \in SUBSET linked : \A n \in needs : n[1] \in S \cup {port} => n[2] \in S}
  IN {p \in linked : \A S \in closed : p \in S}

PortNodesBelow(node) ==
  IF node[1] # "port" THEN {}
  ELSE {<<"port", p, node[3], node[4]>> :
          p \in PortsBelow(InstalledRoot(world.env, node[4]), node[2], node[3])}

\* What there is for the dependencies of project p and the ports below them.
NodesFor(p) == UNION {{NodeOf(p, d)} \cup PortNodesBelow(NodeOf(p, d)) : d \in DependenciesOf(p)}

\* All that a node needs, at any depth.
NeededBy(node) ==
  IF node[1] = "project"
  THEN UNION {NodesFor(p) : p \in {node[2]} \cup {d.to : d \in ReachedFrom(node[2])}}
  ELSE PortNodesBelow(node)

\* A node that needs another one that needs it.
InCycle(node) == \E other \in NeededBy(node) \ {node} : node \in NeededBy(other)

\* What a port is linked with that does not need it.
FurtherDown(node) ==
  IF node[1] # "port" THEN {}
  ELSE {child \in {<<"port", c, node[3], node[4]>> :
                      c \in ToSet(LinkedChildren(InstalledRoot(world.env, node[4]), node[2], node[3]))} :
          node \notin NeededBy(child)}

LibrariesOf(node) ==
  CASE node[1] = "project" ->
         IF world.projects[node[2]].type = "INTERFACE" THEN {} ELSE {node[2]}
    [] node[1] = "port" ->
         LET tree == InstalledRoot(world.env, node[4]) IN
         IF HasArtifacts(tree, node[2], node[3])
           THEN ToSet(ScannedLibs(tree, node[2], node[3])) ELSE {node[2]}
    [] OTHER -> ToSet(FindForeign(world.env, node[3], node[2]).libs)

(***************************************************************************)
(* A static linker reads libraries from left to right.  All that a project *)
(* needs, at any depth, is on the line, and each library on the line is    *)
(* there for something, all of whose own needs are named again to the right*)
(* of it.  One of the ports in a cycle must be first: to the right of each *)
(* of them is what it is linked with itself and is not in the cycle.  What *)
(* is built is not one of its own inputs.                                  *)
(***************************************************************************)
LinksInOrder ==
  /\ NotOwnInput
  /\ VariablesWritten =>
    LET nodes == NeededBy(<<"project", world.root>>)
        below == [n \in nodes |-> NeededBy(n)]
        after == [i \in 0 .. Len(found.libs) |-> {found.libs[j] : j \in (i + 1) .. Len(found.libs)}]
    IN /\ \A n \in nodes : LibrariesOf(n) \subseteq after[0]
       /\ \A i \in DOMAIN found.libs : \E n \in nodes :
            /\ found.libs[i] \in LibrariesOf(n)
            /\ \/ \A needed \in below[n] \ {n} : LibrariesOf(needed) \subseteq after[i]
               \/ /\ InCycle(n)
                  /\ \A child \in FurtherDown(n) : LibrariesOf(child) \subseteq after[i]

\* Each unit is read, provides one module at most, and each module that is
\* required is provided by one unit.
WellFormed ==
  /\ \A u \in sources : u.scans /\ Cardinality(u.provides) <= 1
  /\ \A u, v \in sources : u # v => u.provides \cap v.provides = {}
  /\ UNION {u.requires : u \in sources} \subseteq UNION {u.provides : u \in sources}

(***************************************************************************)
(* Whether the scan accepts a project with an interface unit depends on    *)
(* its units only, never on the order in which the unordered set gives     *)
(* them.                                                                   *)
(***************************************************************************)
ScanVerdict ==
  HasInterface(sources) =>
    /\ pc \in {"edges", "build", "done"} => WellFormed
    /\ failure = "scan" => ~WellFormed

\* There are units each of which imports one of them.
ImportCycle ==
  \E cycle \in SUBSET sources :
    cycle # {} /\ \A u \in cycle : \E w \in cycle : w.provides \cap u.requires # {}

\* A unit imports a module, but not all that the interface unit of this one imports.
ImportsIndirectly ==
  \E u, v \in sources : v.provides \cap u.requires # {} /\ ~(v.requires \subseteq u.requires)

(***************************************************************************)
(* Once the scan has accepted a project, what becomes of its build is a    *)
(* matter of its imports only, in whichever order the backend takes the    *)
(* edges.  A compile misses a BMI only where a unit reaches a module by    *)
(* way of another one and does not import it itself, the backend gets      *)
(* stuck only where modules import each other in a cycle, and a project    *)
(* that has one or the other is never built to the end.                    *)
(***************************************************************************)
ModulesBuild ==
  HasInterface(sources) =>
    /\ failure = "build" => ImportsIndirectly
    /\ failure = "cycle" => ImportCycle
    /\ pc = "done" => ~ImportCycle /\ ~ImportsIndirectly

(***************************************************************************)
(* When cob or ninja has nothing left to do, no object is older than its   *)
(* source or the object of an interface unit that it imports, and no       *)
(* target is older than its objects and the local libraries it links.      *)
(* Under make an importer and a target may stay behind what is written as  *)
(* an order-only prerequisite, and behind nothing else.                    *)
(***************************************************************************)
UpToDate ==
  pc = "done" =>
    \A n \in newer : /\ world.generator = "make"
                     /\ \E e \in edges : e.output = n[2] /\ n[1] \in e.implicit

(***************************************************************************)
(* "A TU importing M ... gains a dependency edge on M's object file, which *)
(* guarantees correct build ordering and staleness propagation through the *)
(* import graph" (docs/concepts/modules.md): whatever the generator, after *)
(* a build no importer is older than the object of what it imports.        *)
(***************************************************************************)
StalenessPropagates ==
  pc = "done" =>
    \A u, v \in sources : v.provides \cap u.requires # {} => <<Object(v), Object(u)>> \notin newer
=============================================================================
