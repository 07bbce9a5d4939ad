----------------------------- MODULE Dependencies ----------------------------
(***************************************************************************)
(* What a project compiles and links with for its dependencies (findDep    *)
(* and what it calls, and the loop in writeVariables).  Local dependencies *)
(* are followed into their manifests, those of vcpkg through the database  *)
(* of what it has installed.                                               *)
(*                                                                         *)
(* A dependency is a record                                                *)
(*   [source, to, using, transitive, linkage, triplet, explicit, runs]:    *)
(* explicit has those of "include" and "lib" for which the manifest gives a*)
(* path, runs those of "command" and "script" that it gives.               *)
(*                                                                         *)
(* What fetch and others have left for them is env, a record               *)
(*   [builds, global, packages, prints]: for the build directory of each   *)
(* project what is in it, [vcpkg, conan, git]; the tree below VCPKG_ROOT;  *)
(* what pkg-config knows; what the commands of custom dependencies print.  *)
(* NoValue is the value of what is not there or fails.                     *)
(***************************************************************************)
EXTENDS FeatureFlags, FiniteSets

IsList(s) == s \in Seq(ToSet(s))
IsAnswer(s) == s = NoValue \/ IsList(s)

\* A tree of vcpkg, as described below, is finite.
IsTree(tree) ==
  /\ IsAnswer(tree.status)
  /\ tree.status # NoValue => \A i \in DOMAIN tree.status : IsList(tree.status[i].depends)
  /\ IsFiniteSet(DOMAIN tree.files) /\ \A key \in DOMAIN tree.files : IsList(tree.files[key])
  /\ \A key \in DOMAIN tree.pkgConfig : IsAnswer(tree.pkgConfig[key])

\* What findDep and the loops around it return: the libraries in the order in
\* which they are linked, definitions, local artifacts that are linked, and
\* whether all went well.
Nothing == [ok |-> TRUE, libs |-> <<>>, definitions |-> {}, inputs |-> {}]

\* Mutant of Joined: a library that is linked already is not linked again.
JoinedOnce(first, second) ==
  [ok |-> first.ok /\ second.ok /\ ~Conflict(first.definitions, second.definitions),
   libs |-> first.libs \o SelectSeq(second.libs, LAMBDA l : l \notin ToSet(first.libs)),
   definitions |-> first.definitions \cup second.definitions,
   inputs |-> first.inputs \cup second.inputs]

\* One result after another.
Joined(first, second) ==
  [ok |-> first.ok /\ second.ok /\ ~Conflict(first.definitions, second.definitions),
   libs |-> first.libs \o second.libs,
   definitions |-> first.definitions \cup second.definitions,
   inputs |-> first.inputs \cup second.inputs]

Failed == [Nothing EXCEPT !.ok = FALSE]

(***************************************************************************)
(* Flags, as pkg-config and custom commands print them: [flag, name].      *)
(***************************************************************************)

\* Names of libraries, and what has no known prefix, which is linked as it is.
LinkFlags(tokens) ==
  FlattenSeq([i \in DOMAIN tokens |->
                IF tokens[i].flag \in {"-I", "-L"} THEN <<>> ELSE <<tokens[i].name>>])

\* The same for the answer of which the directories have been asked for apart.
AnsweredLibs(tokens) ==
  FlattenSeq([i \in DOMAIN tokens |-> IF tokens[i].flag = "-L" THEN <<>> ELSE <<tokens[i].name>>])

\* With any other linkage nothing is linked.
IsLinked(d) == d.linkage \in {"static", "shared"}

\* A library that is named for its package, whether or not it exists.
NamedLike(d) == [Nothing EXCEPT !.libs = IF IsLinked(d) THEN <<d.to>> ELSE <<>>]

(***************************************************************************)
(* vcpkg.  A tree is a record [status, files, pkgConfig].  The status is a *)
(* sequence of stanzas [package, triplet, installed, depends], one for a   *)
(* package and one for each of its features, whose depends are pairs of a  *)
(* name and a qualifier.  The others are functions of a package and its    *)
(* triplet: the list of its files [dir, name, library], and the answer of  *)
(* pkg-config where the package has a file for it.                         *)
(***************************************************************************)

\* What the base and the features of a package that is installed depend on, each
\* once, where it is first.
DependsOn(status, port, triplet) ==
  LET tokens == FlattenSeq([i \in DOMAIN status |->
                              IF /\ status[i].package = port /\ status[i].triplet = triplet
                                 /\ status[i].installed
                              THEN status[i].depends ELSE <<>>])
      IsFirst(i) == \A j \in 1 .. (i - 1) : tokens[j][1] # tokens[i][1]
  IN FlattenSeq([i \in DOMAIN tokens |-> IF IsFirst(i) THEN <<tokens[i][1]>> ELSE <<>>])

PackageFiles(tree, port, triplet) ==
  IF <<port, triplet>> \in DOMAIN tree.files THEN tree.files[<<port, triplet>>] ELSE <<>>

\* Not a port that only helps to build others.
HasArtifacts(tree, port, triplet) ==
  \E i \in DOMAIN PackageFiles(tree, port, triplet) :
    PackageFiles(tree, port, triplet)[i].dir \in {"include", "lib", "lib/pkgconfig"}

ScannedLibs(tree, port, triplet) ==
  LET files == PackageFiles(tree, port, triplet) IN
  FlattenSeq([i \in DOMAIN files |->
                IF files[i].dir = "lib" /\ files[i].library THEN <<files[i].name>> ELSE <<>>])

\* What a port depends on, in the order of the database, that it is linked with.
LinkedChildren(tree, port, triplet) ==
  LET names == DependsOn(tree.status, port, triplet) IN
  FlattenSeq([i \in DOMAIN names |->
                IF HasArtifacts(tree, names[i], triplet) THEN <<names[i]>> ELSE <<>>])

\* What visit finds below the children, when seen has been visited before them.
VisitEach(children, seen, visit) ==
  LET found[i \in 0 .. Len(children)] ==
        IF i = 0 THEN <<>>
        ELSE found[i - 1] \o visit[seen \cup ToSet(found[i - 1])][children[i]]
  IN found[Len(children)]

\* Depth-first, after the dependencies: the ports that a visit of root finds.
Visited(tree, root, triplet) ==
  LET Ports == {key[1] : key \in DOMAIN tree.files} \cup {root}
      visit[seen \in SUBSET Ports] ==
        [p \in Ports |->
           IF p \in seen THEN <<>>
           ELSE Append(VisitEach(LinkedChildren(tree, p, triplet), seen \cup {p}, visit), p)]
  IN visit[{}][root]

\* The ports that root needs, each before those that it depends on.
TransitiveClosure(tree, root, triplet) == Reverse(Front(Visited(tree, root, triplet)))

\* Whether pkg-config answers for a dependency.  It is not asked if the others
\* that the package needs are not wanted, since its answer has them too.
Answered(tree, d) ==
  /\ d.transitive
  /\ <<d.to, d.triplet>> \in DOMAIN tree.pkgConfig
  /\ tree.pkgConfig[<<d.to, d.triplet>>] # NoValue

\* Whether the database is searched for what the dependency needs itself.
Followed(tree, d) == d.transitive /\ ~Answered(tree, d) /\ tree.status # NoValue

ResolvedPackage(tree, d) ==
  IF Answered(tree, d) THEN [Nothing EXCEPT !.libs = AnsweredLibs(tree.pkgConfig[<<d.to, d.triplet>>])]
  ELSE IF ~HasArtifacts(tree, d.to, d.triplet) \/ ~IsLinked(d) THEN NamedLike(d)
  ELSE [Nothing EXCEPT !.libs = ScannedLibs(tree, d.to, d.triplet)]

\* Where vcpkg has installed the dependencies of a project.
InstalledRoot(env, project) ==
  IF env.builds[project].vcpkg # NoValue THEN env.builds[project].vcpkg ELSE env.global

FindVcpkg(env, project, d) ==
  LET tree == InstalledRoot(env, project)
      below == TransitiveClosure(tree, d.to, d.triplet)
  IN IF d.triplet = NoValue \/ tree = NoValue THEN Failed
     ELSE IF ~Followed(tree, d) \/ ~IsLinked(d) THEN ResolvedPackage(tree, d)
     ELSE [Nothing EXCEPT !.libs = ResolvedPackage(tree, d).libs \o
             FlattenSeq([i \in DOMAIN below |-> ScannedLibs(tree, below[i], d.triplet)])]

(***************************************************************************)
(* Sources whose flags an external program or the manifest gives.          *)
(***************************************************************************)

\* Without both paths pkg-config is asked; a library it does not know is hoped
\* to be in the default directories.
FindSystem(env, d) ==
  IF d.explicit = {"include", "lib"} \/ d.to \notin DOMAIN env.packages THEN NamedLike(d)
  ELSE [Nothing EXCEPT !.libs = LinkFlags(env.packages[d.to])]

\* A clone that is there gives its own name, whatever its type, and nothing of
\* its features or its dependencies.
FindGit(env, project, d) ==
  LET clones == env.builds[project].git IN
  IF d.to \in DOMAIN clones THEN [Nothing EXCEPT !.libs = <<clones[d.to]>>] ELSE Failed

FindConan(env, project, d) ==
  LET packages == env.builds[project].conan IN
  IF packages = NoValue THEN Failed
  ELSE IF d.to \notin DOMAIN packages THEN Failed
  ELSE [Nothing EXCEPT !.libs = LinkFlags(packages[d.to])]

\* What the one command or script prints counts, unless it fails or prints nothing.
FindCustom(env, d) ==
  IF d.runs \in {{"command"}, {"script"}} /\ env.prints[d.to] \notin {NoValue, <<>>}
  THEN [Nothing EXCEPT !.libs = LinkFlags(env.prints[d.to])]
  ELSE Failed

\* All but local dependencies.
FindForeign(env, project, d) ==
  CASE d.source = "vcpkg" -> FindVcpkg(env, project, d)
    [] d.source = "system" -> FindSystem(env, d)
    [] d.source = "git" -> FindGit(env, project, d)
    [] d.source = "conan" -> FindConan(env, project, d)
    [] d.source = "custom" -> FindCustom(env, d)
    [] OTHER -> Failed

(***************************************************************************)
(* Local dependencies.                                                     *)
(***************************************************************************)

\* What a local project gives those who depend on it, apart from its own
\* dependencies.
FindOwn(projects, d) ==
  LET p == projects[d.to] IN
  IF ~Resolvable(p.flags, d.using) THEN Failed
  ELSE [ok |-> TRUE,
        libs |-> IF p.type = "INTERFACE" THEN <<>> ELSE <<d.to>>,
        definitions |-> Definitions(d.to, p.flags, d.using),
        inputs |-> IF p.type \in {"STATICLIB", "SHAREDLIB"} THEN {d.to} ELSE {}]

LocalsOf(projects) ==
  UNION {{d \in ToSet(projects[n].dependencies) : d.source = "local"} : n \in DOMAIN projects}

\* A dependency of a project; below has what its local ones give.
FindDep(env, project, d, below) ==
  IF d.source = "local" THEN below[d] ELSE FindForeign(env, project, d)

\* The loop over the dependencies of a project, which ends at the first that fails.
WithDependencies(env, project, dependencies, own, below) ==
  LET result[i \in 0 .. Len(dependencies)] ==
        IF i = 0 THEN own
        ELSE IF ~result[i - 1].ok THEN result[i - 1]
        ELSE Joined(result[i - 1], FindDep(env, project, dependencies[i], below))
  IN result[Len(dependencies)]

\* What each local dependency gives.  A project that is reached again below itself
\* is a cycle.  The path that led to it is not shared between siblings, so that a
\* diamond is none.
FindLocals(env, projects, root) ==
  LET find[ancestors \in SUBSET DOMAIN projects] ==
        [d \in LocalsOf(projects) |->
           IF d.to \notin DOMAIN projects \/ d.to \in ancestors THEN Failed
           ELSE WithDependencies(env, d.to, projects[d.to].dependencies, FindOwn(projects, d),
                                 find[ancestors \cup {d.to}])]
  IN find[{root}]

\* The loop of writeVariables over the dependencies of the project root.
FindDependencies(env, projects, root, overrides) ==
  WithDependencies(env, root, projects[root].dependencies,
                   [Nothing EXCEPT !.definitions = Definitions(root, projects[root].flags, overrides)],
                   FindLocals(env, projects, root))
=============================================================================
