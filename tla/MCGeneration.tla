---------------------------- MODULE MCGeneration ----------------------------
(* Worlds for TLC: layouts of modules with a fixed set of dependencies, and *)
(* layouts of dependencies with a fixed set of units.                       *)
EXTENDS Generation

MCNumbers == {"1", "0"}

Unit(path, kind, provides, requires) ==
  [path |-> path, kind |-> kind, ignoredFor |-> {}, scans |-> TRUE,
   provides |-> provides, requires |-> requires]

Dep(source, to) ==
  [source |-> source, to |-> to, using |-> <<>>, transitive |-> TRUE, linkage |-> "shared",
   triplet |-> "linux", explicit |-> {}, runs |-> {}]
Using(dep, overrides) == [dep EXCEPT !.using = overrides]

Override(form, name, value) == [form |-> form, name |-> name, value |-> value]

Project(type, flags, dependencies) == [type |-> type, flags |-> flags, dependencies |-> dependencies]

Gui == [name |-> "gui", type |-> "bool", default |-> "false", values |-> <<>>, files |-> {"extra"}]
Level == [name |-> "level", type |-> "enum", default |-> "low", values |-> <<"none", "low", "high">>,
          files |-> {}]

File(dir, name) == [dir |-> dir, name |-> name, library |-> dir = "lib"]
Flag(flag, name) == [flag |-> flag, name |-> name]

Stanza(package, depends) ==
  [package |-> package, triplet |-> "linux", installed |-> TRUE,
   depends |-> [i \in DOMAIN depends |-> <<depends[i], "">>]]

(* Ports p to s with a feature of p that needs p and again r, one that has  *)
(* been removed, one for another triplet, a tool that has no library, and   *)
(* headers only in h; r has two libraries, and a file next to them.         *)
Status ==
  <<Stanza("p", <<"q", "tool", "h">>),
    [Stanza("p", <<"p", "r", "q">>) EXCEPT !.depends[3] = <<"q", "core">>],
    Stanza("q", <<"s">>), Stanza("r", <<"q", "s">>), Stanza("tool", <<"c">>), Stanza("s", <<>>),
    [Stanza("h", <<"c">>) EXCEPT !.installed = FALSE], [Stanza("h", <<"c">>) EXCEPT !.triplet = "win"],
    Stanza("h", <<"s">>), Stanza("c", <<"s">>)>>

Port(name) == <<name, "linux">>

Files ==
  [key \in {Port(n) : n \in {"p", "q", "r", "s", "h", "c", "tool"}} |->
     CASE key = Port("h") -> <<File("include", "h")>>
       [] key = Port("tool") -> <<File("share", "tool"), File("debug/lib", "tool")>>
       [] key = Port("c") -> <<File("lib/pkgconfig", "c"), File("lib", "c")>>
       [] key = Port("r") -> <<File("lib", "r"), [File("lib", "r") EXCEPT !.library = FALSE],
                               File("lib", "rx")>>
       [] OTHER -> <<File("include", key[1]), File("lib", key[1])>>]

Database ==
  [status |-> Status, files |-> Files,
   pkgConfig |-> [key \in {Port("c"), Port("q")} |->
                    IF key = Port("c") THEN <<Flag("-L", "dir"), Flag("-l", "c"), Flag("", "s")>>
                                       ELSE NoValue]]

(* Ports q and s need each other, and q another one that needs nothing.     *)
Cyclic ==
  [Database EXCEPT !.status = Status \o <<Stanza("s", <<"q">>), Stanza("q", <<"last">>)>>,
                   !.files = @ @@ (Port("last") :> <<File("lib", "last")>>)]
Unreadable == [Database EXCEPT !.status = NoValue]

(* What is found in all build directories, or in those of some projects.    *)
BuildDir(tree) ==
  [vcpkg |-> tree, conan |-> [n \in {"o"} |-> <<Flag("-L", "dir"), Flag("-l", "o"), Flag("", "-pthread")>>],
   git |-> [n \in {"g"} |-> "gname"]]
Empty == [vcpkg |-> NoValue, conan |-> NoValue, git |-> [n \in {} |-> ""]]

Env(projects, tree, global) ==
  [builds |-> [n \in {"app", "x", "y", "z"} |-> IF n \in projects THEN BuildDir(tree) ELSE Empty],
   global |-> global,
   packages |-> [n \in {"k"} |-> <<Flag("-I", "dir"), Flag("-l", "k"), Flag("-l", "kz")>>],
   prints |-> [n \in {"m", "bad", "none"} |->
                 CASE n = "m" -> <<Flag("-I", "dir"), Flag("-l", "m"), Flag("-L", "dir")>>
                   [] n = "bad" -> NoValue [] n = "none" -> <<>>]]

Everywhere(tree) == Env({"app", "x", "y", "z"}, tree, NoValue)

NoEnv == [builds |-> [n \in {"app", "lib"} |-> Empty], global |-> NoValue,
          packages |-> [n \in {} |-> <<>>], prints |-> [n \in {} |-> <<>>]]

Main == Unit("main", "cxx", {}, {})

SmallWorld ==
  [generator |-> "cob", root |-> "app", profiles |-> {}, overrides |-> <<>>,
   projects |-> [n \in {"app", "lib"} |-> IF n = "app"
                   THEN Project("BINARY", {Gui}, <<Dep("local", "lib")>>)
                   ELSE Project("STATICLIB", {}, <<>>)],
   env |-> NoEnv, dirs |-> <<"src">>, tree |-> [d \in {"src"} |-> {Main}]]

(* Units that provide a and b or import them: each of three files may be an *)
(* interface unit of a module or a plain source, with any imports.          *)
Interfaces ==
  {Unit("fa", kind, p, r) : kind \in {"interface", "cxx"}, p \in {{"a"}}, r \in {{}, {"b"}}}

Layouts ==
  {{fa, fb, fm} :
     fa \in Interfaces,
     fb \in {Unit("fb", "interface", p, r) : p \in {{"b"}, {"a"}, {"a", "b"}}, r \in {{}, {"a"}}},
     fm \in {Unit("main", "cxx", {}, r) : r \in SUBSET {"a", "b"}}}

Trees ==
  {[d \in {"src"} |-> l] : l \in Layouts}
    \cup {[d \in {"src"} |-> {Main, Unit("fa", "cxx", {"a"}, {}), Unit("extra", "cxx", {}, {"a"})}],
          [d \in {"src"} |-> {Main, Unit("extra", "interface", {"a"}, {})}],
          [d \in {"src"} |-> {Main, [Unit("fa", "interface", {"a"}, {}) EXCEPT !.scans = FALSE]}],
          [d \in {"src"} |-> {Main, [Unit("fa", "interface", {"a"}, {}) EXCEPT !.ignoredFor = {"common"}]}],
          [d \in {"lib"} |-> {Main}]}

ModuleWorlds(generators) ==
  {[SmallWorld EXCEPT !.tree = t, !.overrides = o, !.generator = g] :
     t \in Trees, g \in generators,
     o \in {<<>>, <<Override("bare", "gui", "")>>, <<Override("value", "gui", "maybe")>>}}

(* Four projects: the root depends on x and y, which may depend on z, on    *)
(* each other and on ports, and ask z for different features.               *)
LocalLists ==
  {<<>>, <<Dep("local", "z")>>, <<Dep("vcpkg", "q")>>,
   <<Using(Dep("local", "z"), <<Override("value", "level", "high")>>)>>,
   <<Using(Dep("local", "z"), <<Override("value", "level", "top")>>)>>,
   <<Using(Dep("local", "z"), <<Override("value", "level", "high"), Override("value", "level", "low")>>)>>}

RootLists ==
  {<<Dep("local", "x"), Dep("local", "y")>>,
   <<Dep("local", "y"), Dep("vcpkg", "p"), Dep("local", "x")>>}

FourProjects(type, deps, xDeps, yType, yDeps, zDeps) ==
  [n \in {"app", "x", "y", "z"} |->
     CASE n = "app" -> Project(type, {}, deps)
       [] n = "x" -> Project("STATICLIB", {}, xDeps)
       [] n = "y" -> Project(yType, {Gui}, yDeps)
       [] n = "z" -> Project("SHAREDLIB", {Level}, zDeps)]

LocalWorlds ==
  {[SmallWorld EXCEPT !.env = Everywhere(tree),
                      !.projects = FourProjects(type, deps, xDeps, yType, yDeps, zDeps)] :
     tree \in {Database, Cyclic}, type \in {"BINARY", "STATICLIB"}, deps \in RootLists,
     xDeps \in LocalLists \cup {<<Dep("local", "y"), Dep("local", "z")>>, <<Dep("local", "missing")>>},
     yType \in {"STATICLIB", "INTERFACE"}, yDeps \in LocalLists,
     zDeps \in {<<>>, <<Dep("vcpkg", "r")>>, <<Dep("local", "x")>>}}

(* A dependency of each source, in what it may lack.                        *)
Custom(to, runs) == [Dep("custom", to) EXCEPT !.runs = runs]

ForeignDeps ==
  {Dep("vcpkg", "p"), [Dep("vcpkg", "p") EXCEPT !.transitive = FALSE],
   [Dep("vcpkg", "p") EXCEPT !.linkage = "none"], [Dep("vcpkg", "p") EXCEPT !.triplet = "win"],
   [Dep("vcpkg", "p") EXCEPT !.triplet = NoValue],
   Dep("vcpkg", "q"), Dep("vcpkg", "c"), Dep("vcpkg", "tool"), Dep("vcpkg", "unknown"),
   Dep("system", "k"), Dep("system", "l"), [Dep("system", "l") EXCEPT !.linkage = "none"],
   [Dep("system", "k") EXCEPT !.explicit = {"lib"}],
   [Dep("system", "k") EXCEPT !.explicit = {"include", "lib"}],
   Dep("git", "g"), Dep("git", "l"), Dep("conan", "o"), Dep("conan", "l"),
   Custom("m", {"command"}), Custom("m", {}), Custom("m", {"command", "script"}),
   Custom("bad", {"script"}), Custom("none", {"script"}), Dep("unknown", "u")}

ForeignWorlds ==
  {[SmallWorld EXCEPT !.env = env,
                      !.projects = FourProjects("BINARY", deps, <<d>>, "INTERFACE", <<>>, <<>>)] :
     d \in ForeignDeps, deps \in RootLists,
     env \in {Everywhere(tree) : tree \in {Database, Cyclic, Unreadable}}
               \cup {Env({"app"}, Database, global) : global \in {NoValue, Database, Unreadable}}}

InterfaceWorld ==
  [SmallWorld EXCEPT !.projects["app"].type = "INTERFACE", !.projects["lib"].type = "SHAREDLIB"]

(* Two source directories of the two that the tree has, or one of a third   *)
(* that is missing; a header is no source.                                  *)
GeneratedTree ==
  [d \in {"src", "gen"} |-> IF d = "src" THEN {Main, Unit("header", "other", {}, {})}
                                         ELSE {Unit("gen", "interface", {"a"}, {})}]

DirectoryWorlds ==
  {[SmallWorld EXCEPT !.tree = GeneratedTree, !.dirs = dirs] :
     dirs \in {<<>>, <<"src", "gen">>, <<"gen", "src", "gen">>, <<"src", "lib">>}}

MakeWorlds == ModuleWorlds({"make"})

MCWorlds ==
  ModuleWorlds({"cob", "ninja", "make"}) \cup LocalWorlds \cup ForeignWorlds
    \cup {InterfaceWorld} \cup DirectoryWorlds
=============================================================================
