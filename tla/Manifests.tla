----------------------------- MODULE Manifests -----------------------------
(***************************************************************************)
(* The manifest of one project: the profiles in CATALYST.yaml and in       *)
(* catalyst_<profile>.yaml, their composition into a configuration         *)
(* (Configuration's constructor, merge and mergeHelper), and               *)
(* `catalyst add`, which edits them (loadProfileFile, addToProfile and     *)
(* profileWriteBack).  One command composes while another one adds; no     *)
(* lock keeps them apart.                                                  *)
(*                                                                         *)
(* A profile and a configuration are functions on keys.  Each key that is  *)
(* treated in a way of its own is there once: name stands for all scalars  *)
(* of `manifest`, engine for those of `tooling` and `tooling.doc`, source  *)
(* for both sequences of `dirs`, feature and hook for any one of theirs.   *)
(***************************************************************************)
EXTENDS Integers, FiniteSets, Sequences, SequencesExt

CONSTANTS
  Profiles,   \* names of profiles
  Names,      \* names of dependencies
  NoName,     \* a dependency without a name
  Origins,    \* what declarations of a dependency are told apart by
  Unset,      \* a key that is not there
  Null,       \* a key whose value is null
  Missing,    \* CATALYST.yaml does not exist
  Torn,       \* a file that has been truncated and not been written again
  Layouts,    \* the manifests to begin with: [combined, split]
  Requests,   \* lists of profiles that commands compose
  Additions   \* what is added: a dependency and a list of profiles

\* The sections a leaf is in: nulling one of them removes the leaf.
Above ==
  [min_ver |-> {"meta"}, generator |-> {"meta"},
   name |-> {"manifest"}, engine |-> {"manifest", "tooling", "doc"},
   source |-> {"manifest", "dirs"}, feature |-> {"features"}, hook |-> {"hooks"},
   dependencies |-> {}]

Leaves == DOMAIN Above
Sections == {"meta", "manifest", "tooling", "doc", "dirs", "features", "hooks"}
\* "unknown" stands for a key that a manifest may not have.
Keys == Leaves \cup Sections \cup {"unknown"}

Generators == {"cob", "ninja", "gmake", "make"}
Dependency == [name : Names \cup {NoName}, from : Origins]

EmptyProfile == [k \in Keys |-> Unset]

\* What a profile may have for a key, besides null; of a section only that counts.
Written(k) ==
  CASE k = "dependencies" -> Seq(Dependency)
    [] k = "min_ver" -> Seq(Nat)
    [] k \in {"source", "hook"} -> Seq(STRING)
    [] k \in Sections -> {}
    [] OTHER -> STRING

IsProfile(p) ==
  /\ p = [k \in Keys |-> p[k]]
  /\ \A k \in Keys : p[k] \in Written(k) \cup {Unset, Null}

Profile ==
  {p \in [Keys -> Seq(Dependency) \cup Seq(Nat) \cup Seq(STRING) \cup STRING \cup {Unset, Null}] :
     IsProfile(p)}

AreProfiles(f) == \A n \in DOMAIN f : IsProfile(f[n])

ASSUME ConstantsAssumption ==
  /\ Missing # Torn /\ Unset # Null
  /\ {Unset, Null} \cap (Generators \cup Seq(STRING) \cup Seq(Dependency)) = {}
  /\ Torn \notin Profile
  /\ \A S \in SUBSET Profiles : {Missing, Torn} \cap [S -> Profile] = {}
  /\ "add" \in Origins
  /\ Requests \subseteq Seq(Profiles)
  /\ \A addition \in Additions :
       addition.name \in Names /\ addition.profiles \in Seq(Profiles) \ {<<>>}
  /\ \A layout \in Layouts :
       /\ layout.combined # Torn
       /\ layout.combined # Missing =>
            AreProfiles(layout.combined) /\ DOMAIN layout.combined \subseteq Profiles
       /\ AreProfiles(layout.split)
       /\ DOMAIN layout.split \subseteq Profiles

Defaults ==
  [min_ver |-> <<0, 0, 1>>, generator |-> "cob", name |-> "name", engine |-> "doxygen",
   source |-> <<>>, feature |-> Unset, hook |-> Unset, dependencies |-> <<>>]

VARIABLES
  combined,     \* CATALYST.yaml: the profiles it has
  split,        \* catalyst.yaml and catalyst_<profile>.yaml: those that exist
  pc,           \* the command that composes
  left,         \* profiles that it has still to merge
  composition,  \* what it has composed
  current,      \* the profile whose dependencies it merges
  item,         \* the next one of them
  seen,         \* history: the profiles that it has merged
  add_pc,       \* `catalyst add`
  todo,         \* profiles that it has still to edit
  dependency,   \* what it adds
  tree,         \* what it has loaded and edited
  added         \* history: what it has reported as added, and has not lost since
                \* with a file that was not written to its end

files == <<combined, split>>
composer == <<pc, left, composition, current, item, seen>>
adder == <<add_pc, todo, dependency, tree>>
vars == <<files, composer, adder, added>>

Init ==
  /\ \E layout \in Layouts : combined = layout.combined /\ split = layout.split
  /\ pc = "idle" /\ left = <<>> /\ composition = Defaults
  /\ current = EmptyProfile /\ item = 1 /\ seen = <<>>
  /\ add_pc = "idle" /\ todo = <<>> /\ dependency = Unset /\ tree = Unset
  /\ added = {}

(***************************************************************************)
(* mergeHelper.                                                            *)
(***************************************************************************)
Nullified(p, leaf) == \E s \in Above[leaf] : p[s] = Null

\* Of versions, which are padded with zeros, the higher one.
Higher(v, w) == \E i \in 1..3 : v[i] > w[i] /\ \A j \in 1..(i - 1) : v[j] = w[j]

VerMax(v, w) ==
  IF v = Unset THEN IF Higher(w, <<0, 0, 0>>) THEN w ELSE v
               ELSE IF Higher(w, v) THEN w ELSE v

\* Mutant of Extended: a profile replaces what earlier ones have listed.
Replaced(old, items) == items

\* A sequence accumulates.
Extended(old, items) == IF old = Unset THEN items ELSE old \o items

\* Mutant of MergedLeaf: null does not unset a key.
MergedUnlessNull(old, p, leaf) ==
  IF Nullified(p, leaf) THEN Unset
  ELSE IF p[leaf] \in {Unset, Null} THEN old
  ELSE CASE leaf = "min_ver" -> VerMax(old, p[leaf])
         [] leaf = "generator" -> IF p[leaf] \in Generators THEN p[leaf] ELSE old
         [] leaf \in {"source", "hook"} -> Extended(old, p[leaf])
         [] OTHER -> p[leaf]

\* What profile p makes of a leaf other than the dependencies.  A null
\* generator is the default one, a null feature is kept as null, and a generator
\* that does not exist is ignored with a warning.
MergedLeaf(old, p, leaf) ==
  IF Nullified(p, leaf) THEN Unset
  ELSE IF p[leaf] = Unset THEN old
  ELSE IF p[leaf] = Null
    THEN CASE leaf = "generator" -> "cob"
           [] leaf = "feature" -> Null
           [] OTHER -> Unset
    ELSE CASE leaf = "generator" -> IF p[leaf] \in Generators THEN p[leaf] ELSE old
           [] leaf = "min_ver" -> VerMax(old, p[leaf])
           [] leaf \in {"source", "hook"} -> Extended(old, p[leaf])
           [] OTHER -> p[leaf]

\* The list of dependencies that those of p are merged into.
OpenedDependencies(old, p) ==
  CASE p["dependencies"] = Null -> Unset
    [] p["dependencies"] = Unset -> old
    [] OTHER -> Extended(old, <<>>)

Merged(c, p) ==
  [leaf \in Leaves |-> IF leaf = "dependencies" THEN OpenedDependencies(c[leaf], p)
                                                ELSE MergedLeaf(c[leaf], p, leaf)]

SameName(deps, d) == {i \in DOMAIN deps : d.name # NoName /\ deps[i].name = d.name}

\* Mutant of WithDependency: all are appended.
WithEachDependency(deps, d) == Append(deps, d)

\* A dependency replaces the one that has its name, and is then the last.
WithDependency(deps, d) ==
  LET same == SameName(deps, d)
      first == CHOOSE i \in same : \A j \in same : i <= j
  IN Append(IF same = {} THEN deps ELSE RemoveAt(deps, first), d)

(***************************************************************************)
(* Composition.                                                            *)
(***************************************************************************)

\* A profile that is listed twice in a row is merged once.
WithoutAdjacentDuplicates(profiles) ==
  FoldLeft(LAMBDA kept, n : IF kept # <<>> /\ Last(kept) = n THEN kept ELSE Append(kept, n),
           <<>>, profiles)

Compose(profiles) ==
  /\ pc = "idle"
  /\ pc' = "loading" /\ left' = WithoutAdjacentDuplicates(profiles)
  /\ UNCHANGED <<files, composition, current, item, seen, adder, added>>

EndCommand ==
  /\ pc' = "idle" /\ left' = <<>> /\ composition' = Defaults
  /\ current' = EmptyProfile /\ item' = 1 /\ seen' = <<>>
  /\ UNCHANGED <<files, adder, added>>

InSplit(n) ==
  IF n \notin DOMAIN split THEN {} ELSE {IF split[n] = Torn THEN EmptyProfile ELSE split[n]}

\* The profiles that can be read from CATALYST.yaml.
Whole == IF combined \in {Missing, Torn} THEN <<>> ELSE combined

\* CATALYST.yaml has precedence; a profile that is not in it is looked for in a
\* file of its own.  Both are read again for each profile.
Found(n) ==
  IF n \in DOMAIN Whole THEN {Whole[n]} ELSE InSplit(n)

\* Mutant of NextProfile: the first dependency is skipped.
NextProfileSkipping(p) ==
  IF p["dependencies"] \in {Unset, Null, <<>>}
    THEN left' = Tail(left) /\ UNCHANGED <<pc, current, item>>
    ELSE pc' = "dependencies" /\ current' = p /\ item' = Len(p["dependencies"]) /\ UNCHANGED left

\* The dependencies of a profile are merged one by one.
NextProfile(p) ==
  IF p["dependencies"] \in {Unset, Null, <<>>}
    THEN left' = Tail(left) /\ UNCHANGED <<pc, current, item>>
    ELSE pc' = "dependencies" /\ current' = p /\ item' = 1 /\ UNCHANGED left

MergeProfile ==
  /\ pc = "loading" /\ left # <<>>
  /\ \E p \in Found(Head(left)) :
       /\ p["unknown"] = Unset
       /\ composition' = Merged(composition, p)
       /\ seen' = Append(seen, p)
       /\ NextProfile(p)
  /\ UNCHANGED <<files, adder, added>>

\* No such profile, a key that a manifest may not have, or a file that is being
\* written and cannot be parsed.
ComposeThrows ==
  /\ pc = "loading" /\ left # <<>>
  /\ \/ combined = Torn
     \/ Head(left) \in DOMAIN split /\ split[Head(left)] = Torn
     \/ \A p \in Found(Head(left)) : p["unknown"] # Unset
  /\ EndCommand

MergeDependency ==
  /\ pc = "dependencies"
  /\ LET deps == current["dependencies"] IN
     /\ composition' = [composition EXCEPT !["dependencies"] = WithDependency(@, deps[item])]
     /\ IF item < Len(deps)
          THEN item' = item + 1 /\ UNCHANGED <<pc, left, current>>
          ELSE pc' = "loading" /\ left' = Tail(left) /\ current' = EmptyProfile /\ item' = 1
  /\ UNCHANGED <<files, seen, adder, added>>

\* The command has its configuration, and ends.
UseConfiguration == pc = "loading" /\ left = <<>> /\ EndCommand

(***************************************************************************)
(* `catalyst add`.                                                         *)
(***************************************************************************)
EndAdd == add_pc' = "idle" /\ todo' = <<>> /\ dependency' = Unset /\ tree' = Unset

Dependencies(p) == IF p["dependencies"] \in {Unset, Null} THEN <<>> ELSE p["dependencies"]

Declares(p, name) == \E i \in DOMAIN Dependencies(p) : Dependencies(p)[i].name = name

Exists(n) == combined # Missing \/ n \in DOMAIN split

\* A profile as loadProfileFile has it: a file of its own replaces what
\* CATALYST.yaml has for it, and what cannot be found in CATALYST.yaml is empty.
LoadedProfile(n) ==
  IF n \in DOMAIN split
    THEN IF split[n] = Torn THEN EmptyProfile ELSE split[n]
    ELSE IF n \in DOMAIN Whole THEN Whole[n] ELSE EmptyProfile

Add(addition) ==
  /\ add_pc = "idle"
  /\ add_pc' = "loading" /\ todo' = addition.profiles
  /\ dependency' = [name |-> addition.name, from |-> "add"]
  /\ UNCHANGED <<files, composer, tree, added>>

\* Mutant of Edited: the list is opened anew.
EditedAnew(p) == [p EXCEPT !["dependencies"] = <<dependency>>]

Edited(p) == [p EXCEPT !["dependencies"] = Append(Dependencies(p), dependency)]

LoadProfile ==
  /\ add_pc = "loading"
  /\ LET n == Head(todo)
         edited == Edited(LoadedProfile(n))
     IN /\ Exists(n)
        /\ ~Declares(LoadedProfile(n), dependency.name)
        /\ tree' = IF combined = Missing THEN edited
                   ELSE [q \in DOMAIN Whole \cup {n} |-> IF q = n THEN edited ELSE Whole[q]]
  /\ add_pc' = "opening"
  /\ UNCHANGED <<files, composer, todo, dependency, added>>

\* There is no such profile, it has such a dependency, or the file cannot be
\* parsed.  Null dependencies are made a sequence without being removed first,
\* which rapidyaml may refuse.  Profiles that are already written stay so.
AddFails ==
  /\ add_pc = "loading"
  /\ LET n == Head(todo) IN
     \/ combined = Torn
     \/ n \in DOMAIN split /\ split[n] = Torn
     \/ Exists(n) => Declares(LoadedProfile(n), dependency.name)
     \/ LoadedProfile(n)["dependencies"] = Null
  /\ EndAdd
  /\ UNCHANGED <<files, composer, added>>

\* The file that an add writes has this content now.
Put(content) ==
  IF combined # Missing THEN combined' = content /\ UNCHANGED split
                        ELSE split' = [split EXCEPT ![Head(todo)] = content] /\ UNCHANGED combined

\* profileWriteBack opens the file, which truncates it ...
OpenFile ==
  /\ add_pc = "opening"
  /\ Put(Torn)
  /\ add_pc' = "writing"
  /\ UNCHANGED <<composer, todo, dependency, tree, added>>

OpenFails == add_pc = "opening" /\ EndAdd /\ UNCHANGED <<files, composer, added>>

ReportAdded ==
  IF Len(todo) > 1
    THEN add_pc' = "loading" /\ todo' = Tail(todo) /\ tree' = Unset /\ UNCHANGED dependency
    ELSE EndAdd

\* ... and writes the document.
WriteFile ==
  /\ add_pc = "writing"
  /\ Put(tree)
  /\ added' = added \cup {<<Head(todo), dependency.name>>}
  /\ ReportAdded
  /\ UNCHANGED composer

\* What was added is gone with a file that is left as it is being written.
Spared == IF combined # Missing THEN {} ELSE {a \in added : a[1] # Head(todo)}

\* The document does not fit on the disk: the stream is not looked at after the
\* writing, so that the command goes on and reports the dependency as added.
WriteCut ==
  /\ add_pc = "writing"
  /\ added' = Spared
  /\ ReportAdded
  /\ UNCHANGED <<files, composer>>

\* `catalyst add` is killed.
Kill ==
  /\ add_pc # "idle"
  /\ EndAdd
  /\ added' = IF add_pc = "writing" THEN Spared ELSE added
  /\ UNCHANGED <<files, composer>>

Next ==
  \/ \E profiles \in Requests : Compose(profiles)
  \/ MergeProfile \/ ComposeThrows \/ MergeDependency \/ UseConfiguration
  \/ \E addition \in Additions : Add(addition)
  \/ LoadProfile \/ AddFails \/ OpenFile \/ OpenFails \/ WriteFile
  \/ WriteCut \/ Kill

Spec == Init /\ [][Next]_vars

(***************************************************************************)
(* Properties.                                                             *)
(***************************************************************************)
Listed(x) == IF x = Unset THEN <<>> ELSE x

\* Reference definition: the profiles merged since the leaf was last nulled.
Nulls(p, leaf) == Nullified(p, leaf) \/ p[leaf] = Null

SinceNull(leaf) ==
  LET nulling == {i \in DOMAIN seen : Nulls(seen[i], leaf)}
      start == IF nulling = {} THEN 0 ELSE CHOOSE i \in nulling : \A j \in nulling : j <= i
  IN SubSeq(seen, start + 1, Len(seen))

ListedSinceNull(leaf) ==
  LET since == SinceNull(leaf) IN FlattenSeq([i \in DOMAIN since |-> Listed(since[i][leaf])])

\* Reference definition: whether p says anything of a scalar, and what.
Touches(p, leaf) ==
  \/ Nullified(p, leaf)
  \/ IF leaf = "generator" THEN p[leaf] \in Generators \cup {Null} ELSE p[leaf] # Unset

Outcome(p, leaf) ==
  CASE Nullified(p, leaf) -> Unset
    [] ~Nullified(p, leaf) /\ p[leaf] = Null /\ leaf = "generator" -> "cob"
    [] ~Nullified(p, leaf) /\ p[leaf] = Null /\ leaf \notin {"generator", "feature"} -> Unset
    [] OTHER -> p[leaf]

\* "Settings are merged from left to right, with later profiles overriding
\* earlier ones" (docs/concepts/profiles.md): the last profile that says anything
\* of a scalar, or nulls it or a section that it is in, decides; else the default.
LastProfileDecides ==
  \A leaf \in {"name", "engine", "generator", "feature"} :
    LET touching == {i \in DOMAIN seen : Touches(seen[i], leaf)} IN
    \/ touching = {} /\ composition[leaf] = Defaults[leaf]
    \/ \E i \in touching :
         (\A j \in touching : j <= i) /\ composition[leaf] = Outcome(seen[i], leaf)

\* Sequences have what each profile since the last null has listed, in the order
\* of the profiles and with duplicates.
SequencesAccumulate ==
  \A leaf \in {"source", "hook"} : Listed(composition[leaf]) = ListedSinceNull(leaf)

Unique(deps) ==
  \A i, j \in DOMAIN deps : i # j /\ deps[i].name = deps[j].name => deps[i].name = NoName

\* A configuration has one dependency for a name, which fetching and generation
\* take as the key of a dependency.
DependencyNamesUnique == Unique(Listed(composition["dependencies"]))

\* Once a profile is merged, the dependencies are the last declaration of each
\* name since the last null, in the order of these declarations.
LastDeclarationsKept ==
  pc = "loading" =>
    LET declared == ListedSinceNull("dependencies")
        lasts == {i \in DOMAIN declared :
                    \/ declared[i].name = NoName
                    \/ \A j \in i + 1 .. Len(declared) : declared[j].name # declared[i].name}
        inOrder(k) == CHOOSE i \in lasts : Cardinality({j \in lasts : j < i}) = k - 1
    IN Listed(composition["dependencies"]) =
         [k \in 1 .. Cardinality(lasts) |-> declared[inOrder(k)]]

\* A dependency that `catalyst add` has reported as added is there when the
\* profile is composed, whatever is added after it: unless the writing of its
\* file was cut off, then or later, by a kill or by a full disk, which the
\* command does not notice. Other files than that one lose nothing.
AddedStays ==
  add_pc # "writing" =>
    \A addition \in added : \E p \in Found(addition[1]) : Declares(p, addition[2])
=============================================================================
